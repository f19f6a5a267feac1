------------------------- MODULE Organization_proofs -------------------------
(***************************************************************************)
(* TLAPS proofs about a provider's organization: its staff, the rollout of *)
(* the workspace to them, and what they plan and carry out.                *)
(***************************************************************************)
EXTENDS Organization, FiniteSetTheorems, TLAPS

-----------------------------------------------------------------------------
(* Staff.                                                                  *)

\* What an invitation and its membership row say of each other.
Agree(i, m) ==
    /\ i.status = "pending" <=> m.status = "invited"
    /\ i.status = "revoked" <=> m.status = "archived"
    /\ i.status = "accepted" <=> m.status \in {"active", "suspended"}

\* A role change asks for a role, a status change for a status.
ChangesFit ==
    \A r \in Requests : request[r] # None =>
        IF request[r].kind = "role" THEN request[r].to \in Roles
        ELSE request[r].to \in {"active", "suspended"}

\* A request that counts owners holds the row it is about and those it has
\* counted, and as long as it does they are active owners.
HeldOwner(r, x) == lock[x] = r /\ ActiveOwner(x)
OwnersCounted ==
    \A r \in Requests : request[r] # None /\ request[r].step = "counting" =>
        /\ HeldOwner(r, request[r].row)
        /\ \A x \in request[r].owners : HeldOwner(r, x)

StaffInv ==
    /\ TypeOK /\ ChangesFit
    /\ MembershipFollowsInvitation
    /\ OwnersCounted /\ KeepsAnOwner

LEMMA StaffStart == Init => StaffInv
<1> SUFFICES ASSUME Init PROVE StaffInv
  OBVIOUS
<1>1. /\ \A x \in Rows : member[x] = [user |-> None, role |-> "organization_owner",
                                      status |-> "none"]
      /\ \A i \in Invites : invite[i].status = "none"
      /\ \A r \in Requests : request[r] = None
  BY DEF Init, Rows
<1>2. [user |-> None, role |-> "organization_owner", status |-> "none"] \in Member
  BY StaffAssumption DEF Member, MemberStatus
<1>3. TypeOK
  <2>1. 0 \in 0..MaxTokens
    BY StaffAssumption
  <2>2. [email |-> None, status |-> "none", lapsed |-> FALSE, token |-> 0] \in Invite
    BY <2>1 DEF Invite, InviteStatus
  <2> QED
    BY <1>2, <2>2 DEF Init, TypeOK
<1>4. MembershipFollowsInvitation
  BY <1>1 DEF MembershipFollowsInvitation, Rows
<1>5. ChangesFit /\ OwnersCounted
  BY <1>1 DEF ChangesFit, OwnersCounted
<1>6. KeepsAnOwner
  BY <1>1 DEF KeepsAnOwner, Rows
<1> QED
  BY <1>3, <1>4, <1>5, <1>6 DEF StaffInv

(* A step that leaves the owners alone.                                    *)
LEMMA OwnersStay ==
    ASSUME StaffInv, UNCHANGED <<request, lock>>,
           \A x \in Rows : ActiveOwner(x) => member'[x] = member[x],
           \/ member'[Founder].status # "none" => member[Founder].status # "none"
           \/ member'[Founder].role = "organization_owner"
              /\ member'[Founder].status = "active"
    PROVE  ChangesFit' /\ OwnersCounted' /\ KeepsAnOwner'
<1>1. \A x \in Rows : ActiveOwner(x) => ActiveOwner(x)'
  BY DEF ActiveOwner
<1>2. Founder \in Rows
  BY DEF Rows
<1>3. KeepsAnOwner'
  BY <1>1, <1>2 DEF StaffInv, KeepsAnOwner, ActiveOwner
<1>4. \A r \in Requests : request[r] # None =>
        request[r].row \in Rows /\ request[r].owners \subseteq Rows
  BY DEF StaffInv, TypeOK, Change
<1>5. OwnersCounted'
  BY <1>1, <1>4 DEF StaffInv, OwnersCounted, HeldOwner
<1> QED
  BY <1>3, <1>5 DEF StaffInv, ChangesFit

LEMMA InviteChangeKeeps ==
    ASSUME StaffInv, NEW i \in Invites, NEW a \in Invite, NEW b \in Member,
           invite' = [invite EXCEPT ![i] = a], member' = [member EXCEPT ![i] = b],
           Agree(a, b), b = member[i] \/ member[i].status # "active",
           UNCHANGED <<request, lock>>, passed' \subseteq Users
    PROVE  StaffInv'
<1>1. i \in Rows /\ Founder \in Rows /\ i # Founder
  BY StaffAssumption DEF Rows
<1>2. TypeOK' /\ TypeOK
  BY <1>1 DEF StaffInv, TypeOK
<1>3. \A x \in Rows : member'[x] = IF x = i THEN b ELSE member[x]
  BY <1>1, <1>2 DEF TypeOK
<1>4. MembershipFollowsInvitation'
  <2>1. \A j \in Invites : invite'[j] = IF j = i THEN a ELSE invite[j]
    BY <1>2 DEF TypeOK
  <2> QED
    BY <1>3, <2>1 DEF StaffInv, MembershipFollowsInvitation, Agree, Rows
<1>5. ChangesFit' /\ OwnersCounted' /\ KeepsAnOwner'
  BY <1>1, <1>3, OwnersStay DEF ActiveOwner
<1> QED
  BY <1>2, <1>4, <1>5 DEF StaffInv

LEMMA GrantedType == ASSUME NEW u, TypeOK, Granted(u) PROVE passed' \subseteq Users
BY DEF TypeOK, Granted

(* The invitations, one statement at a time.                               *)
LEMMA InvitationKeeps ==
    ASSUME StaffInv, InvitationStep
    PROVE  StaffInv'
<1>0. TypeOK /\ passed \subseteq Users /\ MaxTokens \in Nat \ {0}
  BY StaffAssumption DEF StaffInv, TypeOK
<1>1. PICK i \in Invites :
        \/ Lapse(i)
        \/ \E u \in Users :
              \/ revoke_organization_invitation(u, i)
              \/ reissue_organization_invitation(u, i)
              \/ \E e \in Mailboxes, role \in Roles :
                    create_organization_invitation(u, i, e, role)
              \/ \E t \in 1..MaxTokens : accept_organization_invitation(u, i, t)
  BY DEF InvitationStep
<1>2. invite[i] \in Invite /\ member[i] \in Member /\ Agree(invite[i], member[i])
  BY <1>0 DEF TypeOK, StaffInv, MembershipFollowsInvitation, Agree, Rows
<1>3. /\ invite = [invite EXCEPT ![i] = invite[i]]
      /\ member = [member EXCEPT ![i] = member[i]]
  BY <1>0 DEF TypeOK, Rows
<1>4. ASSUME Lapse(i) PROVE StaffInv'
  <2> DEFINE a == [invite[i] EXCEPT !.lapsed = TRUE]
  <2>1. a \in Invite /\ Agree(a, member[i])
    BY <1>2 DEF Invite, Agree
  <2>2. invite' = [invite EXCEPT ![i] = a]
    BY <1>0, <1>4 DEF Lapse, TypeOK
  <2> HIDE DEF a
  <2>3. member' = [member EXCEPT ![i] = member[i]]
    BY <1>3, <1>4 DEF Lapse
  <2>4. UNCHANGED <<request, lock, passed>>
    BY <1>4 DEF Lapse
  <2> QED
    BY <1>0, <1>2, <2>1, <2>2, <2>3, <2>4, InviteChangeKeeps
<1>5. ASSUME NEW u \in Users, revoke_organization_invitation(u, i) PROVE StaffInv'
  <2> DEFINE a == [invite[i] EXCEPT !.status = "revoked"]
             b == [member[i] EXCEPT !.status = "archived"]
  <2>0. revoke_invitation(i) /\ UNCHANGED <<request, lock>> /\ Granted(u)
    BY <1>5 DEF revoke_organization_invitation
  <2>1. member[i].status = "invited"
    BY <1>2, <2>0 DEF revoke_invitation, Live, Agree
  <2>2. a \in Invite /\ b \in Member /\ Agree(a, b)
    BY <1>2 DEF Invite, Member, Agree, InviteStatus, MemberStatus
  <2>3. invite' = [invite EXCEPT ![i] = a] /\ member' = [member EXCEPT ![i] = b]
    BY <1>0, <2>0, <2>1 DEF revoke_invitation, TypeOK
  <2> HIDE DEF a, b
  <2> QED
    BY <1>0, <2>0, <2>1, <2>2, <2>3, InviteChangeKeeps, GrantedType
<1>6. ASSUME NEW u \in Users, reissue_organization_invitation(u, i) PROVE StaffInv'
  <2> DEFINE n == invite[i].token + 1
             e == invite[i].email
             a == [invite[i] EXCEPT !.status = "pending", !.lapsed = FALSE,
                                    !.token = n]
             b == [member[i] EXCEPT !.user = e, !.status = "invited"]
  <2>0. reissue_invitation(i) /\ UNCHANGED <<request, lock>> /\ Granted(u)
    BY <1>6 DEF reissue_organization_invitation
  <2>1. member[i].status \in {"invited", "archived"}
    BY <1>2, <2>0 DEF reissue_invitation, Agree
  <2>2. n \in 0..MaxTokens /\ e \in Users \cup Mailboxes \cup {None}
    BY <1>0, <1>2, <2>0 DEF reissue_invitation, Invite
  <2>3. invite' = [invite EXCEPT ![i] = a] /\ member' = [member EXCEPT ![i] = b]
    BY <1>0, <2>0, <2>1 DEF reissue_invitation, TypeOK
  <2> HIDE DEF n, e
  <2>4. a \in Invite /\ b \in Member /\ Agree(a, b)
    BY <1>2, <2>2 DEF Invite, Member, Agree, InviteStatus, MemberStatus
  <2> HIDE DEF a, b
  <2>5. member[i].status # "active" /\ passed' \subseteq Users
    BY <1>0, <2>0, <2>1, GrantedType
  <2> QED
    BY <2>0, <2>3, <2>4, <2>5, InviteChangeKeeps
<1>7. ASSUME NEW u \in Users, NEW e \in Mailboxes, NEW role \in Roles,
             create_organization_invitation(u, i, e, role)
      PROVE  StaffInv'
  <2> DEFINE a == [email |-> e, status |-> "pending", lapsed |-> FALSE, token |-> 1]
             b == [user |-> e, role |-> role, status |-> "invited"]
  <2>0. /\ create_invitation(i, e, role) /\ UNCHANGED <<request, lock>>
        /\ Granted(u)
    BY <1>7 DEF create_organization_invitation
  <2>1. member[i].status # "active"
    BY <1>2, <2>0 DEF create_invitation, Agree
  <2>2. a \in Invite /\ b \in Member /\ Agree(a, b)
    BY <1>0 DEF Invite, Member, Agree, InviteStatus, MemberStatus
  <2>3. invite' = [invite EXCEPT ![i] = a] /\ member' = [member EXCEPT ![i] = b]
    BY <2>0 DEF create_invitation
  <2> HIDE DEF a, b
  <2> QED
    BY <1>0, <2>0, <2>1, <2>2, <2>3, InviteChangeKeeps, GrantedType
<1>8. ASSUME NEW u \in Users, NEW t \in 1..MaxTokens,
             accept_organization_invitation(u, i, t)
      PROVE  StaffInv'
  <2> DEFINE a == [invite[i] EXCEPT !.status = "accepted"]
             b == [member[i] EXCEPT !.user = u, !.status = "active"]
  <2>0. accept_invitation(u, i, t) /\ UNCHANGED <<request, lock, passed>>
    BY <1>8 DEF accept_organization_invitation
  <2>1. member[i].status # "active"
    BY <1>2, <2>0 DEF accept_invitation, Live, Agree
  <2>2. a \in Invite /\ b \in Member /\ Agree(a, b)
    BY <1>2 DEF Invite, Member, Agree, InviteStatus, MemberStatus
  <2>3. invite' = [invite EXCEPT ![i] = a] /\ member' = [member EXCEPT ![i] = b]
    BY <1>0, <2>0 DEF accept_invitation, TypeOK
  <2> HIDE DEF a, b
  <2> QED
    BY <1>0, <2>0, <2>1, <2>2, <2>3, InviteChangeKeeps
<1> QED
  BY <1>1, <1>4, <1>5, <1>6, <1>7, <1>8

LEMMA CheckKeeps ==
    ASSUME StaffInv, CheckStep
    PROVE  StaffInv'
<1>0. TypeOK /\ Founder \in Rows /\ Founder \notin Invites
  BY StaffAssumption DEF StaffInv, Rows
<1>1. ASSUME NEW u \in Users, bootstrap_organization(u) PROVE StaffInv'
  <2> DEFINE b == [user |-> u, role |-> "organization_owner", status |-> "active"]
  <2>1. /\ member[Founder].status = "none"
        /\ member' = [member EXCEPT ![Founder] = b]
        /\ UNCHANGED <<invite, passed, request, lock>>
    BY <1>1 DEF bootstrap_organization, CreateOrganization
  <2>2. b \in Member
    BY StaffAssumption DEF Member, MemberStatus
  <2>3. b.role = "organization_owner" /\ b.status = "active"
    OBVIOUS
  <2> HIDE DEF b
  <2>4. TypeOK'
    BY <1>0, <2>1, <2>2 DEF TypeOK
  <2>5. \A x \in Rows : member'[x] = IF x = Founder THEN b ELSE member[x]
    BY <1>0, <2>1 DEF TypeOK
  <2>6. MembershipFollowsInvitation'
    BY <1>0, <2>1, <2>5 DEF StaffInv, MembershipFollowsInvitation, Rows
  <2>7. ChangesFit' /\ OwnersCounted' /\ KeepsAnOwner'
    BY <1>0, <2>1, <2>3, <2>5, OwnersStay DEF ActiveOwner
  <2> QED
    BY <2>4, <2>6, <2>7 DEF StaffInv
<1>2. ASSUME NEW u \in Users, require_organization_membership(u) PROVE StaffInv'
  <2>1. UNCHANGED <<member, invite, request, lock>> /\ passed' = passed \cup {u}
    BY <1>2 DEF require_organization_membership, rowVars
  <2>2. TypeOK'
    BY <1>0, <2>1 DEF TypeOK
  <2>3. MembershipFollowsInvitation'
    BY <2>1 DEF StaffInv, MembershipFollowsInvitation
  <2>4. ChangesFit' /\ OwnersCounted' /\ KeepsAnOwner'
    BY <2>1, OwnersStay
  <2> QED
    BY <2>2, <2>3, <2>4 DEF StaffInv
<1> QED
  BY <1>1, <1>2 DEF CheckStep

(* A request that begins counts nothing.                                   *)
LEMMA BeginKeeps ==
    ASSUME StaffInv, NEW u \in Users, NEW r \in Requests, NEW x \in Rows,
           \/ \E role \in Roles : update_organization_membership_role(u, r, x, role)
           \/ \E status \in {"active", "suspended"} :
                 update_organization_membership_status(u, r, x, status)
    PROVE  StaffInv'
<1>0. TypeOK
  BY DEF StaffInv
<1>1. PICK q \in Change :
        /\ request' = [request EXCEPT ![r] = q]
        /\ IF q.kind = "role" THEN q.to \in Roles ELSE q.to \in {"active", "suspended"}
        /\ q.step = "begun"
        /\ Granted(u) /\ UNCHANGED <<member, invite, lock>>
  <2>1. CASE \E role \in Roles : update_organization_membership_role(u, r, x, role)
    <3>1. PICK role \in Roles : update_organization_membership_role(u, r, x, role)
      BY <2>1
    <3> DEFINE q == [kind |-> "role", row |-> x, to |-> role, step |-> "begun",
                     scan |-> {}, owners |-> {}]
    <3>2. q \in Change /\ q.kind = "role" /\ q.to \in Roles /\ q.step = "begun"
      BY DEF Change
    <3>3. request' = [request EXCEPT ![r] = q] /\ Granted(u)
          /\ UNCHANGED <<member, invite, lock>>
      BY <3>1 DEF update_organization_membership_role, BeginChange, rowVars
    <3> HIDE DEF q
    <3> QED
      BY <3>2, <3>3
  <2>2. CASE \E status \in {"active", "suspended"} :
               update_organization_membership_status(u, r, x, status)
    <3>1. PICK status \in {"active", "suspended"} :
            update_organization_membership_status(u, r, x, status)
      BY <2>2
    <3> DEFINE q == [kind |-> "status", row |-> x, to |-> status, step |-> "begun",
                     scan |-> {}, owners |-> {}]
    <3>2. q \in Change /\ q.kind = "status" /\ q.to \in {"active", "suspended"}
          /\ q.step = "begun"
      BY DEF Change
    <3>3. request' = [request EXCEPT ![r] = q] /\ Granted(u)
          /\ UNCHANGED <<member, invite, lock>>
      BY <3>1 DEF update_organization_membership_status, BeginChange, rowVars
    <3> HIDE DEF q
    <3> QED
      BY <3>2, <3>3
  <2> QED
    BY <2>1, <2>2
<1>2. passed' \subseteq Users
  BY <1>0, <1>1, GrantedType
<1>3. request'[r] = q /\ \A s \in Requests \ {r} : request'[s] = request[s]
  BY <1>0, <1>1 DEF TypeOK
<1>4. TypeOK'
  BY <1>0, <1>1, <1>2 DEF TypeOK
<1>5. ChangesFit'
  BY <1>1, <1>3 DEF StaffInv, ChangesFit
<1>6. OwnersCounted'
  BY <1>1, <1>3 DEF StaffInv, OwnersCounted, HeldOwner, ActiveOwner
<1>7. MembershipFollowsInvitation' /\ KeepsAnOwner'
  BY <1>1 DEF StaffInv, MembershipFollowsInvitation, KeepsAnOwner, ActiveOwner
<1> QED
  BY <1>4, <1>5, <1>6, <1>7 DEF StaffInv

(* A request that ends writes a row that no other request holds.           *)
LEMMA EndKeeps ==
    ASSUME StaffInv, NEW r \in Requests, NEW y \in Rows, NEW b \in Member,
           Ended(r), UNCHANGED <<invite, passed>>,
           member' = [member EXCEPT ![y] = b],
           b = member[y] \/ lock[y] \in {None, r},
           y \in Invites => Agree(invite[y], b),
           KeepsAnOwner'
    PROVE  StaffInv'
<1>0. TypeOK /\ None \notin Requests
  BY StaffAssumption DEF StaffInv
<1>1. /\ request'[r] = None
      /\ \A s \in Requests \ {r} : request'[s] = request[s]
      /\ \A x \in Rows : lock'[x] = IF lock[x] = r THEN None ELSE lock[x]
      /\ \A x \in Rows : member'[x] = IF x = y THEN b ELSE member[x]
  BY <1>0 DEF TypeOK, Ended
<1>2. TypeOK'
  BY <1>0 DEF TypeOK, Ended
<1>3. ChangesFit'
  BY <1>1 DEF StaffInv, ChangesFit
<1>4. ASSUME NEW s \in Requests \ {r}, NEW x \in Rows, HeldOwner(s, x)
      PROVE  lock'[x] = s /\ member'[x] = member[x]
  BY <1>0, <1>1, <1>4 DEF HeldOwner
<1>5. OwnersCounted'
  <2>1. SUFFICES ASSUME NEW s \in Requests \ {r}, request[s] # None,
                        request[s].step = "counting"
                 PROVE  /\ HeldOwner(s, request[s].row)'
                        /\ \A x \in request[s].owners : HeldOwner(s, x)'
    BY <1>1 DEF OwnersCounted, HeldOwner, ActiveOwner
  <2>2. request[s].row \in Rows /\ request[s].owners \subseteq Rows
        /\ request'[s] = request[s]
    BY <1>0, <1>1, <2>1 DEF TypeOK, Change
  <2>3. HeldOwner(s, request[s].row) /\ \A x \in request[s].owners : HeldOwner(s, x)
    BY <2>1 DEF StaffInv, OwnersCounted
  <2> QED
    BY <1>4, <2>2, <2>3 DEF HeldOwner, ActiveOwner
<1>6. MembershipFollowsInvitation'
  BY <1>1 DEF StaffInv, MembershipFollowsInvitation, Agree, Rows
<1> QED
  BY <1>2, <1>3, <1>5, <1>6 DEF StaffInv

(* What a change writes: one row, whose status stays in use or out of it.  *)
WritesRow(q, b) ==
    /\ member' = [member EXCEPT ![q.row] = b]
    /\ b.status = "none" <=> member[q.row].status = "none"
    /\ q.row \in Invites => Agree(invite[q.row], b)
    /\ \/ b = member[q.row]
       \/ q.kind = "role" /\ b.role = q.to /\ b.status = member[q.row].status
       \/ q.kind = "status" /\ b.status = q.to /\ b.role = member[q.row].role

LEMMA WrittenRow ==
    ASSUME StaffInv, NEW r \in Requests, request[r] # None,
           Manageable(request[r]), Written(request[r])
    PROVE  \E b \in Member : WritesRow(request[r], b)
<1> DEFINE q == request[r]
           m == member[q.row]
<1>0. TypeOK /\ q \in Change
  BY DEF StaffInv, TypeOK
<1>1. q.row \in Rows /\ m \in Member /\ q.kind \in {"role", "status"}
  BY <1>0 DEF TypeOK, Change
<1>2. q.row \in Invites => Agree(invite[q.row], m)
  BY DEF StaffInv, MembershipFollowsInvitation, Agree
<1>3. member = [member EXCEPT ![q.row] = m]
  BY <1>0, <1>1 DEF TypeOK
<1>4. CASE q.kind = "status"
  <2> DEFINE b == [m EXCEPT !.status = q.to]
  <2>1. q.to \in {"active", "suspended"} /\ m.status \in {"active", "suspended"}
    BY <1>4 DEF StaffInv, ChangesFit, Manageable
  <2>2. b \in Member /\ b.status = q.to /\ b.role = m.role
    BY <1>1, <2>1 DEF Member, MemberStatus
  <2>3. q.row \in Invites => Agree(invite[q.row], b)
    BY <1>2, <2>1, <2>2 DEF Agree
  <2>4. member' = [member EXCEPT ![q.row] = b]
    BY <1>0, <1>1, <1>4 DEF Written, TypeOK
  <2> HIDE DEF b
  <2>5. WritesRow(q, b)
    BY <1>4, <2>1, <2>2, <2>3, <2>4 DEF WritesRow
  <2> QED
    BY <2>2, <2>5
<1>5. CASE q.kind = "role" /\ Vacant(m.user, q.to, q.row)
  <2> DEFINE b == [m EXCEPT !.role = q.to]
  <2>1. q.to \in Roles
    BY <1>5 DEF StaffInv, ChangesFit
  <2>2. b \in Member /\ b.status = m.status /\ b.role = q.to
    BY <1>1, <2>1 DEF Member
  <2>3. q.row \in Invites => Agree(invite[q.row], b)
    BY <1>2, <2>2 DEF Agree
  <2>4. member' = [member EXCEPT ![q.row] = b]
    BY <1>0, <1>1, <1>5 DEF Written, TypeOK
  <2> HIDE DEF b
  <2>5. WritesRow(q, b)
    BY <1>5, <2>2, <2>3, <2>4 DEF WritesRow
  <2> QED
    BY <2>2, <2>5
<1>6. CASE q.kind = "role" /\ ~Vacant(m.user, q.to, q.row)
  <2>1. member' = [member EXCEPT ![q.row] = m]
    BY <1>3, <1>6 DEF Written
  <2>2. WritesRow(q, m)
    BY <1>2, <2>1 DEF WritesRow
  <2> QED
    BY <1>1, <2>2
<1> QED
  BY <1>1, <1>4, <1>5, <1>6

(* A request that ends without a write.                                    *)
LEMMA EndIdle ==
    ASSUME StaffInv, NEW r \in Requests, Ended(r), UNCHANGED <<member, invite, passed>>
    PROVE  StaffInv'
<1>0. TypeOK /\ Founder \in Rows /\ Founder \notin Invites
  BY StaffAssumption DEF StaffInv, Rows
<1> DEFINE b == member[Founder]
<1>1. b \in Member /\ member = [member EXCEPT ![Founder] = b]
  BY <1>0 DEF TypeOK
<1>2. KeepsAnOwner'
  BY DEF StaffInv, KeepsAnOwner, ActiveOwner
<1> HIDE DEF b
<1>3. b = member[Founder]
  BY DEF b
<1> QED
  BY <1>0, <1>1, <1>2, <1>3, EndKeeps

LEMMA UpdateKeeps ==
    ASSUME StaffInv, NEW r \in Requests, update_membership(r)
    PROVE  StaffInv'
<1> DEFINE q == request[r]
<1>0. /\ TypeOK /\ q # None /\ q \in Change /\ Free(q.row)
      /\ ~(Manageable(q) /\ DropsOwner(q))
      /\ IF Manageable(q) THEN Written(q) ELSE UNCHANGED member
      /\ Ended(r) /\ UNCHANGED <<invite, passed>>
  BY DEF StaffInv, TypeOK, update_membership
<1>1. CASE ~Manageable(q)
  BY <1>0, <1>1, EndIdle
<1>2. CASE Manageable(q)
  <2>1. PICK b \in Member : WritesRow(q, b)
    BY <1>0, <1>2, WrittenRow
  <2>2. /\ q.row \in Rows /\ Founder \in Rows /\ ~DropsOwner(q)
        /\ q.kind \in {"role", "status"}
        /\ q.kind = "status" => q.to \in {"active", "suspended"}
    BY <1>0, <1>2 DEF Change, Rows, StaffInv, ChangesFit
  <2>3. /\ \A x \in Rows \ {q.row} : member'[x] = member[x]
        /\ member'[q.row] = b
    BY <1>0, <2>1, <2>2 DEF WritesRow, TypeOK
  <2>4. ActiveOwner(q.row) =>
          member'[q.row].role = "organization_owner" /\ member'[q.row].status = "active"
    BY <2>1, <2>2, <2>3 DEF WritesRow, DropsOwner, ActiveOwner
  <2>5. \A x \in Rows : ActiveOwner(x) => ActiveOwner(x)'
    BY <2>3, <2>4 DEF ActiveOwner
  <2>6. member'[Founder].status # "none" => member[Founder].status # "none"
    BY <2>1, <2>2, <2>3 DEF WritesRow
  <2>7. KeepsAnOwner'
    BY <2>5, <2>6 DEF StaffInv, KeepsAnOwner
  <2> QED
    BY <1>0, <2>1, <2>2, <2>7, EndKeeps DEF WritesRow, Free
<1> QED
  BY <1>1, <1>2

(* The row to change is locked, and the owners are looked for.             *)
LEMMA LockKeeps ==
    ASSUME StaffInv, NEW r \in Requests, LockOwnerRow(r) \/ LockNextOwner(r)
    PROVE  StaffInv'
<1>0. /\ TypeOK /\ request[r] # None /\ request[r] \in Change
      /\ UNCHANGED <<member, invite, passed>>
  BY DEF StaffInv, TypeOK, LockOwnerRow, LockNextOwner, rowVars
<1>1. PICK x \in Rows, q \in Change :
        /\ request' = [request EXCEPT ![r] = q] /\ lock' = [lock EXCEPT ![x] = r]
        /\ lock[x] \in {None, r}
        /\ q.kind = request[r].kind /\ q.to = request[r].to
        /\ \A z \in {q.row} \cup q.owners :
             ActiveOwner(z) /\ (z = x \/ lock[z] = r)
  <2>1. CASE LockOwnerRow(r)
    <3> DEFINE q == [request[r] EXCEPT !.step = "counting", !.owners = {},
                                       !.scan = {x \in Rows : ActiveOwner(x)}]
    <3>1. /\ q \in Change /\ q.row = request[r].row /\ q.owners = {}
          /\ q.kind = request[r].kind /\ q.to = request[r].to
      BY <1>0 DEF Change
    <3>2. /\ request' = [request EXCEPT ![r] = q]
          /\ lock' = [lock EXCEPT ![request[r].row] = r]
          /\ lock[request[r].row] = None /\ ActiveOwner(request[r].row)
      BY <2>1 DEF LockOwnerRow, Free, DropsOwner
    <3>3. request[r].row \in Rows
      BY <1>0 DEF Change
    <3> HIDE DEF q
    <3> QED
      BY <3>1, <3>2, <3>3
  <2>2. CASE LockNextOwner(r)
    <3>1. PICK x \in request[r].scan :
            /\ lock[x] \in {None, r} /\ lock' = [lock EXCEPT ![x] = r]
            /\ request' = [request EXCEPT ![r] =
                  [request[r] EXCEPT !.scan = @ \ {x},
                     !.owners = IF ActiveOwner(x) THEN @ \cup {x} ELSE @]]
            /\ request[r].step = "counting"
      BY <2>2 DEF LockNextOwner
    <3> DEFINE scan == request[r].scan \ {x}
               owners == IF ActiveOwner(x) THEN request[r].owners \cup {x}
                         ELSE request[r].owners
               q == [request[r] EXCEPT !.scan = scan, !.owners = owners]
    <3>2. x \in Rows /\ scan \in SUBSET Rows /\ owners \in SUBSET Rows
      BY <1>0 DEF Change
    <3>3. request' = [request EXCEPT ![r] = q]
      BY <1>0, <3>1 DEF Change
    <3>4. \A z \in {request[r].row} \cup owners :
            ActiveOwner(z) /\ (z = x \/ lock[z] = r)
      BY <1>0, <3>1 DEF StaffInv, OwnersCounted, HeldOwner
    <3> HIDE DEF scan, owners
    <3>5. /\ q \in Change /\ q.row = request[r].row /\ q.owners = owners
          /\ q.kind = request[r].kind /\ q.to = request[r].to
      BY <1>0, <3>2 DEF Change
    <3> HIDE DEF q
    <3> QED
      BY <3>1, <3>2, <3>3, <3>4, <3>5
  <2> QED
    BY <2>1, <2>2
<1>2. /\ request'[r] = q /\ \A s \in Requests \ {r} : request'[s] = request[s]
      /\ lock'[x] = r /\ \A z \in Rows \ {x} : lock'[z] = lock[z]
  BY <1>0, <1>1 DEF TypeOK
<1>3. TypeOK'
  BY <1>0, <1>1 DEF TypeOK
<1>4. ChangesFit'
  BY <1>0, <1>1, <1>2 DEF StaffInv, ChangesFit
<1>5. MembershipFollowsInvitation' /\ KeepsAnOwner'
  BY <1>0 DEF StaffInv, MembershipFollowsInvitation, KeepsAnOwner, ActiveOwner
<1>6. OwnersCounted'
  <2>1. \A z \in Rows : ActiveOwner(z)' = ActiveOwner(z)
    BY <1>0 DEF ActiveOwner
  <2>2. \A s \in Requests, z \in Rows : HeldOwner(s, z) /\ s # r =>
          lock'[z] = s /\ ActiveOwner(z)'
    <3>1. None \notin Requests
      BY StaffAssumption
    <3> QED
      BY <1>1, <1>2, <2>1, <3>1 DEF HeldOwner
  <2>3. q.row \in Rows /\ q.owners \subseteq Rows
    BY DEF Change
  <2>4. \A z \in {q.row} \cup q.owners : lock'[z] = r /\ ActiveOwner(z)'
    BY <1>1, <1>2, <2>1, <2>3
  <2>5. ASSUME NEW s \in Requests \ {r}, request[s] # None,
               request[s].step = "counting",
               NEW z \in {request[s].row} \cup request[s].owners
        PROVE  lock'[z] = s /\ ActiveOwner(z)'
    <3>1. z \in Rows /\ HeldOwner(s, z)
      BY <1>0, <2>5 DEF StaffInv, OwnersCounted, TypeOK, Change
    <3> QED
      BY <2>2, <3>1
  <2>6. ASSUME NEW s \in Requests, request'[s] # None,
               request'[s].step = "counting",
               NEW z \in {request'[s].row} \cup request'[s].owners
        PROVE  lock'[z] = s /\ ActiveOwner(z)'
    BY <1>2, <2>4, <2>5, <2>6
  <2> QED
    BY <2>6 DEF OwnersCounted, HeldOwner, ActiveOwner
<1> QED
  BY <1>3, <1>4, <1>5, <1>6 DEF StaffInv

(* Of two owners that are held, the one that is not changed remains.       *)
LEMMA FinishKeeps ==
    ASSUME StaffInv, NEW r \in Requests, FinishOwnerChange(r)
    PROVE  StaffInv'
<1> DEFINE q == request[r]
<1>0. /\ TypeOK /\ q # None /\ q \in Change /\ q.step = "counting"
      /\ IF Cardinality(q.owners) <= 1 THEN UNCHANGED member ELSE Written(q)
      /\ Ended(r) /\ UNCHANGED <<invite, passed>>
  BY DEF StaffInv, TypeOK, FinishOwnerChange
<1>1. CASE UNCHANGED member
  BY <1>0, <1>1, EndIdle
<1>2. CASE ~(Cardinality(q.owners) <= 1) /\ Written(q)
  <2>1. /\ HeldOwner(r, q.row) /\ \A x \in q.owners : HeldOwner(r, x)
        /\ q.row \in Rows /\ q.owners \subseteq Rows
    BY <1>0 DEF StaffInv, OwnersCounted, Change
  <2>2. PICK z \in q.owners : z # q.row
    <3>1. Cardinality({}) = 0 /\ Cardinality({q.row}) = 1
      BY FS_EmptySet, FS_Singleton
    <3>2. q.owners # {} /\ q.owners # {q.row}
      BY <1>2, <3>1
    <3> QED
      BY <3>2
  <2>3. Manageable(q)
    BY <2>1 DEF Manageable, HeldOwner, ActiveOwner
  <2>4. PICK b \in Member : WritesRow(q, b)
    BY <1>0, <1>2, <2>3, WrittenRow
  <2>5. ActiveOwner(z) /\ z \in Rows /\ member'[z] = member[z]
    BY <1>0, <2>1, <2>2, <2>4 DEF WritesRow, HeldOwner, TypeOK
  <2>6. KeepsAnOwner'
    BY <2>5 DEF KeepsAnOwner, ActiveOwner
  <2> QED
    BY <1>0, <2>1, <2>4, <2>6, EndKeeps DEF WritesRow, HeldOwner
<1> QED
  BY <1>0, <1>1, <1>2

LEMMA StaffStep == StaffInv /\ [Next]_vars => StaffInv'
<1> SUFFICES ASSUME StaffInv, [Next]_vars PROVE StaffInv'
  OBVIOUS
<1>1. ASSUME ChangeStep PROVE StaffInv'
  <2>1. ASSUME NEW r \in Requests, AbortDeadlock(r) PROVE StaffInv'
    BY <2>1, EndIdle DEF AbortDeadlock, rowVars
  <2> QED
    BY <1>1, <2>1, BeginKeeps, UpdateKeeps, LockKeeps, FinishKeeps DEF ChangeStep
<1>2. ASSUME UNCHANGED vars PROVE StaffInv'
  <2>1. UNCHANGED <<member, invite, passed, request, lock>>
    BY <1>2 DEF vars, rowVars
  <2>2. TypeOK' /\ MembershipFollowsInvitation'
    BY <2>1 DEF StaffInv, TypeOK, MembershipFollowsInvitation
  <2>3. ChangesFit' /\ OwnersCounted' /\ KeepsAnOwner'
    BY <2>1, OwnersStay
  <2> QED
    BY <2>2, <2>3 DEF StaffInv
<1> QED
  BY <1>1, <1>2, CheckKeeps, InvitationKeeps DEF Next

LEMMA StaffInvariant == Spec => []StaffInv
BY StaffStart, StaffStep, PTL DEF Spec

\* The memberships, invitations and requests of an organization are well typed.
THEOREM StaffTypeCorrect == Spec => []TypeOK
BY StaffInvariant, PTL DEF StaffInv

\* However many owners demote and suspend each other at the same time, each
\* locking the owners' rows one after the other (update_membership_role and
\* update_membership_status), one remains.
THEOREM AnOwnerRemains == Spec => []KeepsAnOwner
BY StaffInvariant, PTL DEF StaffInv

\* An invitation and its membership agree through every reissue, acceptance,
\* revocation, and change of the membership.
THEOREM InvitationAndMembership == Spec => []MembershipFollowsInvitation
BY StaffInvariant, PTL DEF StaffInv

-----------------------------------------------------------------------------
(* The rollout.                                                            *)

\* A key of an actor made one event, and all answers are those of the events.
RolloutInv ==
    /\ \A v, w \in events : v.actor = w.actor /\ v.key = w.key => v = w
    /\ \A a \in answers : \E v \in events : a = ReplayAnswer(v)

LEMMA RolloutKeeps ==
    ASSUME RolloutInv, NEW u \in Users, NEW key \in Keys, NEW q \in Mutation,
           NEW x \in Rows, Replay(u, key, q, x) \/ Apply(u, key, q, x)
    PROVE  RolloutInv'
<1>1. CASE Replay(u, key, q, x)
  BY <1>1 DEF Replay, load_workspace_rollout_mutation_replay, RolloutInv, ReplayAnswer
<1>2. CASE Apply(u, key, q, x)
  <2>1. PICK v :
          /\ events' = events \cup {v}
          /\ answers' = answers \cup {ReplayAnswer(v)}
          /\ \A w \in events : ~(w.actor = v.actor /\ w.key = v.key)
    <3> DEFINE p == <<member[x].user, member[x].role>>
               n == update_workspace_rollout_enrollment(enrollment[p], q)
               v == [actor |-> u, key |-> key, person |-> p[1], role |-> p[2],
                     action |-> q.action, unit |-> n.unit, version |-> n.version]
    <3>1. /\ load_workspace_rollout_mutation_replay(u, key) = {}
          /\ events' = events \cup {v}
          /\ answers' = answers \cup
               {[actor |-> u, key |-> key, unit |-> n.unit, version |-> n.version]}
      BY <1>2 DEF Apply
    <3> HIDE DEF n, p
    <3>2. ReplayAnswer(v)
            = [actor |-> u, key |-> key, unit |-> n.unit, version |-> n.version]
      BY DEF ReplayAnswer
    <3>3. v.actor = u /\ v.key = key
      OBVIOUS
    <3> HIDE DEF v
    <3>4. \A w \in events : ~(w.actor = v.actor /\ w.key = v.key)
      BY <3>1, <3>3 DEF load_workspace_rollout_mutation_replay
    <3> QED
      BY <3>1, <3>2, <3>4
  <2> QED
    BY <2>1 DEF RolloutInv, ReplayAnswer
<1> QED
  BY <1>1, <1>2

\* However often a change of the rollout is retried, whatever happened to the
\* enrollment, the role and the membership since, the answers to one key agree.
THEOREM RetriesAgree == RolloutSpec => []RetryIsAnsweredAlike
<1>1. Init /\ RolloutInit => RolloutInv
  BY DEF RolloutInit, RolloutInv
<1>2. RolloutInv /\ [RolloutNext]_allVars => RolloutInv'
  <2> SUFFICES ASSUME RolloutInv, [RolloutNext]_allVars PROVE RolloutInv'
    OBVIOUS
  <2>1. CASE RolloutStep
    BY <2>1, RolloutKeeps
    DEF RolloutStep, update_workspace_rollout_enrollment_request,
        mutate_membership_workspace_rollout
  <2>2. CASE UNCHANGED rolloutVars
    BY <2>2 DEF rolloutVars, RolloutInv, ReplayAnswer
  <2> QED
    BY <2>1, <2>2 DEF RolloutNext, allVars
<1>3. RolloutInv => RetryIsAnsweredAlike
  BY DEF RolloutInv, RetryIsAnsweredAlike, ReplayAnswer
<1> QED
  BY <1>1, <1>2, <1>3, PTL DEF RolloutSpec

-----------------------------------------------------------------------------
(* Customer records.                                                       *)

\* An assignment under way is of a property to a crew.
WorkFits ==
    /\ DOMAIN work = Writers /\ DOMAIN assigned = Properties
    /\ \A w \in Writers : work[w] # None /\ work[w].op = "property" =>
           work[w].property \in Properties /\ work[w].crew \in Crews

\* What a request under way was admitted for is still so when it writes, or its
\* property was archived meanwhile: an activation has a crew, an assignment a
\* property in service.
InService ==
    \A x \in Properties \ overtaken :
        /\ property[x] = "archived" => assigned[x] = None
        /\ property[x] = "active" => assigned[x] # None
ActivationBacked ==
    \A w \in Writers : asked[w] # None /\ asked[w].target = "active" =>
        asked[w].property \in overtaken \/ assigned[asked[w].property] # None
AssignmentBacked ==
    \A w \in Writers : work[w] # None /\ work[w].op = "property" =>
        work[w].property \in overtaken \/ property[work[w].property] # "archived"

\* What the archive of an account has counted stays until its commit, and no
\* request is under way for an account that is archived, unless it escaped.
OutOfService ==
    \A a \in Accounts \ overtaken :
        account[a] = "archived" => Current(a) = {} /\ a \notin serving
ArchiveCounted ==
    \A a \in archiving \ overtaken : Current(a) = {} /\ a \notin serving
ArchivedIsQuiet ==
    \A a \in Accounts \ overtaken : account[a] = "archived" => ~UnderWay(a)

PropertyInv == InService /\ ActivationBacked /\ AssignmentBacked
AccountInv == OutOfService /\ ArchiveCounted /\ ArchivedIsQuiet
RecordsInv == RecordsTypeOK /\ WorkFits /\ PropertyInv /\ AccountInv

LEMMA RecordsStart == PlanInit /\ RecordsInit => RecordsInv
<1> SUFFICES ASSUME PlanInit, RecordsInit PROVE RecordsInv
  OBVIOUS
<1>1. RecordsTypeOK
  BY DEF RecordsInit, RecordsTypeOK, RecordStatus, PropertyStatus, ProfileStatus
<1>2. WorkFits
  BY DEF PlanInit, WorkFits
<1>3. PropertyInv
  BY DEF PlanInit, RecordsInit, PropertyInv, InService, ActivationBacked, AssignmentBacked
<1>4. AccountInv
  BY DEF RecordsInit, AccountInv, OutOfService, ArchiveCounted, ArchivedIsQuiet
<1> QED
  BY <1>1, <1>2, <1>3, <1>4 DEF RecordsInv

(* Steps of the planning that neither begin nor end an assignment.         *)
OtherWork ==
    /\ DOMAIN work' = Writers
    /\ \A w \in Writers :
         work'[w] = work[w] \/ work'[w] = None \/ work'[w].op # "property"

LEMMA BeginsOther ==
    ASSUME DOMAIN work = Writers, NEW w \in Writers, NEW q, q.op # "property",
           Begins(w, q)
    PROVE  OtherWork
BY DEF Begins, OtherWork

LEMMA DoesOther ==
    ASSUME DOMAIN work = Writers, NEW w \in Writers, NEW op, Does(w, op)
    PROVE  OtherWork
BY DEF Does, OtherWork

LEMMA SameOther ==
    ASSUME DOMAIN work = Writers, UNCHANGED work
    PROVE  OtherWork
BY DEF OtherWork

LEMMA PlanningIsOther ==
    ASSUME DOMAIN work = Writers, HierarchyStep \/ CrewSetup \/ RouteStep
    PROVE  OtherWork /\ UNCHANGED assigned
<1>1. ASSUME HierarchyStep PROVE OtherWork /\ UNCHANGED assigned
  <2>1. ASSUME NEW b \in Branches, create_organization_branch(b) PROVE OtherWork
    BY <2>1, SameOther DEF create_organization_branch
  <2>2. ASSUME NEW w \in Writers, NEW t \in Territories, create_service_territory(w, t)
        PROVE  OtherWork
    BY <2>2, BeginsOther DEF create_service_territory
  <2>3. ASSUME NEW w \in Writers, NEW b \in Branches, NEW s \in {"active", "inactive"},
               update_organization_branch_status(w, b, s)
        PROVE  OtherWork
    <3>1. CheckBranchScope(w, b) \/ UNCHANGED work
      BY <2>3 DEF update_organization_branch_status
    <3> QED
      BY <3>1, BeginsOther, SameOther DEF CheckBranchScope
  <2>4. ASSUME NEW w \in Writers, NEW t \in Territories, NEW s \in {"active", "inactive"},
               update_service_territory_status(w, t, s)
        PROVE  OtherWork
    <3>1. CheckTerritoryScope(w, t) \/ UNCHANGED work
      BY <2>4 DEF update_service_territory_status
    <3> QED
      BY <3>1, BeginsOther, SameOther DEF CheckTerritoryScope
  <2>5. ASSUME NEW w \in Writers,
               InsertTerritory(w) \/ DeactivateBranch(w) \/ DeactivateTerritory(w)
        PROVE  OtherWork
    BY <2>5, DoesOther DEF InsertTerritory, DeactivateBranch, DeactivateTerritory
  <2>6. UNCHANGED assigned
    BY <1>1 DEF HierarchyStep, create_organization_branch, create_service_territory,
                update_organization_branch_status, update_service_territory_status,
                InsertTerritory, DeactivateBranch, DeactivateTerritory
  <2> QED
    BY <1>1, <2>1, <2>2, <2>3, <2>4, <2>5, <2>6 DEF HierarchyStep
<1>2. ASSUME CrewSetup PROVE OtherWork /\ UNCHANGED assigned
  BY <1>2, SameOther DEF CrewSetup, create_organization_crew, update_organization_crew
<1>3. ASSUME RouteStep PROVE OtherWork /\ UNCHANGED assigned
  <2>1. ASSUME NEW p \in Plans, publish_day_plan(p) PROVE OtherWork
    BY <2>1, SameOther DEF publish_day_plan
  <2>2. ASSUME NEW w \in Writers, NEW p \in Plans, create_draft_day_plan(w, p)
        PROVE  OtherWork
    BY <2>2, BeginsOther DEF create_draft_day_plan
  <2>3. ASSUME NEW w \in Writers, NEW p \in Plans, NEW j \in Jobs,
               assign_day_plan_stop(w, p, j) \/ remove_day_plan_stop(w, p, j)
        PROVE  OtherWork
    BY <2>3, BeginsOther DEF assign_day_plan_stop, remove_day_plan_stop
  <2>4. ASSUME NEW w \in Writers, NEW p \in Plans, NEW s \in Orders,
               reorder_day_plan_stops(w, p, s)
        PROVE  OtherWork
    BY <2>4, BeginsOther DEF reorder_day_plan_stops
  <2>5. ASSUME NEW w \in Writers,
               InsertDraft(w) \/ AssignStop(w) \/ RemoveStop(w) \/ ReorderStops(w)
        PROVE  OtherWork
    BY <2>5, DoesOther DEF InsertDraft, AssignStop, RemoveStop, ReorderStops
  <2>6. UNCHANGED assigned
    BY <1>3 DEF RouteStep, publish_day_plan, create_draft_day_plan,
                assign_day_plan_stop, remove_day_plan_stop, reorder_day_plan_stops,
                InsertDraft, AssignStop, RemoveStop, ReorderStops
  <2> QED
    BY <1>3, <2>1, <2>2, <2>3, <2>4, <2>5, <2>6 DEF RouteStep
<1> QED
  BY <1>1, <1>2, <1>3

(* What a step leaves alone.                                               *)
LEMMA CurrentSame ==
    ASSUME UNCHANGED property
    PROVE  \A a : Current(a)' = Current(a)
BY DEF Current

LEMMA AccountKept ==
    ASSUME AccountInv, UNCHANGED <<account, property, serving, archiving, asked, overtaken>>
    PROVE  AccountInv'
BY DEF AccountInv, OutOfService, ArchiveCounted, ArchivedIsQuiet, Current, UnderWay

LEMMA PlanningKeeps ==
    ASSUME RecordsInv, OtherWork, UNCHANGED <<assigned, account, property, profile,
                                             serving, archiving, asked, overtaken>>
    PROVE  RecordsInv'
<1>1. RecordsTypeOK'
  BY DEF RecordsInv, RecordsTypeOK
<1>2. WorkFits'
  BY DEF RecordsInv, WorkFits, OtherWork
<1>3. PropertyInv'
  BY DEF RecordsInv, PropertyInv, InService, ActivationBacked, AssignmentBacked, OtherWork
<1> QED
  BY <1>1, <1>2, <1>3, AccountKept DEF RecordsInv

\* All of the planning's state that records share.
samePlanning == <<work, assigned>>

LEMMA WorkKept == ASSUME WorkFits, UNCHANGED samePlanning PROVE WorkFits'
BY DEF WorkFits, samePlanning

LEMMA PropertyKept ==
    ASSUME PropertyInv, UNCHANGED <<property, asked, overtaken>>, UNCHANGED samePlanning
    PROVE  PropertyInv'
BY DEF PropertyInv, InService, ActivationBacked, AssignmentBacked, samePlanning

LEMMA AccountStepKeeps ==
    ASSUME RecordsInv, NEW a \in Accounts,
           \/ create_customer_account(a) \/ archive_customer_account(a)
           \/ archive_account(a) \/ reactivate_customer_account(a)
           \/ CompleteWork(a)
    PROVE  RecordsInv'
<1>0. /\ RecordsTypeOK /\ UNCHANGED samePlanning
      /\ UNCHANGED <<property, profile, asked>>
  BY DEF RecordsInv, create_customer_account, archive_customer_account, archive_account,
         reactivate_customer_account, CompleteWork, planVars, samePlanning
<1>1. WorkFits'
  BY <1>0, WorkKept DEF RecordsInv
<1>2. /\ Current(a)' = Current(a) /\ \A b : Current(b)' = Current(b)
      /\ \A b : UnderWay(b)' = UnderWay(b)
  BY <1>0 DEF Current, UnderWay
<1>3. ASSUME create_customer_account(a) \/ reactivate_customer_account(a)
      PROVE  RecordsInv'
  <2>1. /\ account' = [account EXCEPT ![a] = "active"]
        /\ UNCHANGED <<serving, archiving, overtaken>>
    BY <1>3 DEF create_customer_account, reactivate_customer_account, create_account,
                reactivate_account
  <2>2. RecordsTypeOK'
    BY <1>0, <2>1 DEF RecordsTypeOK, RecordStatus
  <2>3. \A b \in Accounts : account'[b] = "archived" => account[b] = "archived"
    BY <1>0, <2>1 DEF RecordsTypeOK
  <2>4. AccountInv'
    BY <1>2, <2>1, <2>3
    DEF RecordsInv, AccountInv, OutOfService, ArchiveCounted, ArchivedIsQuiet
  <2>5. PropertyInv'
    BY <1>0, <2>1, PropertyKept DEF RecordsInv
  <2> QED
    BY <1>1, <2>2, <2>4, <2>5 DEF RecordsInv
<1>4. ASSUME archive_customer_account(a) PROVE RecordsInv'
  <2>1. /\ archiving' = archiving \cup {a} /\ Current(a) = {} /\ a \notin serving
        /\ UNCHANGED <<account, serving, overtaken>>
    BY <1>4 DEF archive_customer_account
  <2>2. RecordsTypeOK'
    BY <1>0, <2>1 DEF RecordsTypeOK
  <2>3. AccountInv'
    BY <1>2, <2>1
    DEF RecordsInv, AccountInv, OutOfService, ArchiveCounted, ArchivedIsQuiet
  <2>4. PropertyInv'
    BY <1>0, <2>1, PropertyKept DEF RecordsInv
  <2> QED
    BY <1>1, <2>2, <2>3, <2>4 DEF RecordsInv
<1>5. ASSUME archive_account(a) PROVE RecordsInv'
  <2>1. /\ a \in archiving /\ archiving' = archiving \ {a}
        /\ account' = [account EXCEPT ![a] = "archived"]
        /\ overtaken' = overtaken \cup (IF UnderWay(a) THEN {a} ELSE {})
        /\ UNCHANGED serving
    BY <1>5 DEF archive_account
  <2>2. RecordsTypeOK'
    BY <1>0, <2>1 DEF RecordsTypeOK, RecordStatus
  <2>3. \A b \in Accounts : account'[b] = IF b = a THEN "archived" ELSE account[b]
    BY <1>0, <2>1 DEF RecordsTypeOK
  <2>4. AccountInv'
    BY <1>2, <2>1, <2>3
    DEF RecordsInv, AccountInv, OutOfService, ArchiveCounted, ArchivedIsQuiet
  <2>5. PropertyInv'
    BY <1>0, <2>1
    DEF RecordsInv, PropertyInv, InService, ActivationBacked, AssignmentBacked, samePlanning
  <2> QED
    BY <1>1, <2>2, <2>4, <2>5 DEF RecordsInv
<1>6. ASSUME CompleteWork(a) PROVE RecordsInv'
  <2>1. serving' = serving \ {a} /\ UNCHANGED <<account, archiving, overtaken>>
    BY <1>6 DEF CompleteWork
  <2>2. RecordsTypeOK'
    BY <1>0, <2>1 DEF RecordsTypeOK
  <2>3. AccountInv'
    BY <1>2, <2>1
    DEF RecordsInv, AccountInv, OutOfService, ArchiveCounted, ArchivedIsQuiet
  <2>4. PropertyInv'
    BY <1>0, <2>1, PropertyKept DEF RecordsInv
  <2> QED
    BY <1>1, <2>2, <2>3, <2>4 DEF RecordsInv
<1> QED
  BY <1>3, <1>4, <1>5, <1>6

LEMMA OnboardingKeeps ==
    ASSUME RecordsInv, NEW x \in Properties, NEW status \in ProfileStatus,
           upsert_property_onboarding(x, status)
    PROVE  RecordsInv'
<1>1. /\ profile' = [profile EXCEPT ![x] = status]
      /\ UNCHANGED <<account, property, serving, archiving, asked, overtaken>>
      /\ UNCHANGED samePlanning
  BY DEF upsert_property_onboarding, persist_property_onboarding, planVars, samePlanning
<1>2. RecordsTypeOK'
  BY <1>1 DEF RecordsInv, RecordsTypeOK
<1> QED
  BY <1>1, <1>2, WorkKept, PropertyKept, AccountKept DEF RecordsInv

(* A request reads: its account is active, and an activation has a crew.   *)
LEMMA ReadKeeps ==
    ASSUME RecordsInv, NEW w \in Writers, NEW x \in Properties,
           NEW target \in Targets \cup {"new", "work"}, Reads(w, x, target),
           account[AccountOf[x]] = "active",
           target = "active" => x \in overtaken \/ assigned[x] # None,
           UNCHANGED <<account, property, profile, serving, archiving, overtaken>>,
           UNCHANGED samePlanning
    PROVE  RecordsInv'
<1> DEFINE q == [property |-> x, target |-> target]
<1>0. RecordsTypeOK /\ asked' = [asked EXCEPT ![w] = q]
  BY DEF RecordsInv, Reads
<1>1. q \in Pending /\ q.property = x /\ q.target = target
  BY DEF Pending
<1> HIDE DEF q
<1>2. \A v \in Writers : asked'[v] = IF v = w THEN q ELSE asked[v]
  BY <1>0 DEF RecordsTypeOK
<1>3. RecordsTypeOK'
  BY <1>0, <1>1 DEF RecordsTypeOK
<1>4. PropertyInv'
  BY <1>1, <1>2
  DEF RecordsInv, PropertyInv, InService, ActivationBacked, AssignmentBacked, samePlanning
<1>5. \A a \in Accounts : UnderWay(a)' => UnderWay(a) \/ a = AccountOf[x]
  BY <1>1, <1>2 DEF UnderWay
<1>6. AccountInv'
  BY <1>5, CurrentSame
  DEF RecordsInv, AccountInv, OutOfService, ArchiveCounted, ArchivedIsQuiet
<1> QED
  BY <1>3, <1>4, <1>6, WorkKept DEF RecordsInv

LEMMA RequestReads ==
    ASSUME RecordsInv, NEW w \in Writers, NEW x \in Properties,
           \/ create_customer_property(w, x) \/ ReleaseWork(w, x)
           \/ \E target \in Targets : update_customer_property_status(w, x, target)
    PROVE  RecordsInv'
<1>1. ASSUME create_customer_property(w, x) \/ ReleaseWork(w, x) PROVE RecordsInv'
  <2>1. PICK target \in {"new", "work"} :
          /\ Reads(w, x, target) /\ account[AccountOf[x]] = "active"
          /\ UNCHANGED <<account, property, profile, serving, archiving, overtaken>>
          /\ UNCHANGED samePlanning
    BY <1>1 DEF create_customer_property, ReleaseWork, planVars, samePlanning
  <2>2. target # "active"
    OBVIOUS
  <2> QED
    BY <2>1, <2>2, ReadKeeps
<1>2. ASSUME NEW target \in Targets, update_customer_property_status(w, x, target)
      PROVE  RecordsInv'
  <2>1. /\ ReadStatus(w, x, target)
        /\ UNCHANGED <<account, property, profile, serving, archiving, overtaken>>
        /\ UNCHANGED samePlanning
    BY <1>2 DEF update_customer_property_status, planVars, samePlanning
  <2>2. Reads(w, x, target) /\ account[AccountOf[x]] = "active"
    BY <2>1 DEF ReadStatus
  <2>3. target = "active" => x \in overtaken \/ assigned[x] # None
    BY <2>1 DEF ReadStatus, property_activation_readiness, RecordsInv, PropertyInv, InService
  <2> QED
    BY <2>1, <2>2, <2>3, ReadKeeps
<1> QED
  BY <1>1, <1>2

(* The request that writes is no longer under way.                         *)
LEMMA OneLess ==
    ASSUME RecordsTypeOK, NEW w \in Writers, asked' = [asked EXCEPT ![w] = None]
    PROVE  /\ asked' \in [Writers -> Pending \cup {None}]
           /\ \A v \in Writers : asked'[v] \in {asked[v], None}
           /\ \A a : UnderWay(a)' => UnderWay(a)
<1>1. /\ asked' \in [Writers -> Pending \cup {None}]
      /\ \A v \in Writers : asked'[v] \in {asked[v], None}
  BY DEF RecordsTypeOK
<1> QED
  BY <1>1 DEF UnderWay

LEMMA PendingType ==
    ASSUME RecordsTypeOK, NEW w \in Writers, asked[w] # None
    PROVE  /\ asked[w] \in Pending /\ asked[w].property \in Properties
           /\ AccountOf[asked[w].property] \in Accounts
           /\ UnderWay(AccountOf[asked[w].property])
<1>1. asked[w] \in Pending
  BY DEF RecordsTypeOK
<1>2. asked[w].property \in Properties
  BY <1>1 DEF Pending
<1> QED
  BY <1>1, <1>2, RecordsAssumption DEF UnderWay

LEMMA InsertKeeps ==
    ASSUME RecordsInv, NEW w \in Writers, create_property(w)
    PROVE  RecordsInv'
<1> DEFINE x == asked[w].property
           a == AccountOf[x]
<1>0. /\ RecordsTypeOK /\ asked[w] # None /\ a \notin archiving
      /\ property' = [property EXCEPT ![x] = IF @ = "none" THEN "onboarding" ELSE @]
      /\ asked' = [asked EXCEPT ![w] = None]
      /\ overtaken' = overtaken \cup (archiving \cap {a})
      /\ UNCHANGED <<account, profile, serving, archiving>> /\ UNCHANGED samePlanning
  BY DEF RecordsInv, create_property, Ends, planVars, samePlanning
<1>1. x \in Properties /\ a \in Accounts /\ UnderWay(a)
  BY <1>0, PendingType
<1> HIDE DEF x
<1>2. /\ property'[x] = "onboarding" \/ property'[x] = property[x]
      /\ \A y \in Properties \ {x} : property'[y] = property[y]
      /\ property' \in [Properties -> PropertyStatus]
  BY <1>0, <1>1 DEF RecordsTypeOK, PropertyStatus
<1>3. UNCHANGED overtaken
  BY <1>0
<1>4. /\ asked' \in [Writers -> Pending \cup {None}]
      /\ \A v \in Writers : asked'[v] \in {asked[v], None}
      /\ \A b : UnderWay(b)' => UnderWay(b)
  BY <1>0, OneLess
<1>5. RecordsTypeOK'
  BY <1>0, <1>2, <1>3, <1>4 DEF RecordsTypeOK
<1>6. PropertyInv'
  <2>1. \A y \in Properties : property'[y] \in {property[y], "onboarding"}
    BY <1>2
  <2>2. InService'
    BY <1>0, <1>3, <2>1 DEF RecordsInv, PropertyInv, InService, samePlanning
  <2>3. ActivationBacked'
    BY <1>0, <1>3, <1>4 DEF RecordsInv, PropertyInv, ActivationBacked, samePlanning
  <2>4. AssignmentBacked'
    BY <1>0, <1>3, <2>1
    DEF RecordsInv, PropertyInv, AssignmentBacked, samePlanning, WorkFits
  <2> QED
    BY <2>2, <2>3, <2>4 DEF PropertyInv
<1>7. AccountInv'
  <2>1. \A b \in Accounts \ {a} : Current(b)' = Current(b)
    BY <1>2 DEF Current
  <2>2. a \notin overtaken => account[a] # "archived"
    BY <1>1 DEF RecordsInv, AccountInv, ArchivedIsQuiet
  <2>3. OutOfService' /\ ArchiveCounted'
    BY <1>0, <1>1, <1>3, <2>1, <2>2
    DEF RecordsInv, AccountInv, OutOfService, ArchiveCounted, RecordsTypeOK
  <2>4. ArchivedIsQuiet'
    BY <1>0, <1>3, <1>4 DEF RecordsInv, AccountInv, ArchivedIsQuiet
  <2> QED
    BY <2>3, <2>4 DEF AccountInv
<1> QED
  BY <1>0, <1>5, <1>6, <1>7, WorkKept DEF RecordsInv

LEMMA ScheduleKeeps ==
    ASSUME RecordsInv, NEW w \in Writers, ScheduleJob(w)
    PROVE  RecordsInv'
<1> DEFINE a == AccountOf[asked[w].property]
<1>0. /\ RecordsTypeOK /\ asked[w] # None
      /\ serving' = serving \cup {a}
      /\ asked' = [asked EXCEPT ![w] = None]
      /\ overtaken' = overtaken \cup (archiving \cap {a})
      /\ UNCHANGED <<account, property, profile, archiving>> /\ UNCHANGED samePlanning
  BY DEF RecordsInv, ScheduleJob, Ends, planVars, samePlanning
<1>1. a \in Accounts /\ UnderWay(a)
  BY <1>0, PendingType
<1> HIDE DEF a
<1>2. /\ asked' \in [Writers -> Pending \cup {None}]
      /\ \A v \in Writers : asked'[v] \in {asked[v], None}
      /\ \A b : UnderWay(b)' => UnderWay(b)
  BY <1>0, OneLess
<1>3. RecordsTypeOK'
  BY <1>0, <1>1, <1>2 DEF RecordsTypeOK
<1>4. PropertyInv'
  BY <1>0, <1>2
  DEF RecordsInv, PropertyInv, InService, ActivationBacked, AssignmentBacked, samePlanning
<1>5. AccountInv'
  <2>1. a \notin overtaken => account[a] # "archived"
    BY <1>1 DEF RecordsInv, AccountInv, ArchivedIsQuiet
  <2>2. OutOfService' /\ ArchiveCounted'
    BY <1>0, <1>1, <2>1, CurrentSame
    DEF RecordsInv, AccountInv, OutOfService, ArchiveCounted
  <2>3. ArchivedIsQuiet'
    BY <1>0, <1>2 DEF RecordsInv, AccountInv, ArchivedIsQuiet
  <2> QED
    BY <2>2, <2>3 DEF AccountInv
<1> QED
  BY <1>0, <1>3, <1>4, <1>5, WorkKept DEF RecordsInv

(* A status is written whatever the property has become: an archive takes  *)
(* its crew, and is known to those that relied on it.                      *)
LEMMA StatusKeeps ==
    ASSUME RecordsInv, NEW w \in Writers, update_property_status(w)
    PROVE  RecordsInv'
<1> DEFINE x == asked[w].property
           target == asked[w].target
           a == AccountOf[x]
           writes == account[a] = "active"
           ends == writes /\ target = "archived"
<1>0. /\ RecordsTypeOK /\ WorkFits /\ asked[w] # None /\ target \in Targets
      /\ property' = IF writes THEN [property EXCEPT ![x] = target] ELSE property
      /\ assigned' = IF ends THEN [assigned EXCEPT ![x] = None] ELSE assigned
      /\ asked' = [asked EXCEPT ![w] = None]
      /\ overtaken' = overtaken \cup (archiving \cap {a})
                      \cup (IF ends /\ Overtakes(w, x) THEN {x} ELSE {})
      /\ UNCHANGED <<account, profile, serving, archiving, work>>
  BY DEF RecordsInv, update_property_status
<1>1. x \in Properties /\ a \in Accounts /\ UnderWay(a)
  BY <1>0, PendingType
<1>2. target = "active" => x \in overtaken \/ assigned[x] # None
  BY <1>0 DEF RecordsInv, PropertyInv, ActivationBacked
<1>3. /\ asked' \in [Writers -> Pending \cup {None}] /\ asked'[w] = None
      /\ \A v \in Writers \ {w} : asked'[v] = asked[v]
      /\ \A b : UnderWay(b)' => UnderWay(b)
  BY <1>0, OneLess DEF RecordsTypeOK
<1> HIDE DEF x, target, a
<1>4. /\ \A y \in Properties : property'[y] = IF y = x /\ writes THEN target ELSE property[y]
      /\ \A y \in Properties : assigned'[y] = IF y = x /\ ends THEN None ELSE assigned[y]
      /\ property' \in [Properties -> PropertyStatus] /\ DOMAIN assigned' = Properties
  BY <1>0, <1>1 DEF RecordsTypeOK, WorkFits, Targets
<1>5. overtaken \subseteq overtaken' /\ overtaken' \subseteq Accounts \cup Properties
  BY <1>0, <1>1 DEF RecordsTypeOK
<1>6. RecordsTypeOK' /\ WorkFits'
  BY <1>0, <1>3, <1>4, <1>5 DEF RecordsTypeOK, WorkFits
<1>7. PropertyInv'
  <2>1. InService'
    <3>1. ASSUME NEW y \in Properties, y \notin overtaken'
          PROVE  /\ property'[y] = "archived" => assigned'[y] = None
                 /\ property'[y] = "active" => assigned'[y] # None
      <4>1. /\ property[y] = "archived" => assigned[y] = None
            /\ property[y] = "active" => assigned[y] # None
        BY <1>5, <3>1 DEF RecordsInv, PropertyInv, InService
      <4> QED
        BY <1>2, <1>4, <1>5, <3>1, <4>1
    <3> QED
      BY <3>1 DEF InService
  <2>2. ActivationBacked'
    <3>1. ASSUME NEW v \in Writers, asked'[v] # None, asked'[v].target = "active"
          PROVE  asked'[v].property \in overtaken'
                 \/ assigned'[asked'[v].property] # None
      <4>1. v # w /\ asked'[v] = asked[v]
        BY <1>3, <3>1
      <4>2. asked[v].property \in overtaken \/ assigned[asked[v].property] # None
        BY <3>1, <4>1 DEF RecordsInv, PropertyInv, ActivationBacked
      <4>3. asked[v].property \in Properties
        BY <1>0, <3>1, <4>1, PendingType
      <4>4. asked[v].property = x => Overtakes(w, x)
        BY <3>1, <4>1 DEF Overtakes
      <4> QED
        BY <1>0, <1>4, <1>5, <4>1, <4>2, <4>3, <4>4
    <3> QED
      BY <3>1 DEF ActivationBacked
  <2>3. AssignmentBacked'
    <3>1. ASSUME NEW v \in Writers, work[v] # None, work[v].op = "property"
          PROVE  work[v].property \in overtaken'
                 \/ property'[work[v].property] # "archived"
      <4>1. work[v].property \in overtaken \/ property[work[v].property] # "archived"
        BY <3>1 DEF RecordsInv, PropertyInv, AssignmentBacked
      <4>2. work[v].property \in Properties
        BY <1>0, <3>1 DEF WorkFits
      <4>3. work[v].property = x => Overtakes(w, x)
        BY <3>1 DEF Overtakes
      <4> QED
        BY <1>0, <1>4, <1>5, <4>1, <4>2, <4>3
    <3> QED
      BY <1>0, <3>1 DEF AssignmentBacked
  <2> QED
    BY <2>1, <2>2, <2>3 DEF PropertyInv
<1>8. AccountInv'
  <2>1. \A b \in Accounts : Current(b)' = Current(b) \/ (b = a /\ writes)
    BY <1>4 DEF Current, a
  <2>2. a \in archiving => a \in overtaken'
    BY <1>0
  <2>3. writes => account[a] # "archived"
    OBVIOUS
  <2>4. archiving \subseteq Accounts
    BY <1>0 DEF RecordsTypeOK
  <2> HIDE DEF writes
  <2>5. OutOfService' /\ ArchiveCounted'
    BY <1>0, <1>5, <2>1, <2>2, <2>3, <2>4
    DEF RecordsInv, AccountInv, OutOfService, ArchiveCounted
  <2>6. ArchivedIsQuiet'
    BY <1>0, <1>3, <1>5 DEF RecordsInv, AccountInv, ArchivedIsQuiet
  <2> QED
    BY <2>5, <2>6 DEF AccountInv
<1> QED
  BY <1>6, <1>7, <1>8 DEF RecordsInv

(* An assignment begins for a property in service, and gives it the crew.  *)
LEMMA AssignKeeps ==
    ASSUME RecordsInv, NEW w \in Writers, UNCHANGED recordVars,
           \/ \E x \in Properties, c \in Crews : AssignCrew(w, x, c)
           \/ insert_property_crew_assignment(w)
    PROVE  RecordsInv'
<1>0. /\ RecordsTypeOK /\ WorkFits
      /\ UNCHANGED <<account, property, profile, serving, archiving, asked, overtaken>>
  BY DEF RecordsInv, recordVars
<1>1. RecordsTypeOK' /\ AccountInv'
  BY <1>0, AccountKept DEF RecordsInv, RecordsTypeOK
<1>2. ASSUME NEW x \in Properties, NEW c \in Crews, AssignCrew(w, x, c)
      PROVE  RecordsInv'
  <2> DEFINE q == [op |-> "property", property |-> x, crew |-> c]
  <2>1. /\ property[x] # "archived" /\ work' = [work EXCEPT ![w] = q]
        /\ UNCHANGED assigned
    BY <1>2 DEF AssignCrew, assign_property_crew, Begins
  <2>2. q.property = x /\ q.crew = c
    OBVIOUS
  <2> HIDE DEF q
  <2>3. /\ DOMAIN work' = Writers
        /\ \A v \in Writers : work'[v] = IF v = w THEN q ELSE work[v]
    BY <1>0, <2>1 DEF WorkFits
  <2>4. WorkFits'
    BY <1>0, <2>1, <2>2, <2>3 DEF WorkFits
  <2>5. PropertyInv'
    BY <1>0, <2>1, <2>2, <2>3
    DEF RecordsInv, PropertyInv, InService, ActivationBacked, AssignmentBacked
  <2> QED
    BY <1>1, <2>4, <2>5 DEF RecordsInv
<1>3. ASSUME insert_property_crew_assignment(w) PROVE RecordsInv'
  <2> DEFINE x == work[w].property
             c == work[w].crew
  <2>1. /\ work[w] # None /\ work[w].op = "property"
        /\ work' = [work EXCEPT ![w] = None] /\ assigned' = [assigned EXCEPT ![x] = c]
    BY <1>3 DEF insert_property_crew_assignment, Does
  <2>2. x \in Properties /\ c \in Crews /\ c # None
    BY <1>0, <2>1, PlanningAssumption DEF WorkFits
  <2>3. x \in overtaken \/ property[x] # "archived"
    BY <2>1 DEF RecordsInv, PropertyInv, AssignmentBacked
  <2> HIDE DEF x, c
  <2>4. /\ DOMAIN work' = Writers /\ DOMAIN assigned' = Properties
        /\ \A v \in Writers : work'[v] \in {work[v], None}
        /\ \A y \in Properties : assigned'[y] = IF y = x THEN c ELSE assigned[y]
    BY <1>0, <2>1, <2>2 DEF WorkFits
  <2>5. WorkFits'
    BY <1>0, <2>4 DEF WorkFits
  <2>6. InService' /\ AssignmentBacked'
    BY <1>0, <2>2, <2>3, <2>4
    DEF RecordsInv, PropertyInv, InService, AssignmentBacked
  <2>7. ActivationBacked'
    <3>1. \A v \in Writers : asked[v] # None => asked[v].property \in Properties
      BY <1>0, PendingType
    <3> QED
      BY <1>0, <2>2, <2>4, <3>1 DEF RecordsInv, PropertyInv, ActivationBacked
  <2> QED
    BY <1>1, <2>5, <2>6, <2>7 DEF RecordsInv, PropertyInv
<1> QED
  BY <1>2, <1>3

LEMMA RecordsKeep == RecordsInv /\ [RecordsNext]_<<vars, planVars, recordVars>> => RecordsInv'
<1> SUFFICES ASSUME RecordsInv, [RecordsNext]_<<vars, planVars, recordVars>>
             PROVE  RecordsInv'
  OBVIOUS
<1>0. DOMAIN work = Writers
  BY DEF RecordsInv, WorkFits
<1>1. ASSUME UNCHANGED <<planVars, recordVars>> PROVE RecordsInv'
  <2>1. UNCHANGED <<work, assigned, account, property, profile, serving, archiving,
                    asked, overtaken>>
    BY <1>1 DEF planVars, recordVars
  <2> QED
    BY <1>0, <2>1, SameOther, PlanningKeeps
<1>2. ASSUME HierarchyStep \/ CrewSetup \/ RouteStep, UNCHANGED recordVars
      PROVE  RecordsInv'
  <2>1. UNCHANGED <<account, property, profile, serving, archiving, asked, overtaken>>
    BY <1>2 DEF recordVars
  <2> QED
    BY <1>0, <1>2, <2>1, PlanningIsOther, PlanningKeeps
<1>3. ASSUME RecordsStep PROVE RecordsInv'
  <2>1. CASE AccountStep
    BY <2>1, AccountStepKeeps DEF AccountStep
  <2>2. CASE PropertyStep
    <3>1. ASSUME NEW w \in Writers, NEW x \in Properties, NEW c \in Crews,
                 AssignCrew(w, x, c)
          PROVE  RecordsInv'
      BY <3>1, AssignKeeps DEF AssignCrew
    <3>2. ASSUME NEW w \in Writers, insert_property_crew_assignment(w),
                 UNCHANGED recordVars
          PROVE  RecordsInv'
      BY <3>2, AssignKeeps
    <3> QED
      BY <2>2, <3>1, <3>2, RequestReads, InsertKeeps, StatusKeeps, ScheduleKeeps
      DEF PropertyStep
  <2>3. CASE \E x \in Properties, status \in ProfileStatus \ {"none"} :
               upsert_property_onboarding(x, status)
    BY <2>3, OnboardingKeeps
  <2> QED
    BY <1>3, <2>1, <2>2, <2>3 DEF RecordsStep
<1> QED
  BY <1>1, <1>2, <1>3 DEF RecordsNext

\* An archived property has no crew, an active one has one, and an archived
\* account has no current property and no unfinished work, for any number of
\* accounts, properties and requests between their checks and their writes; but
\* for what was archived beside a request that had passed its checks.
THEOREM ArchivedStaysOut == RecordsSpec => []ArchivedIsOutOfService
<1>1. RecordsInv => ArchivedIsOutOfService
  BY DEF RecordsInv, PropertyInv, AccountInv, InService, OutOfService,
         ArchivedIsOutOfService
<1> QED
  BY <1>1, RecordsStart, RecordsKeep, PTL DEF RecordsSpec

-----------------------------------------------------------------------------
(* Day plans.                                                              *)

\* Every plan has a row, and a place or none for every job; crews are typed.
PlanShape ==
    /\ DOMAIN plan = Plans /\ DOMAIN stop = Plans
    /\ \A p \in Plans : DOMAIN stop[p] = Jobs
    /\ crew \in [Crews -> Crew]

\* A step writes published plans neither their row nor another stop.
Settles ==
    \A p \in Plans : plan[p].status = "published" =>
        /\ plan'[p] = plan[p]
        /\ \A j \in Jobs : stop'[p][j] # 0 => stop[p][j] # 0

LEMMA ShapeStart == PlanInit => PlanShape
<1>1. 1..MaxCapacity # {} /\ MaxCapacity \in 1..MaxCapacity
  BY PlanningAssumption
<1>2. [status |-> "none", capacity |-> MaxCapacity, lead |-> None,
       territory |-> Primary] \in Crew
  BY <1>1, PlanningAssumption DEF Crew, Lifecycle
<1> QED
  BY <1>2 DEF PlanInit, PlanShape

LEMMA ShapeKept ==
    ASSUME PlanShape, UNCHANGED <<plan, stop, crew>>
    PROVE  PlanShape' /\ Settles
BY DEF PlanShape, Settles

LEMMA CrewSetupKeeps ==
    ASSUME PlanShape, CrewSetup
    PROVE  PlanShape' /\ Settles
<1>1. UNCHANGED <<plan, stop>>
  BY DEF CrewSetup, create_organization_crew, update_organization_crew
<1>2. ASSUME NEW c \in Crews, create_organization_crew(c) PROVE crew' \in [Crews -> Crew]
  <2>1. crew' = [crew EXCEPT ![c] = [@ EXCEPT !.status = "active"]]
    BY <1>2 DEF create_organization_crew, create_crew, PlanShape
  <2>2. [crew[c] EXCEPT !.status = "active"] \in Crew
    BY DEF PlanShape, Crew, Lifecycle
  <2> QED
    BY <2>1, <2>2 DEF PlanShape
<1>3. ASSUME NEW c \in Crews, NEW s \in {"active", "inactive"}, NEW n \in 1..MaxCapacity,
             NEW lead \in Rows \cup {None}, NEW t \in Territories \cup {None},
             update_organization_crew(c, s, n, lead, t)
      PROVE  crew' \in [Crews -> Crew]
  <2> DEFINE home == IF t = None THEN crew[c].territory ELSE t
  <2>1. crew' = [crew EXCEPT ![c] = [status |-> s, capacity |-> n, lead |-> lead,
                                     territory |-> home]]
    BY <1>3 DEF update_organization_crew, update_crew, PlanShape
  <2>2. home \in Territories
    BY DEF PlanShape, Crew
  <2> HIDE DEF home
  <2>3. [status |-> s, capacity |-> n, lead |-> lead, territory |-> home] \in Crew
    BY <2>2 DEF Crew, Lifecycle
  <2> QED
    BY <2>1, <2>3 DEF PlanShape
<1> QED
  BY <1>1, <1>2, <1>3 DEF CrewSetup, PlanShape, Settles

LEMMA RouteKeeps ==
    ASSUME PlanShape, RouteStep
    PROVE  PlanShape' /\ Settles
<1>1. ASSUME NEW p \in Plans, publish_day_plan(p) PROVE PlanShape' /\ Settles
  <2>1. /\ plan[p].status = "draft" /\ UNCHANGED <<stop, crew>>
        /\ plan' = [plan EXCEPT ![p].status = "published"]
    BY <1>1 DEF publish_day_plan, PublishDayPlan
  <2> QED
    BY <2>1 DEF PlanShape, Settles
<1>2. ASSUME NEW w \in Writers, InsertDraft(w) PROVE PlanShape' /\ Settles
  <2>1. /\ UNCHANGED <<stop, crew>>
        /\ \/ UNCHANGED plan
           \/ /\ plan[work[w].plan].status # "published"
              /\ plan' = [plan EXCEPT ![work[w].plan] =
                             [status |-> "draft", capacity |-> work[w].capacity]]
    BY <1>2 DEF InsertDraft
  <2> QED
    BY <2>1 DEF PlanShape, Settles
<1>3. ASSUME NEW w \in Writers, AssignStop(w) PROVE PlanShape' /\ Settles
  <2> DEFINE q == work[w]
             n == Largest(q.seen) + 1
  <2>1. /\ UNCHANGED <<plan, crew>>
        /\ \/ UNCHANGED stop
           \/ /\ plan[q.plan].status = "draft"
              /\ stop' = [stop EXCEPT ![q.plan][q.job] = n]
    BY <1>3 DEF AssignStop
  <2> HIDE DEF n
  <2> QED
    BY <2>1 DEF PlanShape, Settles
<1>4. ASSUME NEW w \in Writers, RemoveStop(w) PROVE PlanShape' /\ Settles
  <2> DEFINE p == work[w].plan
             left == Listed(p) \ {work[w].job}
             Place(j) == Cardinality({k \in left : stop[p][k] <= stop[p][j]})
             less == [j \in Jobs |-> IF j \in left THEN Place(j) ELSE 0]
  <2>1. /\ UNCHANGED <<plan, crew>>
        /\ stop' = [stop EXCEPT ![p] = IF stop[p][work[w].job] = 0 THEN @ ELSE less]
    BY <1>4 DEF RemoveStop
  <2>2. DOMAIN less = Jobs /\ \A j \in Jobs : less[j] # 0 => stop[p][j] # 0
    BY DEF Listed
  <2> HIDE DEF less, p
  <2> QED
    BY <2>1, <2>2 DEF PlanShape, Settles
<1>5. ASSUME NEW w \in Writers, ReorderStops(w) PROVE PlanShape' /\ Settles
  <2> DEFINE p == work[w].plan
             s == work[w].order
             Placed(j) == IF plan[p].status = "draft" /\ j \in {s[n] : n \in DOMAIN s}
                          THEN CHOOSE n \in DOMAIN s : s[n] = j
                          ELSE stop[p][j] + Shift
             next == [j \in Jobs |-> IF stop[p][j] = 0 THEN 0 ELSE Placed(j)]
  <2>1. UNCHANGED <<plan, crew>> /\ stop' = [stop EXCEPT ![p] = next]
    BY <1>5 DEF ReorderStops
  <2> HIDE DEF Placed
  <2>2. DOMAIN next = Jobs /\ \A j \in Jobs : next[j] # 0 => stop[p][j] # 0
    OBVIOUS
  <2> HIDE DEF next, p
  <2> QED
    BY <2>1, <2>2 DEF PlanShape, Settles
<1>6. \/ UNCHANGED <<plan, stop, crew>>
      \/ \E p \in Plans : publish_day_plan(p)
      \/ \E w \in Writers :
           InsertDraft(w) \/ AssignStop(w) \/ RemoveStop(w) \/ ReorderStops(w)
  BY DEF RouteStep, create_draft_day_plan, assign_day_plan_stop, remove_day_plan_stop,
         reorder_day_plan_stops
<1> QED
  BY <1>1, <1>2, <1>3, <1>4, <1>5, <1>6, ShapeKept

LEMMA ShapeStep ==
    ASSUME PlanShape, PlanNext \/ UNCHANGED planVars
    PROVE  PlanShape' /\ Settles
<1>1. CASE UNCHANGED planVars
  BY <1>1, ShapeKept DEF planVars
<1>2. CASE HierarchyStep
  <2>1. UNCHANGED <<plan, stop, crew>>
    BY <1>2 DEF HierarchyStep, create_organization_branch, create_service_territory,
                update_organization_branch_status, update_service_territory_status,
                InsertTerritory, DeactivateBranch, DeactivateTerritory
  <2> QED
    BY <2>1, ShapeKept
<1>3. CASE \E w \in Writers :
             \/ \E x \in Properties, c \in Crews : assign_property_crew(w, x, c)
             \/ insert_property_crew_assignment(w)
  <2>1. UNCHANGED <<plan, stop, crew>>
    BY <1>3 DEF assign_property_crew, insert_property_crew_assignment
  <2> QED
    BY <2>1, ShapeKept
<1> QED
  BY <1>1, <1>2, <1>3, CrewSetupKeeps, RouteKeeps DEF PlanNext, CrewStep

\* A published plan keeps its capacity and gains no stop, although requests that
\* saw it as a draft are still to write; for any number of plans and requests.
THEOREM PublishedPlansStay == PlanSpec => PublishedIsSettled
<1>1. PlanShape /\ [PlanNext]_<<vars, planVars>> => PlanShape' /\ [Settles]_planVars
  BY ShapeStep
<1>2. Init /\ PlanInit => PlanShape
  BY ShapeStart
<1> QED
  BY <1>1, <1>2, PTL DEF PlanSpec, PublishedIsSettled, Settles

-----------------------------------------------------------------------------
(* Dispatch.                                                               *)

\* The request has locked the rows of its move.
Locked(w) == dispatch[w] # None /\ dispatch[w].op = "move" /\ dispatch[w].step = "locked"

\* The open jobs of a crew on a day, where f is the jobs.
Open(f, c, d) == {k \in Jobs : f[k].crew = c /\ f[k].day = d /\ f[k].status # "completed"}

\* A move that has counted the jobs of its crew holds the row of its job, ...
JobsHeld == \A w \in Writers : Locked(w) => jobHeld[dispatch[w].job] = w

\* ... and the row of its crew, which has room for the job until the move is
\* written.
CrewsHeld ==
    \A w \in Writers : Locked(w) =>
        /\ held[dispatch[w].crew] = w
        /\ Cardinality(Open(job, dispatch[w].crew, dispatch[w].day) \ {dispatch[w].job}) + 1
              <= crew[dispatch[w].crew].capacity

DispatchInv == DispatchTypeOK /\ JobsHeld /\ FollowedUpOnce

\* No crew gets another job, on any day.
NoMore == \A c \in Crews, d \in Days : Open(job', c, d) \subseteq Open(job, c, d)

LEMMA DispatchStart == DispatchInit => DispatchInv /\ CrewsHeld
<1> SUFFICES ASSUME DispatchInit PROVE DispatchInv /\ CrewsHeld
  OBVIOUS
<1>1. DispatchTypeOK
  <2>1. job \in [Jobs -> Job]
    BY DEF DispatchInit, Job
  <2>2. clock \in 0..MaxTime
    BY DispatchAssumption DEF DispatchInit
  <2> QED
    BY <2>1, <2>2 DEF DispatchInit, DispatchTypeOK
<1>2. \A w \in Writers : ~Locked(w)
  BY DEF DispatchInit, Locked
<1> QED
  BY <1>1, <1>2 DEF DispatchInv, JobsHeld, CrewsHeld, FollowedUpOnce, DispatchInit

\* The request of a step that writes a request only, or ends one.
LEMMA RequestKeeps ==
    ASSUME DispatchInv, NEW w \in Writers, NEW q \in Dispatch \cup {None},
           q # None /\ q.op = "move" => q.step # "locked",
           dispatch' = [dispatch EXCEPT ![w] = q], clock' \in 0..MaxTime,
           UNCHANGED <<job, jobHeld, moves>>,
           told' \subseteq Told, FollowedUpOnce'
    PROVE  DispatchInv'
<1>1. DispatchTypeOK'
  BY DEF DispatchInv, DispatchTypeOK
<1>2. \A v \in Writers : dispatch'[v] = IF v = w THEN q ELSE dispatch[v]
  BY DEF DispatchInv, DispatchTypeOK
<1>3. JobsHeld'
  BY <1>2 DEF DispatchInv, JobsHeld, Locked
<1> QED
  BY <1>1, <1>3 DEF DispatchInv

LEMMA SameFollowUps ==
    ASSUME DispatchInv, UNCHANGED told
    PROVE  told' \subseteq Told /\ FollowedUpOnce'
BY DEF DispatchInv, DispatchTypeOK, FollowedUpOnce

LEMMA Later ==
    ASSUME DispatchTypeOK, clock < MaxTime
    PROVE  clock + 1 \in 1..MaxTime /\ clock + 1 \in 0..MaxTime
BY DispatchAssumption DEF DispatchTypeOK

LEMMA MoveBegins ==
    ASSUME DispatchInv, NEW w \in Writers, NEW j \in Jobs, NEW c \in Crews, NEW d \in Days,
           NEW n \in BOOLEAN, update_job_dispatch_assignment(w, j, c, d, n)
    PROVE  DispatchInv'
<1> DEFINE q == [op |-> "move", job |-> j, time |-> clock + 1, crew |-> c, day |-> d,
                 notify |-> n, step |-> "begun"]
<1>1. /\ dispatch' = [dispatch EXCEPT ![w] = q]
      /\ clock < MaxTime /\ clock' = clock + 1
      /\ UNCHANGED <<job, jobHeld, moves, told>>
  BY DEF update_job_dispatch_assignment, Begun
<1>2. clock + 1 \in 1..MaxTime /\ clock' \in 0..MaxTime
  BY <1>1, Later DEF DispatchInv
<1>3. q \in Dispatch
  BY <1>2 DEF Dispatch
<1>4. q.step # "locked"
  OBVIOUS
<1> HIDE DEF q
<1> QED
  BY <1>1, <1>2, <1>3, <1>4, SameFollowUps, RequestKeeps

LEMMA TellBegins ==
    ASSUME DispatchInv, NEW w \in Writers, NEW j \in Jobs,
           complete_dispatch_customer_notification(w, j)
    PROVE  DispatchInv'
<1> DEFINE q == [op |-> "tell", job |-> j, time |-> clock + 1]
<1>1. /\ dispatch' = [dispatch EXCEPT ![w] = q]
      /\ clock < MaxTime /\ clock' = clock + 1
      /\ UNCHANGED <<job, jobHeld, moves, told>>
  BY DEF complete_dispatch_customer_notification, Begun
<1>2. clock + 1 \in 1..MaxTime /\ clock' \in 0..MaxTime
  BY <1>1, Later DEF DispatchInv
<1>3. q \in Dispatch
  BY <1>2 DEF Dispatch
<1>4. q.op # "move"
  OBVIOUS
<1> HIDE DEF q
<1> QED
  BY <1>1, <1>2, <1>3, <1>4, SameFollowUps, RequestKeeps

\* What a request under way asks for.
LEMMA MoveFields ==
    ASSUME DispatchTypeOK, NEW w \in Writers, dispatch[w] # None, dispatch[w].op = "move"
    PROVE  /\ dispatch[w] \in [op : {"move"}, job : Jobs, time : 1..MaxTime, crew : Crews,
                               day : Days, notify : BOOLEAN, step : {"begun", "locked"}]
           /\ dispatch[w].job \in Jobs /\ dispatch[w].crew \in Crews
           /\ dispatch[w].day \in Days /\ dispatch[w].time \in 1..MaxTime
BY DEF DispatchTypeOK, Dispatch

LEMMA TellFields ==
    ASSUME DispatchTypeOK, NEW w \in Writers, dispatch[w] # None, dispatch[w].op = "tell"
    PROVE  dispatch[w].job \in Jobs /\ dispatch[w].time \in 1..MaxTime
BY DEF DispatchTypeOK, Dispatch

\* A refused move ends; another takes its locks.
LEMMA LockCases ==
    ASSUME DispatchTypeOK, NEW w \in Writers, LockMove(w)
    PROVE  /\ UNCHANGED <<job, moves, told, clock, crew>>
           /\ \/ UNCHANGED <<held, jobHeld>> /\ dispatch' = [dispatch EXCEPT ![w] = None]
              \/ \E q \in Dispatch :
                    /\ q.op = "move" /\ q.step = "locked"
                    /\ q.job \in Jobs /\ q.crew \in Crews /\ q.day \in Days
                    /\ dispatch' = [dispatch EXCEPT ![w] = q]
                    /\ jobHeld[q.job] = None /\ held[q.crew] = None
                    /\ held' = [held EXCEPT ![q.crew] = w]
                    /\ jobHeld' = [jobHeld EXCEPT ![q.job] = w]
                    /\ Load(q.crew, q.day, q.job) + 1 <= crew[q.crew].capacity
<1> DEFINE q == dispatch[w]
           r == [q EXCEPT !.step = "locked"]
<1>1. UNCHANGED <<job, moves, told, clock, crew>>
  BY DEF LockMove, planned
<1>2. CASE ~Movable(q)
  BY <1>1, <1>2 DEF LockMove
<1>3. CASE Movable(q)
  <2>1. q # None /\ q.op = "move" /\ JobFree(q.job) /\ held[q.crew] = None
    BY DEF LockMove
  <2>2. /\ dispatch' = [dispatch EXCEPT ![w] = r]
        /\ held' = [held EXCEPT ![q.crew] = w]
        /\ jobHeld' = [jobHeld EXCEPT ![q.job] = w]
    BY <1>3 DEF LockMove
  <2>3. q \in [op : {"move"}, job : Jobs, time : 1..MaxTime, crew : Crews,
               day : Days, notify : BOOLEAN, step : {"begun", "locked"}]
    BY <2>1, MoveFields
  <2>4. /\ r \in Dispatch /\ r.op = "move" /\ r.step = "locked"
        /\ r.job = q.job /\ r.crew = q.crew /\ r.day = q.day
        /\ q.job \in Jobs /\ q.crew \in Crews /\ q.day \in Days
    <3> HIDE DEF q
    <3> QED
      BY <2>3 DEF Dispatch
  <2>5. Load(r.crew, r.day, r.job) + 1 <= crew[r.crew].capacity
    BY <1>3, <2>4 DEF Movable
  <2> HIDE DEF r
  <2>6. jobHeld[r.job] = None /\ held[r.crew] = None
    BY <2>1, <2>4 DEF JobFree
  <2>7. held' = [held EXCEPT ![r.crew] = w] /\ jobHeld' = [jobHeld EXCEPT ![r.job] = w]
    BY <2>2, <2>4
  <2>8. r.job \in Jobs /\ r.crew \in Crews /\ r.day \in Days
    BY <2>4
  <2> QED
    BY <1>1, <2>2, <2>4, <2>5, <2>6, <2>7, <2>8
<1> QED
  BY <1>2, <1>3

LEMMA LockKeepsJobs ==
    ASSUME DispatchInv, NEW w \in Writers, LockMove(w)
    PROVE  DispatchInv'
<1>1. CASE dispatch' = [dispatch EXCEPT ![w] = None] /\ UNCHANGED jobHeld
  <2>1. UNCHANGED <<job, moves, told, clock>>
    BY LockCases DEF DispatchInv
  <2>2. clock' \in 0..MaxTime /\ None \in Dispatch \cup {None}
    BY <2>1 DEF DispatchInv, DispatchTypeOK
  <2>3. told' \subseteq Told /\ FollowedUpOnce'
    BY <2>1, SameFollowUps
  <2> QED
    BY <1>1, <2>1, <2>2, <2>3, RequestKeeps
<1>2. ASSUME NEW q \in Dispatch, q.op = "move", q.step = "locked", q.job \in Jobs,
             dispatch' = [dispatch EXCEPT ![w] = q], jobHeld[q.job] = None,
             jobHeld' = [jobHeld EXCEPT ![q.job] = w]
      PROVE  DispatchInv'
  <2>1. UNCHANGED <<job, moves, told, clock>>
    BY LockCases DEF DispatchInv
  <2>2. DispatchTypeOK'
    BY <1>2, <2>1 DEF DispatchInv, DispatchTypeOK
  <2>3. /\ \A v \in Writers : dispatch'[v] = IF v = w THEN q ELSE dispatch[v]
        /\ \A j \in Jobs : jobHeld'[j] = IF j = q.job THEN w ELSE jobHeld[j]
    BY <1>2 DEF DispatchInv, DispatchTypeOK
  <2>4. ASSUME NEW v \in Writers, v # w, Locked(v)
        PROVE  jobHeld'[dispatch[v].job] = v
    <3>1. dispatch[v].job \in Jobs /\ jobHeld[dispatch[v].job] = v
      BY <2>4, MoveFields DEF DispatchInv, JobsHeld, Locked
    <3> QED
      BY <1>2, <2>3, <3>1, PlanningAssumption
  <2>5. JobsHeld'
    BY <1>2, <2>3, <2>4 DEF JobsHeld, Locked
  <2> QED
    BY <2>1, <2>2, <2>5, SameFollowUps DEF DispatchInv
<1> QED
  BY <1>1, <1>2, LockCases DEF DispatchInv

\* What the write of a move does.
LEMMA MoveCases ==
    ASSUME DispatchTypeOK, NEW w \in Writers, update_dispatch_assignment(w)
    PROVE  LET q == dispatch[w] IN
           /\ Locked(w)
           /\ q.job \in Jobs /\ q.crew \in Crews /\ q.day \in Days /\ q.time \in 1..MaxTime
           /\ UNCHANGED <<told, clock, crew>>
           /\ job' = [job EXCEPT ![q.job] = [@ EXCEPT !.crew = q.crew, !.day = q.day]]
           /\ \A j \in Jobs : /\ job'[j].status = job[j].status
                              /\ job'[j].crew = IF j = q.job THEN q.crew ELSE job[j].crew
                              /\ job'[j].day = IF j = q.job THEN q.day ELSE job[j].day
           /\ moves' \subseteq Move
           /\ dispatch' = [dispatch EXCEPT ![w] = None]
           /\ held' = [held EXCEPT ![q.crew] = None]
           /\ jobHeld' = [jobHeld EXCEPT ![q.job] = None]
<1> DEFINE q == dispatch[w]
           row == [job[q.job] EXCEPT !.crew = q.crew, !.day = q.day]
<1>1. Locked(w)
  BY DEF update_dispatch_assignment, Locked
<1>2. q.job \in Jobs /\ q.crew \in Crews /\ q.day \in Days /\ q.time \in 1..MaxTime
  BY <1>1, MoveFields DEF Locked
<1>3. job' = [job EXCEPT ![q.job] = row]
  BY <1>2 DEF update_dispatch_assignment, DispatchTypeOK
<1>4. row.crew = q.crew /\ row.day = q.day /\ row.status = job[q.job].status
  <2>1. job[q.job] \in Job
    BY <1>2 DEF DispatchTypeOK
  <2> HIDE DEF q
  <2> QED
    BY <2>1 DEF Job
<1>5. \A j \in Jobs : job'[j] = IF j = q.job THEN row ELSE job[j]
  <2> HIDE DEF row, q
  <2> QED
    BY <1>2, <1>3 DEF DispatchTypeOK
<1>6. \A j \in Jobs : /\ job'[j].status = job[j].status
                      /\ job'[j].crew = IF j = q.job THEN q.crew ELSE job[j].crew
                      /\ job'[j].day = IF j = q.job THEN q.day ELSE job[j].day
  <2> HIDE DEF row, q
  <2> QED
    BY <1>4, <1>5
<1>7. moves' \subseteq Move
  <2>1. moves' \subseteq moves \cup {[job |-> q.job, time |-> q.time]}
    BY DEF update_dispatch_assignment
  <2> HIDE DEF q
  <2> QED
    BY <1>2, <2>1 DEF DispatchTypeOK, Move
<1> QED
  BY <1>1, <1>2, <1>3, <1>6, <1>7 DEF update_dispatch_assignment, planned

LEMMA MoveKeepsJobs ==
    ASSUME DispatchInv, NEW w \in Writers, update_dispatch_assignment(w)
    PROVE  DispatchInv'
<1> DEFINE q == dispatch[w]
           row == [job[q.job] EXCEPT !.crew = q.crew, !.day = q.day]
<1>1. /\ Locked(w)
      /\ q.job \in Jobs /\ q.crew \in Crews /\ q.day \in Days
      /\ UNCHANGED <<told, clock>>
      /\ job' = [job EXCEPT ![q.job] = row]
      /\ moves' \subseteq Move
      /\ dispatch' = [dispatch EXCEPT ![w] = None]
      /\ jobHeld' = [jobHeld EXCEPT ![q.job] = None]
  BY MoveCases DEF DispatchInv
<1>2. row \in Job
  <2>1. job[q.job] \in Job
    BY <1>1 DEF DispatchInv, DispatchTypeOK
  <2>2. q.crew \in Crews /\ q.day \in Days
    BY <1>1
  <2> HIDE DEF q
  <2> QED
    BY <2>1, <2>2 DEF Job
<1>3. jobHeld[q.job] = w
  BY <1>1 DEF DispatchInv, JobsHeld
<1> HIDE DEF row, q
<1>4. DispatchTypeOK'
  BY <1>1, <1>2 DEF DispatchInv, DispatchTypeOK
<1>5. /\ \A v \in Writers : dispatch'[v] = IF v = w THEN None ELSE dispatch[v]
      /\ \A j \in Jobs : jobHeld'[j] = IF j = q.job THEN None ELSE jobHeld[j]
  BY <1>1 DEF DispatchInv, DispatchTypeOK
<1>6. ASSUME NEW v \in Writers, v # w, Locked(v)
      PROVE  jobHeld'[dispatch[v].job] = v
  <2>1. dispatch[v].job \in Jobs /\ jobHeld[dispatch[v].job] = v
    BY <1>6, MoveFields DEF DispatchInv, JobsHeld, Locked
  <2> QED
    BY <1>3, <1>5, <1>6, <2>1
<1>7. JobsHeld'
  BY <1>5, <1>6 DEF JobsHeld, Locked
<1> QED
  BY <1>1, <1>4, <1>7, SameFollowUps DEF DispatchInv

\* Those who follow a move up find that nobody has since it began.
LEMMA TellKeepsJobs ==
    ASSUME DispatchInv, NEW w \in Writers, TellCustomer(w)
    PROVE  DispatchInv'
<1> DEFINE q == dispatch[w]
           new == {[move |-> m, time |-> q.time] :
                     m \in {n \in moves : /\ n.job = q.job
                                          /\ LatestMove(n) /\ Unresolved(n)}}
<1>1. /\ UNCHANGED <<job, jobHeld, moves, clock>>
      /\ dispatch' = [dispatch EXCEPT ![w] = None]
      /\ told' = told \cup new
      /\ q.time \in 1..MaxTime
  BY TellFields DEF TellCustomer, DispatchInv
<1>2. \A x \in new : /\ x.move \in moves /\ x.time = q.time /\ Unresolved(x.move)
                     /\ x = [move |-> x.move, time |-> x.time]
  OBVIOUS
<1>3. moves \subseteq Move /\ told \subseteq Told
  BY DEF DispatchInv, DispatchTypeOK
<1> HIDE DEF new, q
<1>4. told' \subseteq Told
  BY <1>1, <1>2, <1>3 DEF Told
<1>5. ASSUME NEW x \in told, NEW y \in new, x.move = y.move PROVE ~(x.time > x.move.time)
  <2>1. x.time \in 1..MaxTime /\ x.move.time \in 1..MaxTime
    BY <1>3 DEF Told, Move
  <2>2. ~(x.time >= x.move.time)
    BY <1>2, <1>5 DEF Unresolved
  <2> QED
    BY <2>1, <2>2, DispatchAssumption
<1>6. FollowedUpOnce'
  <2> SUFFICES ASSUME NEW x \in told', NEW y \in told', x.move = y.move,
                      x.time > x.move.time, y.time > y.move.time
               PROVE  x = y
    BY DEF FollowedUpOnce
  <2>1. CASE x \in told /\ y \in told
    BY <2>1 DEF DispatchInv, FollowedUpOnce
  <2>2. CASE x \in new /\ y \in new
    BY <1>2, <2>2
  <2> QED
    BY <1>1, <1>5, <2>1, <2>2
<1>7. DispatchTypeOK
  BY DEF DispatchInv
<1>8. clock' \in 0..MaxTime
  BY <1>1, <1>7 DEF DispatchTypeOK
<1> QED
  BY <1>1, <1>4, <1>6, <1>8, RequestKeeps

\* A job whose row is free starts or completes.
LEMMA WorkCases ==
    ASSUME DispatchTypeOK, NEW j \in Jobs, StartJob(j) \/ CompleteJob(j)
    PROVE  /\ UNCHANGED <<planned, held, jobHeld, dispatch, moves, told, clock>>
           /\ jobHeld[j] = None
           /\ job' \in [Jobs -> Job]
           /\ \A k \in Jobs : /\ job'[k].crew = job[k].crew /\ job'[k].day = job[k].day
                              /\ job'[k].status = "completed" \/ job[k].status # "completed"
                              /\ k # j => job'[k] = job[k]
<1> DEFINE row(s) == [job[j] EXCEPT !.status = s]
<1>1. PICK s \in {"in_progress", "completed"} : /\ job' = [job EXCEPT ![j] = row(s)]
                                                /\ job[j].status # "completed"
  BY DEF StartJob, CompleteJob, DispatchTypeOK
<1>2. job[j] \in Job
  BY DEF DispatchTypeOK
<1>3. row(s) \in Job /\ row(s).crew = job[j].crew /\ row(s).day = job[j].day
  BY <1>1, <1>2 DEF Job
<1> HIDE DEF row
<1>4. job' \in [Jobs -> Job] /\ \A k \in Jobs : job'[k] = IF k = j THEN row(s) ELSE job[k]
  BY <1>1, <1>3 DEF DispatchTypeOK
<1> QED
  BY <1>1, <1>3, <1>4 DEF StartJob, CompleteJob, JobFree

LEMMA WorkKeepsJobs ==
    ASSUME DispatchInv, NEW j \in Jobs, StartJob(j) \/ CompleteJob(j)
    PROVE  DispatchInv'
<1>1. /\ UNCHANGED <<jobHeld, dispatch, moves, told, clock>>
      /\ job' \in [Jobs -> Job]
  BY WorkCases DEF DispatchInv
<1> QED
  BY <1>1 DEF DispatchInv, DispatchTypeOK, JobsHeld, Locked, FollowedUpOnce

LEMMA DispatchSame == ASSUME DispatchInv, UNCHANGED dispatchVars PROVE DispatchInv'
BY DEF dispatchVars, DispatchInv, DispatchTypeOK, JobsHeld, Locked, FollowedUpOnce

LEMMA DispatchKeeps ==
    ASSUME DispatchInv, DispatchNext \/ UNCHANGED dispatchVars
    PROVE  DispatchInv'
BY MoveBegins, TellBegins, LockKeepsJobs, MoveKeepsJobs, TellKeepsJobs, WorkKeepsJobs,
   DispatchSame DEF DispatchNext, DispatchStep

\* A move is followed up once by those who asked to after it began, however the
\* requests wait for each other; for any number of jobs and requests.
THEOREM OneFollowUp == DispatchSpec => []FollowedUpOnce
<1>1. DispatchInv /\ [DispatchNext]_<<vars, planVars, dispatchVars>> => DispatchInv'
  BY DispatchKeeps
<1>2. DispatchInit => DispatchInv
  BY DispatchStart
<1>3. DispatchInv => FollowedUpOnce
  BY DEF DispatchInv
<1> QED
  BY <1>1, <1>2, <1>3, PTL DEF DispatchSpec

\* The open jobs of a crew, besides the one that is moved.
LEMMA LoadIsOpen ==
    ASSUME NEW c, NEW d, NEW j
    PROVE  Load(c, d, j) = Cardinality(Open(job, c, d) \ {j})
<1>1. {k \in Jobs \ {j} : job[k].crew = c /\ job[k].day = d /\ job[k].status # "completed"}
         = Open(job, c, d) \ {j}
  BY DEF Open
<1> QED
  BY <1>1 DEF Load

LEMMA OpenIsFinite ==
    ASSUME NEW f, NEW c, NEW d
    PROVE  IsFiniteSet(Open(f, c, d)) /\ Cardinality(Open(f, c, d)) \in Nat
<1>1. Open(f, c, d) \subseteq Jobs
  BY DEF Open
<1> QED
  BY <1>1, PlanningAssumption, FS_Subset, FS_CardinalityType

\* Fewer open jobs are no greater load.
LEMMA LoadShrinks ==
    ASSUME NEW S, NEW T, IsFiniteSet(T), S \subseteq T, NEW j
    PROVE  /\ Cardinality(S \ {j}) \in Nat /\ Cardinality(T \ {j}) \in Nat
           /\ Cardinality(S \ {j}) <= Cardinality(T \ {j})
<1>1. S \ {j} \subseteq T \ {j} /\ T \ {j} \subseteq T
  OBVIOUS
<1>2. IsFiniteSet(T \ {j})
  BY <1>1, FS_Subset
<1>3. IsFiniteSet(S \ {j}) /\ Cardinality(S \ {j}) <= Cardinality(T \ {j})
  BY <1>1, <1>2, FS_Subset
<1> QED
  BY <1>2, <1>3, FS_CardinalityType

\* What a request holds is so as long as its crew takes no other job and keeps
\* its capacity.
LEMMA CrewsStay ==
    ASSUME PlanShape, DispatchTypeOK, CrewsHeld, NEW w \in Writers, Locked(w),
           Open(job', dispatch[w].crew, dispatch[w].day)
               \subseteq Open(job, dispatch[w].crew, dispatch[w].day),
           crew'[dispatch[w].crew].capacity = crew[dispatch[w].crew].capacity
    PROVE  Cardinality(Open(job', dispatch[w].crew, dispatch[w].day) \ {dispatch[w].job}) + 1
              <= crew'[dispatch[w].crew].capacity
<1> DEFINE q == dispatch[w]
           old == Cardinality(Open(job, q.crew, q.day) \ {q.job})
           new == Cardinality(Open(job', q.crew, q.day) \ {q.job})
<1>1. old + 1 <= crew[q.crew].capacity
  BY DEF CrewsHeld
<1>2. IsFiniteSet(Open(job, q.crew, q.day))
  BY OpenIsFinite
<1>3. new \in Nat /\ old \in Nat /\ new <= old
  BY <1>2, LoadShrinks
<1>4. crew[q.crew].capacity \in Int
  BY MoveFields, PlanningAssumption DEF Locked, PlanShape, Crew
<1> HIDE DEF old, new
<1>5. new + 1 <= crew[q.crew].capacity
  BY <1>1, <1>3, <1>4
<1> QED
  BY <1>5 DEF new

FitInv == DispatchInv /\ PlanShape /\ DOMAIN held = Crews /\ CrewsHeld

\* A step that leaves the rows that are held alone, starts no move that holds
\* them, and gives no crew another job.
LEMMA NoMoveKeeps ==
    ASSUME FitInv, UNCHANGED held, NoMore,
           \A v \in Writers : Locked(v)' => dispatch'[v] = dispatch[v],
           \A c \in Crews : held[c] # None => crew'[c].capacity = crew[c].capacity
    PROVE  CrewsHeld'
<1> SUFFICES ASSUME NEW v \in Writers, Locked(v)'
             PROVE  /\ held'[dispatch'[v].crew] = v
                    /\ Cardinality(Open(job', dispatch'[v].crew, dispatch'[v].day)
                                     \ {dispatch'[v].job}) + 1
                          <= crew'[dispatch'[v].crew].capacity
  BY DEF CrewsHeld
<1>1. dispatch'[v] = dispatch[v] /\ Locked(v)
  BY DEF Locked
<1>2. dispatch[v].crew \in Crews /\ dispatch[v].day \in Days
  BY <1>1, MoveFields DEF FitInv, DispatchInv, Locked
<1>3. held[dispatch[v].crew] = v /\ v # None
  BY <1>1, PlanningAssumption DEF FitInv, CrewsHeld
<1>4. Open(job', dispatch[v].crew, dispatch[v].day)
        \subseteq Open(job, dispatch[v].crew, dispatch[v].day)
  BY <1>2 DEF NoMore
<1>5. crew'[dispatch[v].crew].capacity = crew[dispatch[v].crew].capacity
  BY <1>2, <1>3
<1> QED
  BY <1>1, <1>3, <1>4, <1>5, CrewsStay DEF FitInv, DispatchInv

LEMMA SameJobs == UNCHANGED job => NoMore
BY DEF NoMore, Open

LEMMA LockKeepsCrews ==
    ASSUME FitInv, NEW w \in Writers, LockMove(w)
    PROVE  CrewsHeld' /\ NoMore /\ DOMAIN held' = Crews
<1>1. UNCHANGED <<job, crew>> /\ NoMore
  BY LockCases, SameJobs DEF FitInv, DispatchInv
<1>2. CASE UNCHANGED held /\ dispatch' = [dispatch EXCEPT ![w] = None]
  <2>1. \A v \in Writers : Locked(v)' => dispatch'[v] = dispatch[v]
    BY <1>2 DEF FitInv, DispatchInv, DispatchTypeOK, Locked
  <2> QED
    BY <1>1, <1>2, <2>1, NoMoveKeeps DEF FitInv
<1>3. ASSUME NEW q \in Dispatch, q.crew \in Crews,
             dispatch' = [dispatch EXCEPT ![w] = q], held[q.crew] = None,
             held' = [held EXCEPT ![q.crew] = w],
             Load(q.crew, q.day, q.job) + 1 <= crew[q.crew].capacity
      PROVE  CrewsHeld' /\ DOMAIN held' = Crews
  <2>1. \A v \in Writers : dispatch'[v] = IF v = w THEN q ELSE dispatch[v]
    BY <1>3 DEF FitInv, DispatchInv, DispatchTypeOK
  <2>2. \A c \in Crews : held'[c] = IF c = q.crew THEN w ELSE held[c]
    BY <1>3 DEF FitInv
  <2>3. Cardinality(Open(job', q.crew, q.day) \ {q.job}) + 1 <= crew'[q.crew].capacity
    BY <1>1, <1>3, LoadIsOpen
  <2> SUFFICES ASSUME NEW v \in Writers, Locked(v)'
               PROVE  /\ held'[dispatch'[v].crew] = v
                      /\ Cardinality(Open(job', dispatch'[v].crew, dispatch'[v].day)
                                       \ {dispatch'[v].job}) + 1
                            <= crew'[dispatch'[v].crew].capacity
    BY <1>3 DEF CrewsHeld, FitInv
  <2>4. CASE v = w
    BY <1>3, <2>1, <2>2, <2>3, <2>4
  <2>5. CASE v # w
    <3>1. dispatch'[v] = dispatch[v] /\ Locked(v)
      BY <2>1, <2>5 DEF Locked
    <3>2. dispatch[v].crew \in Crews /\ held[dispatch[v].crew] = v /\ v # None
      BY <3>1, MoveFields, PlanningAssumption DEF FitInv, DispatchInv, CrewsHeld, Locked
    <3>3. Cardinality(Open(job, dispatch[v].crew, dispatch[v].day) \ {dispatch[v].job}) + 1
            <= crew[dispatch[v].crew].capacity
      BY <3>1 DEF FitInv, CrewsHeld
    <3> QED
      BY <1>1, <1>3, <2>2, <3>1, <3>2, <3>3
  <2> QED
    BY <2>4, <2>5
<1> QED
  BY <1>1, <1>2, <1>3, LockCases DEF FitInv, DispatchInv

\* One more job than those counted besides it is not over the capacity.
LEMMA OneMoreFits ==
    ASSUME NEW S, NEW T, IsFiniteSet(T), NEW j, NEW n \in Nat,
           S \subseteq T \cup {j}, Cardinality(T \ {j}) + 1 <= n
    PROVE  Cardinality(S) <= n
<1> DEFINE rest == T \ {j}
<1>1. IsFiniteSet(rest)
  BY FS_Subset
<1>2. /\ IsFiniteSet(rest \cup {j})
      /\ Cardinality(rest \cup {j}) = Cardinality(rest) + 1
  BY <1>1, FS_AddElement
<1>3. S \subseteq rest \cup {j}
  OBVIOUS
<1>4. Cardinality(S) <= Cardinality(rest \cup {j}) /\ IsFiniteSet(S)
  BY <1>2, <1>3, FS_Subset
<1>5. Cardinality(S) \in Nat /\ Cardinality(rest) \in Nat
  BY <1>1, <1>4, FS_CardinalityType
<1>6. Cardinality(rest) + 1 <= n
  OBVIOUS
<1> HIDE DEF rest
<1> QED
  BY <1>2, <1>4, <1>5, <1>6

\* A crew gets another job only up to its capacity.
Fits ==
    \A c \in Crews, d \in Days :
        \/ Open(job', c, d) \subseteq Open(job, c, d)
        \/ Cardinality(Open(job', c, d)) <= crew[c].capacity

LEMMA MoveKeepsCrews ==
    ASSUME FitInv, NEW w \in Writers, update_dispatch_assignment(w)
    PROVE  CrewsHeld' /\ Fits /\ DOMAIN held' = Crews
<1> DEFINE q == dispatch[w]
<1>1. /\ Locked(w)
      /\ q.job \in Jobs /\ q.crew \in Crews /\ q.day \in Days
      /\ UNCHANGED crew
      /\ \A j \in Jobs : /\ job'[j].status = job[j].status
                         /\ job'[j].crew = IF j = q.job THEN q.crew ELSE job[j].crew
                         /\ job'[j].day = IF j = q.job THEN q.day ELSE job[j].day
      /\ dispatch' = [dispatch EXCEPT ![w] = None]
      /\ held' = [held EXCEPT ![q.crew] = None]
  BY MoveCases DEF FitInv, DispatchInv
<1>2. /\ held[q.crew] = w
      /\ Cardinality(Open(job, q.crew, q.day) \ {q.job}) + 1 <= crew[q.crew].capacity
  BY <1>1 DEF FitInv, CrewsHeld
<1>3. \A v \in Writers : dispatch'[v] = IF v = w THEN None ELSE dispatch[v]
  BY <1>1 DEF FitInv, DispatchInv, DispatchTypeOK
<1>4. \A c \in Crews : held'[c] = IF c = q.crew THEN None ELSE held[c]
  BY <1>1 DEF FitInv
<1>5. \A c \in Crews, d \in Days :
         c # q.crew \/ d # q.day => Open(job', c, d) \subseteq Open(job, c, d)
  <2> HIDE DEF q
  <2> QED
    BY <1>1 DEF Open
<1>6. CrewsHeld'
  <2> SUFFICES ASSUME NEW v \in Writers, Locked(v)'
               PROVE  /\ held'[dispatch'[v].crew] = v
                      /\ Cardinality(Open(job', dispatch'[v].crew, dispatch'[v].day)
                                       \ {dispatch'[v].job}) + 1
                            <= crew'[dispatch'[v].crew].capacity
    BY DEF CrewsHeld
  <2>1. v # w /\ dispatch'[v] = dispatch[v] /\ Locked(v)
    BY <1>3 DEF Locked
  <2>2. /\ dispatch[v].crew \in Crews /\ dispatch[v].day \in Days
        /\ held[dispatch[v].crew] = v
    BY <2>1, MoveFields DEF FitInv, DispatchInv, CrewsHeld, Locked
  <2>3. dispatch[v].crew # q.crew
    BY <1>2, <2>1, <2>2
  <2>4. Open(job', dispatch[v].crew, dispatch[v].day)
          \subseteq Open(job, dispatch[v].crew, dispatch[v].day)
    BY <1>5, <2>2, <2>3
  <2>5. crew'[dispatch[v].crew].capacity = crew[dispatch[v].crew].capacity
    BY <1>1
  <2>6. Cardinality(Open(job', dispatch[v].crew, dispatch[v].day) \ {dispatch[v].job}) + 1
          <= crew'[dispatch[v].crew].capacity
    BY <2>1, <2>4, <2>5, CrewsStay DEF FitInv, DispatchInv
  <2> QED
    BY <1>4, <2>1, <2>2, <2>3, <2>6
<1>7. Cardinality(Open(job', q.crew, q.day)) <= crew[q.crew].capacity
  <2>1. IsFiniteSet(Open(job, q.crew, q.day))
    BY OpenIsFinite
  <2>2. Open(job', q.crew, q.day) \subseteq Open(job, q.crew, q.day) \cup {q.job}
    <3> HIDE DEF q
    <3> QED
      BY <1>1 DEF Open
  <2>3. crew[q.crew].capacity \in Nat
    BY <1>1, PlanningAssumption DEF FitInv, PlanShape, Crew
  <2> HIDE DEF q
  <2> QED
    BY <1>2, <2>1, <2>2, <2>3, OneMoreFits
<1>8. Fits
  BY <1>5, <1>7 DEF Fits
<1> QED
  BY <1>1, <1>6, <1>8 DEF FitInv

LEMMA WorkKeepsCrews ==
    ASSUME FitInv, NEW j \in Jobs, StartJob(j) \/ CompleteJob(j)
    PROVE  CrewsHeld' /\ NoMore /\ DOMAIN held' = Crews
<1>1. /\ UNCHANGED <<planned, held, dispatch>>
      /\ \A k \in Jobs : /\ job'[k].crew = job[k].crew /\ job'[k].day = job[k].day
                         /\ job'[k].status = "completed" \/ job[k].status # "completed"
  BY WorkCases DEF FitInv, DispatchInv
<1>2. NoMore
  BY <1>1 DEF NoMore, Open
<1>3. UNCHANGED crew
  BY <1>1 DEF planned
<1> QED
  BY <1>1, <1>2, <1>3, NoMoveKeeps DEF FitInv

\* A request begins, or a customer is told.
LEMMA AskKeepsCrews ==
    ASSUME FitInv,
           NEW w \in Writers,
           \/ \E j \in Jobs : complete_dispatch_customer_notification(w, j)
           \/ \E j \in Jobs, c \in Crews, d \in Days, n \in BOOLEAN :
                 update_job_dispatch_assignment(w, j, c, d, n)
           \/ TellCustomer(w)
    PROVE  CrewsHeld' /\ NoMore /\ DOMAIN held' = Crews
<1>1. UNCHANGED <<job, crew, held>> /\ NoMore
  BY SameJobs DEF complete_dispatch_customer_notification, TellCustomer,
                  update_job_dispatch_assignment, planned
<1>2. \A v \in Writers : Locked(v)' => dispatch'[v] = dispatch[v]
  BY DEF complete_dispatch_customer_notification, TellCustomer, Begun, Locked,
         update_job_dispatch_assignment, FitInv, DispatchInv, DispatchTypeOK
<1> QED
  BY <1>1, <1>2, NoMoveKeeps DEF FitInv

\* A crew whose row is held keeps its capacity, whatever is planned.
LEMMA PlanningHolds ==
    ASSUME PlanShape, PlanNext \/ UNCHANGED planVars
    PROVE  /\ UNCHANGED held
           /\ \A c \in Crews : held[c] # None => crew'[c].capacity = crew[c].capacity
<1>1. UNCHANGED held
  BY DEF PlanNext, planVars, HierarchyStep, create_organization_branch,
         create_service_territory, update_organization_branch_status,
         update_service_territory_status, InsertTerritory, DeactivateBranch,
         DeactivateTerritory, CrewStep, CrewSetup, create_organization_crew,
         update_organization_crew, assign_property_crew, insert_property_crew_assignment,
         RouteStep, publish_day_plan, create_draft_day_plan, assign_day_plan_stop,
         remove_day_plan_stop, reorder_day_plan_stops, InsertDraft, AssignStop,
         RemoveStop, ReorderStops
<1>2. CASE UNCHANGED crew
  BY <1>1, <1>2
<1>3. ASSUME NEW c \in Crews, create_organization_crew(c)
      PROVE  \A b \in Crews : crew'[b].capacity = crew[b].capacity
  <2>1. crew' = [crew EXCEPT ![c] = [@ EXCEPT !.status = "active"]]
    BY <1>3 DEF create_organization_crew, create_crew, PlanShape
  <2> QED
    BY <2>1 DEF PlanShape, Crew
<1>4. ASSUME NEW c \in Crews, NEW s, NEW n, NEW lead, NEW t,
             update_organization_crew(c, s, n, lead, t)
      PROVE  \A b \in Crews : held[b] # None => crew'[b] = crew[b]
  BY <1>4 DEF update_organization_crew, update_crew, PlanShape
<1>5. UNCHANGED crew \/ CrewSetup
  BY DEF PlanNext, planVars, HierarchyStep, create_organization_branch,
         create_service_territory, update_organization_branch_status,
         update_service_territory_status, InsertTerritory, DeactivateBranch,
         DeactivateTerritory, CrewStep, assign_property_crew,
         insert_property_crew_assignment, RouteStep, publish_day_plan,
         create_draft_day_plan, assign_day_plan_stop, remove_day_plan_stop,
         reorder_day_plan_stops, InsertDraft, AssignStop, RemoveStop, ReorderStops
<1> QED
  BY <1>1, <1>2, <1>3, <1>4, <1>5 DEF CrewSetup

LEMMA PlanningKeepsCrews ==
    ASSUME FitInv, PlanNext \/ UNCHANGED planVars, UNCHANGED dispatchVars
    PROVE  CrewsHeld' /\ NoMore /\ DOMAIN held' = Crews
<1>1. UNCHANGED <<job, dispatch>> /\ NoMore
  BY SameJobs DEF dispatchVars
<1> QED
  BY <1>1, PlanningHolds, NoMoveKeeps DEF FitInv

LEMMA FitStep ==
    ASSUME FitInv, [DispatchNext]_<<vars, planVars, dispatchVars>>
    PROVE  FitInv' /\ Fits
<1>1. DispatchInv'
  BY DispatchKeeps DEF FitInv
<1>2. NoMore => Fits
  BY DEF NoMore, Fits
<1>3. ASSUME DispatchStep PROVE CrewsHeld' /\ Fits /\ DOMAIN held' = Crews /\ PlanShape'
  <2>1. UNCHANGED <<plan, stop, crew>>
    BY <1>3 DEF DispatchStep, update_job_dispatch_assignment, LockMove,
                update_dispatch_assignment, TellCustomer, StartJob, CompleteJob,
                complete_dispatch_customer_notification, planned
  <2>2. PlanShape'
    BY <2>1, ShapeKept DEF FitInv
  <2> QED
    BY <1>2, <1>3, <2>2, LockKeepsCrews, MoveKeepsCrews, WorkKeepsCrews, AskKeepsCrews
       DEF DispatchStep
<1>4. CASE (PlanNext \/ UNCHANGED planVars) /\ UNCHANGED dispatchVars
  BY <1>1, <1>2, <1>4, ShapeStep, PlanningKeepsCrews DEF FitInv
<1> QED
  BY <1>1, <1>3, <1>4 DEF FitInv, DispatchNext

LEMMA FitsIsMovesFit ==
    ASSUME Fits
    PROVE  \A c \in Crews, d \in Days :
             LET before == {k \in Jobs : /\ job[k].crew = c /\ job[k].day = d
                                         /\ job[k].status # "completed"}
                 after == {k \in Jobs : /\ job'[k].crew = c /\ job'[k].day = d
                                        /\ job'[k].status # "completed"}
             IN after \subseteq before \/ Cardinality(after) <= crew[c].capacity
BY DEF Fits, Open

\* Moves take a crew's places one after the other: its open jobs of a day grow
\* up to its capacity only, however many moves, completions and changes of the
\* crew are under way.
THEOREM NoCrewIsOverfilled == DispatchSpec => MovesFit
<1>1. FitInv /\ [DispatchNext]_<<vars, planVars, dispatchVars>> => FitInv' /\ Fits
  BY FitStep
<1>2. PlanInit /\ DispatchInit => FitInv
  BY ShapeStart, DispatchStart DEF FitInv, PlanInit
<1>3. Fits => [\A c \in Crews, d \in Days :
                 LET before == {k \in Jobs : /\ job[k].crew = c /\ job[k].day = d
                                             /\ job[k].status # "completed"}
                     after == {k \in Jobs : /\ job'[k].crew = c /\ job'[k].day = d
                                            /\ job'[k].status # "completed"}
                 IN after \subseteq before \/ Cardinality(after) <= crew[c].capacity
              ]_dispatchVars
  BY FitsIsMovesFit
<1> QED
  BY <1>1, <1>2, <1>3, PTL DEF DispatchSpec, MovesFit

-----------------------------------------------------------------------------
(* The service day.                                                        *)

\* While a publication is between its checks and its write, the row of the job
\* is held for it, no move holds that row, and what it tells is still so.
PublicationInv ==
    /\ service_events \in Seq(EventKind) /\ publishing \in Publication \cup {None}
    /\ publishing # None =>
         /\ released
         /\ jobHeld[Visited] # None
         /\ \A w \in Writers : Locked(w) => dispatch[w].job # Visited
         /\ JobAllows(publishing.kind)

ServiceInv == DispatchInv /\ PublicationInv

\* What is told is so when it is told.
TellsTrue ==
    service_events' # service_events =>
        /\ current_status' = "care_in_progress" => job[Visited].status = "in_progress"
        /\ current_status' = "complete_proof_pending" => job[Visited].status = "completed"
        /\ current_status' \in Delays => job[Visited].status # "completed"

LEMMA VisitedIsJob == Visited \in Jobs
BY VisitAssumption, DispatchAssumption

LEMMA PublicationKept ==
    ASSUME PublicationInv, UNCHANGED <<service_events, publishing, released>>,
           publishing # None =>
             /\ jobHeld'[Visited] # None
             /\ \A w \in Writers : Locked(w)' => dispatch'[w].job # Visited
             /\ job'[Visited].status = job[Visited].status
    PROVE  PublicationInv' /\ TellsTrue
BY DEF PublicationInv, JobAllows, TellsTrue

LEMMA ConfirmKeeps ==
    ASSUME ServiceInv, ConfirmVisit
    PROVE  ServiceInv' /\ TellsTrue
<1>1. /\ UNCHANGED dispatchVars /\ UNCHANGED <<service_events, publishing, released>>
  BY DEF ConfirmVisit, jobVars, dispatchVars
<1> QED
  BY <1>1, DispatchSame, PublicationKept DEF ServiceInv, dispatchVars, PublicationInv, Locked

LEMMA ReleaseKeeps ==
    ASSUME ServiceInv, NEW d \in Days, release_initial_service(d)
    PROVE  ServiceInv' /\ TellsTrue
<1> DEFINE row == [status |-> "scheduled", crew |-> None, day |-> d]
<1>1. /\ job' = [job EXCEPT ![Visited] = row]
      /\ UNCHANGED <<service_events, publishing, jobHeld, dispatch, moves, told, clock>>
      /\ ~released
  BY DEF release_initial_service, Releasable, jobVars
<1>2. row \in Job
  BY DEF Job
<1> HIDE DEF row
<1>3. DispatchInv'
  BY <1>1, <1>2 DEF ServiceInv, DispatchInv, DispatchTypeOK, JobsHeld, Locked,
                    FollowedUpOnce
<1>4. publishing = None
  BY <1>1 DEF ServiceInv, PublicationInv
<1> QED
  BY <1>1, <1>3, <1>4 DEF ServiceInv, PublicationInv, TellsTrue

LEMMA CheckPublicationKeeps ==
    ASSUME ServiceInv, NEW w \in Writers, NEW kind \in EventKind, NEW d \in Days,
           CheckPublication(w, kind, d)
    PROVE  ServiceInv' /\ TellsTrue
<1>1. /\ publishing' = [by |-> w, kind |-> kind, day |-> d]
      /\ released /\ UNCHANGED <<released, service_events>>
      /\ UNCHANGED <<job, dispatch, moves, told, clock>>
      /\ jobHeld[Visited] = None /\ JobAllows(kind)
      /\ jobHeld' = [jobHeld EXCEPT ![Visited] = w]
  BY DEF CheckPublication, publish_provider_customer_service_status, JobFree
<1>2. \A v \in Writers : Locked(v) => /\ dispatch[v].job # Visited
                                      /\ dispatch[v].job \in Jobs
                                      /\ jobHeld[dispatch[v].job] = v
  BY <1>1, MoveFields, PlanningAssumption DEF ServiceInv, DispatchInv, JobsHeld, Locked
<1>3. jobHeld'[Visited] = w /\ w # None
  BY <1>1, VisitedIsJob, PlanningAssumption DEF ServiceInv, DispatchInv, DispatchTypeOK
<1>4. DispatchInv'
  <2>1. DispatchTypeOK'
    BY <1>1 DEF ServiceInv, DispatchInv, DispatchTypeOK
  <2>2. JobsHeld'
    BY <1>1, <1>2 DEF ServiceInv, DispatchInv, DispatchTypeOK, JobsHeld, Locked
  <2> QED
    BY <1>1, <2>1, <2>2, SameFollowUps DEF ServiceInv, DispatchInv
<1>5. publishing' \in Publication /\ publishing'.kind = kind
  BY <1>1 DEF Publication
<1>6. JobAllows(kind)'
  BY <1>1 DEF JobAllows
<1>7. PublicationInv'
  BY <1>1, <1>2, <1>3, <1>5, <1>6 DEF ServiceInv, PublicationInv, JobAllows, Locked
<1> QED
  BY <1>1, <1>4, <1>7 DEF ServiceInv, TellsTrue

LEMMA PublishKeeps ==
    ASSUME ServiceInv, publish_customer_service_day_event
    PROVE  ServiceInv' /\ TellsTrue
<1> DEFINE p == publishing
           row == [job[Visited] EXCEPT !.day = p.day]
<1>1. /\ p # None
      /\ service_events' = Append(service_events, p.kind)
      /\ publishing' = None /\ UNCHANGED released
      /\ jobHeld' = [jobHeld EXCEPT ![Visited] = None]
      /\ UNCHANGED <<dispatch, moves, told, clock>>
      /\ UNCHANGED job \/ job' = [job EXCEPT ![Visited].day = p.day]
  BY DEF publish_customer_service_day_event
<1>2. p \in Publication /\ JobAllows(p.kind)
      /\ \A w \in Writers : Locked(w) => dispatch[w].job # Visited
  BY <1>1 DEF ServiceInv, PublicationInv
<1>3. service_events' \in Seq(EventKind)
      /\ service_events' # <<>> /\ service_events'[Len(service_events')] = p.kind
  <2>1. p.kind \in EventKind
    BY <1>2 DEF Publication
  <2> HIDE DEF p
  <2> QED
    BY <1>1, <2>1 DEF ServiceInv, PublicationInv
<1>4. current_status' = p.kind
  BY <1>3 DEF current_status
<1>5. TellsTrue
  BY <1>2, <1>4 DEF TellsTrue, JobAllows
<1>6. job' \in [Jobs -> Job]
  <2>1. row \in Job
    <3>1. job[Visited] \in Job /\ p.day \in Days
      BY <1>2, VisitedIsJob DEF ServiceInv, DispatchInv, DispatchTypeOK, Publication
    <3> HIDE DEF p
    <3> QED
      BY <3>1 DEF Job
  <2>2. UNCHANGED job \/ job' = [job EXCEPT ![Visited] = row]
    BY <1>1, VisitedIsJob DEF ServiceInv, DispatchInv, DispatchTypeOK
  <2> HIDE DEF row
  <2> QED
    BY <2>1, <2>2 DEF ServiceInv, DispatchInv, DispatchTypeOK
<1>7. DispatchInv'
  <2>1. DispatchTypeOK'
    BY <1>1, <1>6 DEF ServiceInv, DispatchInv, DispatchTypeOK
  <2>2. JobsHeld'
    <3> SUFFICES ASSUME NEW w \in Writers, Locked(w) PROVE jobHeld'[dispatch[w].job] = w
      BY <1>1 DEF JobsHeld, Locked
    <3>1. dispatch[w].job \in Jobs /\ jobHeld[dispatch[w].job] = w
      BY MoveFields DEF ServiceInv, DispatchInv, JobsHeld, Locked
    <3> QED
      BY <1>1, <1>2, <3>1 DEF ServiceInv, DispatchInv, DispatchTypeOK
  <2> QED
    BY <1>1, <2>1, <2>2, SameFollowUps DEF ServiceInv, DispatchInv
<1>8. PublicationInv'
  BY <1>1, <1>3 DEF PublicationInv
<1> QED
  BY <1>5, <1>7, <1>8 DEF ServiceInv

\* The crew and the dispatcher leave a row alone that is held for a publication.
LEMMA DispatchLeaves ==
    ASSUME ServiceInv, DispatchNext \/ UNCHANGED dispatchVars, publishing # None
    PROVE  /\ jobHeld'[Visited] # None
           /\ \A w \in Writers : Locked(w)' => dispatch'[w].job # Visited
           /\ job'[Visited].status = job[Visited].status
<1>1. /\ jobHeld[Visited] # None
      /\ \A w \in Writers : Locked(w) => dispatch[w].job # Visited
      /\ DispatchTypeOK /\ Visited \in Jobs
  BY VisitedIsJob DEF ServiceInv, PublicationInv, DispatchInv
<1>2. CASE UNCHANGED dispatchVars
  BY <1>1, <1>2 DEF dispatchVars, Locked
<1>3. ASSUME NEW w \in Writers, NEW j \in Jobs, complete_dispatch_customer_notification(w, j)
      PROVE  /\ UNCHANGED <<job, jobHeld>>
             /\ \A v \in Writers : Locked(v)' => dispatch'[v] = dispatch[v]
  BY <1>1, <1>3 DEF complete_dispatch_customer_notification, Begun, Locked, DispatchTypeOK
<1>4. ASSUME NEW w \in Writers, NEW j \in Jobs, NEW c \in Crews, NEW d \in Days,
             NEW n \in BOOLEAN, update_job_dispatch_assignment(w, j, c, d, n)
      PROVE  /\ UNCHANGED <<job, jobHeld>>
             /\ \A v \in Writers : Locked(v)' => dispatch'[v] = dispatch[v]
  BY <1>1, <1>4 DEF update_job_dispatch_assignment, Begun, Locked, DispatchTypeOK
<1>5. ASSUME NEW w \in Writers, TellCustomer(w)
      PROVE  /\ UNCHANGED <<job, jobHeld>>
             /\ \A v \in Writers : Locked(v)' => dispatch'[v] = dispatch[v]
  BY <1>1, <1>5 DEF TellCustomer, Locked, DispatchTypeOK
<1>6. ASSUME NEW w \in Writers, LockMove(w)
      PROVE  /\ jobHeld'[Visited] # None /\ UNCHANGED job
             /\ \A v \in Writers : Locked(v)' => dispatch'[v].job # Visited
  <2>1. CASE dispatch' = [dispatch EXCEPT ![w] = None] /\ UNCHANGED jobHeld
    BY <1>1, <1>6, <2>1, LockCases DEF Locked, DispatchTypeOK
  <2>2. ASSUME NEW q \in Dispatch, q.job \in Jobs, dispatch' = [dispatch EXCEPT ![w] = q],
               jobHeld[q.job] = None, jobHeld' = [jobHeld EXCEPT ![q.job] = w]
        PROVE  /\ jobHeld'[Visited] # None
               /\ \A v \in Writers : Locked(v)' => dispatch'[v].job # Visited
    BY <1>1, <2>2 DEF Locked, DispatchTypeOK
  <2> QED
    BY <1>1, <1>6, <2>1, <2>2, LockCases
<1>7. ASSUME NEW w \in Writers, update_dispatch_assignment(w)
      PROVE  /\ jobHeld'[Visited] # None /\ job'[Visited].status = job[Visited].status
             /\ \A v \in Writers : Locked(v)' => dispatch'[v].job # Visited
  <2>1. /\ Locked(w) /\ job'[Visited].status = job[Visited].status
        /\ dispatch' = [dispatch EXCEPT ![w] = None]
        /\ jobHeld' = [jobHeld EXCEPT ![dispatch[w].job] = None]
    BY <1>1, <1>7, MoveCases
  <2>2. dispatch[w].job # Visited
    BY <1>1, <2>1
  <2> QED
    BY <1>1, <2>1, <2>2 DEF Locked, DispatchTypeOK
<1>8. ASSUME NEW j \in Jobs, StartJob(j) \/ CompleteJob(j)
      PROVE  UNCHANGED <<jobHeld, dispatch>> /\ job'[Visited] = job[Visited]
  BY <1>1, <1>8, WorkCases
<1>9. CASE DispatchStep
  BY <1>1, <1>3, <1>4, <1>5, <1>6, <1>7, <1>8, <1>9 DEF DispatchStep, Locked
<1> QED
  BY <1>2, <1>9 DEF DispatchNext

LEMMA ServiceStepKeeps ==
    ASSUME ServiceInv,
           \/ ServiceStep
           \/ (DispatchNext \/ UNCHANGED dispatchVars) /\ UNCHANGED serviceVars
    PROVE  ServiceInv' /\ TellsTrue
<1>1. CASE ServiceStep
  BY <1>1, ConfirmKeeps, ReleaseKeeps, CheckPublicationKeeps, PublishKeeps
     DEF ServiceStep, release_provider_initial_service
<1>2. CASE (DispatchNext \/ UNCHANGED dispatchVars) /\ UNCHANGED serviceVars
  <2>1. DispatchInv'
    BY <1>2, DispatchKeeps DEF ServiceInv
  <2>2. UNCHANGED <<service_events, publishing, released>>
    BY <1>2 DEF serviceVars
  <2> QED
    BY <1>2, <2>1, <2>2, DispatchLeaves, PublicationKept DEF ServiceInv
<1> QED
  BY <1>1, <1>2

LEMMA ServiceStart == DispatchInit /\ VisitInit => ServiceInv
BY DispatchStart DEF VisitInit, ServiceInv, PublicationInv

\* What the customer is told of the service day is so when it is told, although
\* the crew starts and completes the job and dispatchers move it meanwhile.
THEOREM TheCustomerIsToldTheTruth == VisitSpec => ToldAsItIs
<1>1. ServiceInv /\ [VisitNext]_<<vars, planVars, dispatchVars, visitVars>>
        => ServiceInv' /\ [TellsTrue]_visitVars
  BY ServiceStepKeeps DEF VisitNext, VisitStep, visitVars
<1> QED
  BY <1>1, ServiceStart, PTL DEF VisitSpec, ToldAsItIs, TellsTrue

-----------------------------------------------------------------------------
(* The thread of the visit.                                                *)

ThreadTypeOK ==
    /\ thread \in Seq(Message) /\ Len(thread) <= MaxMessages
    /\ page \in [Authors -> Page]
    /\ wire \subseteq Request

\* A text has been written by its author.
IsWritten(a, k) == \E n \in DOMAIN thread : thread[n].by = a /\ thread[n].key = k

\* A page that is sending, or has learned what became of its text, has one; what
\* a customer's page takes for written is; and a customer only asks.
PagesFollow ==
    /\ \A a \in Authors : page[a].status # "idle" => page[a].key # 0
    /\ \A c \in Customers : page[c].status = "written" => IsWritten(c, page[c].key)
    /\ \A r \in wire : r.by \in Customers => r.to = 0

KeysOnce ==
    \A m, n \in DOMAIN thread :
        thread[m].by = thread[n].by /\ thread[m].key = thread[n].key => m = n
AnswersOnce ==
    \A m, n \in DOMAIN thread :
        thread[m].to # 0 => /\ thread[m].to < m /\ IsQuestion(thread[m].to)
                            /\ thread[n].to = thread[m].to => m = n
ToldIsWritten == \A c \in Customers : \A k \in page[c].told : IsWritten(c, k)

ThreadInv == ThreadTypeOK /\ PagesFollow /\ KeysOnce /\ AnswersOnce /\ ToldIsWritten

LEMMA ThreadStart == VisitInit => ThreadInv
<1> SUFFICES ASSUME VisitInit PROVE ThreadInv
  OBVIOUS
<1>1. thread = <<>> /\ DOMAIN thread = {} /\ Len(thread) = 0 /\ wire = {}
  BY DEF VisitInit
<1>2. page \in [Authors -> Page]
  BY VisitAssumption DEF VisitInit, Page
<1>3. \A a \in Authors : page[a].status = "idle" /\ page[a].told = {}
  BY DEF VisitInit
<1>4. Customers \subseteq Authors
  BY DEF Authors
<1> QED
  BY <1>1, <1>2, <1>3, <1>4, VisitAssumption
     DEF ThreadInv, ThreadTypeOK, PagesFollow, KeysOnce, AnswersOnce, ToldIsWritten

\* The thread stays, and no customer's page claims more than is in it.
LEMMA PageKeeps ==
    ASSUME ThreadInv, NEW a \in Authors, NEW p \in Page, page' = [page EXCEPT ![a] = p],
           UNCHANGED thread, wire' \subseteq Request,
           p.status # "idle" => p.key # 0,
           a \in Customers /\ p.status = "written" => IsWritten(a, p.key),
           a \in Customers => \A k \in p.told : IsWritten(a, k),
           \A r \in wire' : r.by \in Customers => r.to = 0
    PROVE  ThreadInv'
<1>1. \A b \in Authors : page'[b] = IF b = a THEN p ELSE page[b]
  BY DEF ThreadInv, ThreadTypeOK
<1>2. ThreadTypeOK'
  BY DEF ThreadInv, ThreadTypeOK
<1>3. Customers \subseteq Authors
  BY DEF Authors
<1>4. \A b, k : IsWritten(b, k)' <=> IsWritten(b, k)
  BY DEF IsWritten
<1>5. PagesFollow'
  <2>1. \A b \in Authors : page'[b].status # "idle" => page'[b].key # 0
    BY <1>1 DEF ThreadInv, PagesFollow
  <2>2. ASSUME NEW c \in Customers, page'[c].status = "written"
        PROVE  \E n \in DOMAIN thread' : thread'[n].by = c /\ thread'[n].key = page'[c].key
    BY <1>1, <1>3, <2>2 DEF ThreadInv, PagesFollow, IsWritten
  <2> QED
    BY <2>1, <2>2 DEF PagesFollow, IsWritten
<1>6. ToldIsWritten'
  BY <1>1, <1>3, <1>4 DEF ThreadInv, ToldIsWritten
<1>7. KeysOnce' /\ AnswersOnce'
  BY DEF ThreadInv, KeysOnce, AnswersOnce, IsQuestion
<1> QED
  BY <1>2, <1>5, <1>6, <1>7 DEF ThreadInv

LEMMA WireStays == ASSUME ThreadInv, UNCHANGED wire
                   PROVE  wire' \subseteq Request /\ \A r \in wire' : r.by \in Customers => r.to = 0
BY DEF ThreadInv, ThreadTypeOK, PagesFollow

LEMMA PageFacts ==
    ASSUME ThreadInv, NEW a \in Authors
    PROVE  /\ page[a] \in Page
           /\ page[a].status # "idle" => page[a].key # 0
           /\ a \in Customers /\ page[a].status = "written" => IsWritten(a, page[a].key)
           /\ a \in Customers => \A k \in page[a].told : IsWritten(a, k)
BY DEF ThreadInv, ThreadTypeOK, PagesFollow, ToldIsWritten

LEMMA LoadKeeps == ASSUME ThreadInv, NEW a \in Authors, loadThread(a) PROVE ThreadInv'
<1> DEFINE p == [page[a] EXCEPT !.loaded = TRUE, !.seen = Len(thread)]
<1>1. page' = [page EXCEPT ![a] = p] /\ UNCHANGED <<thread, wire>> /\ page[a].status = "idle"
  BY DEF loadThread, Idle, ThreadInv, ThreadTypeOK
<1>2. Len(thread) \in 0..MaxMessages
  BY VisitAssumption DEF ThreadInv, ThreadTypeOK
<1>3. p \in Page /\ p.status = page[a].status /\ p.key = page[a].key /\ p.told = page[a].told
  BY <1>2, PageFacts DEF Page
<1> HIDE DEF p
<1> QED
  BY <1>1, <1>3, PageFacts, PageKeeps, WireStays

LEMMA EditKeeps == ASSUME ThreadInv, NEW a \in Authors, EditBody(a) PROVE ThreadInv'
<1> DEFINE p == [page[a] EXCEPT !.key = 0]
<1>1. page' = [page EXCEPT ![a] = p] /\ UNCHANGED <<thread, wire>> /\ page[a].status = "idle"
  BY DEF EditBody, Idle, ThreadInv, ThreadTypeOK
<1>2. p \in Page /\ p.status = page[a].status /\ p.told = page[a].told
  BY PageFacts, VisitAssumption DEF Page
<1> HIDE DEF p
<1> QED
  BY <1>1, <1>2, PageFacts, PageKeeps, WireStays

LEMMA LoseKeeps == ASSUME ThreadInv, NEW a \in Authors, LoseAnswer(a) PROVE ThreadInv'
<1> DEFINE p == [page[a] EXCEPT !.status = "failed"]
<1>1. page' = [page EXCEPT ![a] = p] /\ UNCHANGED <<thread, wire>> /\ page[a].status = "sending"
  BY DEF LoseAnswer, ThreadInv, ThreadTypeOK
<1>2. p \in Page /\ p.status = "failed" /\ p.key = page[a].key /\ p.told = page[a].told
  BY PageFacts DEF Page
<1> HIDE DEF p
<1> QED
  BY <1>1, <1>2, PageFacts, PageKeeps, WireStays

\* A page becomes idle, with the fields it had or with its text confirmed.
LEMMA ReloadKeeps ==
    ASSUME ThreadInv, NEW a \in Authors, UNCHANGED <<thread, wire>>, NEW f \in Page,
           a \in Customers => \A k \in f.told : IsWritten(a, k),
           Reloaded(a, f) \/ NotReloaded(a, f)
    PROVE  ThreadInv'
<1>1. Len(thread) \in 0..MaxMessages
  BY VisitAssumption DEF ThreadInv, ThreadTypeOK
<1>2. PICK p \in Page : page' = [page EXCEPT ![a] = p] /\ p.status = "idle" /\ p.told = f.told
  <2>1. CASE Reloaded(a, f)
    <3> DEFINE p == [f EXCEPT !.loaded = TRUE, !.seen = Len(thread), !.status = "idle"]
    <3>1. p \in Page /\ p.status = "idle" /\ p.told = f.told
      BY <1>1 DEF Page
    <3>2. page' = [page EXCEPT ![a] = p]
      BY <2>1 DEF Reloaded
    <3> HIDE DEF p
    <3> QED
      BY <3>1, <3>2
  <2>2. CASE NotReloaded(a, f)
    <3> DEFINE shown == a \in Customers
               p == [f EXCEPT !.loaded = shown, !.status = "idle"]
    <3>2. page' = [page EXCEPT ![a] = p]
      BY <2>2 DEF NotReloaded
    <3>3. shown \in BOOLEAN
      OBVIOUS
    <3> HIDE DEF shown
    <3>1. p \in Page /\ p.status = "idle" /\ p.told = f.told
      BY <3>3 DEF Page
    <3> HIDE DEF p
    <3> QED
      BY <3>1, <3>2
  <2> QED
    BY <2>1, <2>2
<1> QED
  BY <1>2, PageKeeps, WireStays

LEMMA ConfirmedFields ==
    ASSUME ThreadInv, NEW a \in Authors, page[a].status # "idle"
    PROVE  ConfirmedOn(a) \in Page /\ ConfirmedOn(a).told = page[a].told \cup {page[a].key}
<1>1. page[a] \in Page /\ page[a].key # 0
  BY PageFacts
<1>2. page[a].key \in 1..MaxKeys
  BY <1>1, VisitAssumption DEF Page
<1> DEFINE keys == page[a].told \cup {page[a].key}
           row == page[a]
<1>3. ConfirmedOn(a) = [row EXCEPT !.key = 0, !.told = keys]
  BY <1>1 DEF ConfirmedOn, Page
<1>4. keys \in SUBSET (1..MaxKeys) /\ row \in Page /\ 0 \in 0..MaxKeys
  BY <1>1, <1>2, VisitAssumption DEF Page
<1> HIDE DEF keys, row
<1>5. [row EXCEPT !.key = 0, !.told = keys] \in Page
      /\ [row EXCEPT !.key = 0, !.told = keys].told = keys
  BY <1>4 DEF Page
<1> QED
  BY <1>3, <1>5 DEF keys

LEMMA SuccessKeeps == ASSUME ThreadInv, NEW a \in Authors, AfterSuccess(a) PROVE ThreadInv'
<1>1. /\ page[a].status = "written" /\ UNCHANGED <<thread, wire>>
      /\ Reloaded(a, ConfirmedOn(a)) \/ NotReloaded(a, ConfirmedOn(a))
  BY DEF AfterSuccess
<1>2. ConfirmedOn(a) \in Page /\ ConfirmedOn(a).told = page[a].told \cup {page[a].key}
  BY <1>1, ConfirmedFields
<1>3. a \in Customers => \A k \in ConfirmedOn(a).told : IsWritten(a, k)
  BY <1>1, <1>2, PageFacts
<1> QED
  BY <1>1, <1>2, <1>3, ReloadKeeps

LEMMA FailureKeeps == ASSUME ThreadInv, NEW a \in Authors, AfterFailure(a) PROVE ThreadInv'
<1>1. page[a].status = "failed" /\ UNCHANGED <<thread, wire>>
  BY DEF AfterFailure
<1>2. CASE Reloaded(a, page[a]) \/ NotReloaded(a, page[a])
  BY <1>1, <1>2, PageFacts, ReloadKeeps
<1>3. CASE a \in ManagerPages /\ Reloaded(a, ConfirmedOn(a))
  <2>1. a \notin Customers
    BY <1>3, VisitAssumption
  <2> QED
    BY <1>1, <1>3, <2>1, ConfirmedFields, ReloadKeeps
<1> QED
  BY <1>2, <1>3 DEF AfterFailure

LEMMA SubmitKeeps ==
    ASSUME ThreadInv, NEW a \in Authors, NEW n \in 0..MaxMessages, Submit(a, n)
    PROVE  ThreadInv'
<1> DEFINE k == IF page[a].key # 0 THEN page[a].key ELSE page[a].used + 1
           r == [by |-> a, key |-> k, to |-> n, expected |-> page[a].seen]
           more == IF k > page[a].used THEN k ELSE page[a].used
           p == [page[a] EXCEPT !.status = "sending", !.key = k, !.to = n, !.used = more]
<1>1. /\ page' = [page EXCEPT ![a] = p]
      /\ wire' = wire \cup {r} /\ UNCHANGED thread
      /\ page[a].key # 0 \/ page[a].used < MaxKeys
      /\ a \in Customers => n = 0
  BY DEF Submit, ResponseTarget, ThreadInv, ThreadTypeOK
<1>2. page[a] \in Page /\ (a \in Customers => \A i \in page[a].told : IsWritten(a, i))
  BY PageFacts
<1>3. page[a].key \in 0..MaxKeys /\ page[a].used \in 0..MaxKeys /\ page[a].seen \in 0..MaxMessages
  BY PageFacts DEF Page
<1>4. k \in 1..MaxKeys /\ k # 0
  BY <1>1, <1>3, VisitAssumption
<1> HIDE DEF k
<1>5. more \in 0..MaxKeys
  BY <1>3, <1>4, VisitAssumption
<1> HIDE DEF more
<1>6. r \in Request /\ r.by = a /\ r.to = n
  BY <1>3, <1>4 DEF Request
<1>7. p \in Page /\ p.status = "sending" /\ p.key = k /\ p.told = page[a].told
  <2>1. page[a] \in Page /\ k \in 0..MaxKeys
    BY <1>2, <1>4
  <2> QED
    BY <1>5, <2>1 DEF Page
<1> HIDE DEF r, p
<1>8. wire' \subseteq Request /\ \A q \in wire' : q.by \in Customers => q.to = 0
  BY <1>1, <1>6 DEF ThreadInv, ThreadTypeOK, PagesFollow
<1> QED
  BY <1>1, <1>4, <1>7, <1>8, PageFacts, PageKeeps

\* What a request that is handled does to the thread and to its page.
LEMMA HandleCases ==
    ASSUME ThreadInv, NEW r \in wire, HandleMessage(r)
    PROVE  /\ r \in Request /\ r.by \in Authors
           /\ wire' = wire \ {r}
           /\ \/ UNCHANGED page
              \/ /\ page' = [page EXCEPT ![r.by].status = "failed"]
                 /\ page[r.by].status = "sending"
              \/ /\ page' = [page EXCEPT ![r.by].status = "written"]
                 /\ page[r.by].status = "sending" /\ page[r.by].key = r.key
                 /\ \/ Acceptable(r)
                          /\ thread' = Append(thread, [by |-> r.by, key |-> r.key, to |-> r.to])
                    \/ replay_message(r) # {}
           /\ \/ UNCHANGED thread
              \/ /\ Acceptable(r)
                 /\ thread' = Append(thread, [by |-> r.by, key |-> r.key, to |-> r.to])
<1>1. r \in Request /\ r.by \in Authors
  BY DEF ThreadInv, ThreadTypeOK, Request
<1>2. ExactReplay(r) => replay_message(r) # {}
  BY DEF ExactReplay
<1> QED
  BY <1>1, <1>2 DEF HandleMessage, Answered

LEMMA AppendKeeps ==
    ASSUME ThreadInv, Len(thread) < MaxMessages, NEW r \in wire, Acceptable(r),
           thread' = Append(thread, [by |-> r.by, key |-> r.key, to |-> r.to])
    PROVE  /\ thread' \in Seq(Message) /\ Len(thread') <= MaxMessages
           /\ KeysOnce' /\ AnswersOnce'
           /\ IsWritten(r.by, r.key)'
           /\ \A b, k : IsWritten(b, k) => IsWritten(b, k)'
<1> DEFINE m == [by |-> r.by, key |-> r.key, to |-> r.to]
           last == Len(thread) + 1
<1>1. r \in Request
  BY DEF ThreadInv, ThreadTypeOK
<1>2. m \in Message /\ m.by = r.by /\ m.key = r.key /\ m.to = r.to
  BY <1>1 DEF Request, Message
<1>3. r.to \in Nat
  BY <1>1, VisitAssumption DEF Request
<1> HIDE DEF m
<1>4. thread \in Seq(Message) /\ Len(thread) \in Nat
  BY DEF ThreadInv, ThreadTypeOK
<1>5. /\ thread' \in Seq(Message) /\ Len(thread') = last
      /\ DOMAIN thread = 1..Len(thread) /\ DOMAIN thread' = 1..last
      /\ thread'[last] = m
      /\ \A n \in DOMAIN thread : thread'[n] = thread[n]
  BY <1>2, <1>4 DEF m
<1>6. last \notin DOMAIN thread /\ \A n \in DOMAIN thread' : n \in DOMAIN thread \/ n = last
  BY <1>4, <1>5
<1>7. \A n \in DOMAIN thread : ~(thread[n].by = r.by /\ thread[n].key = r.key)
  BY DEF Acceptable, create_customer_question, create_provider_response, replay_message
<1>8. r.to # 0 => /\ r.to \in DOMAIN thread /\ thread[r.to].to = 0
                  /\ \A n \in DOMAIN thread : thread[n].to # r.to
  <2>1. CASE r.by \in Customers
    BY <2>1 DEF ThreadInv, PagesFollow
  <2>2. CASE r.by \notin Customers
    BY <2>2 DEF Acceptable, create_provider_response, IsQuestion
  <2> QED
    BY <2>1, <2>2
<1>9. KeysOnce'
  BY <1>2, <1>5, <1>6, <1>7 DEF KeysOnce, ThreadInv
<1>10. AnswersOnce'
  <2>1. \A n \in DOMAIN thread : thread[n].to # 0 =>
           /\ thread[n].to < n /\ thread[n].to \in DOMAIN thread /\ thread[thread[n].to].to = 0
           /\ \A l \in DOMAIN thread : thread[l].to = thread[n].to => n = l
    BY DEF ThreadInv, AnswersOnce, IsQuestion
  <2>2. \A n \in DOMAIN thread' : thread'[n].to # 0 =>
           /\ thread'[n].to < n /\ thread'[n].to \in DOMAIN thread'
           /\ thread'[thread'[n].to].to = 0
    <3> SUFFICES ASSUME NEW n \in DOMAIN thread', thread'[n].to # 0
                 PROVE  /\ thread'[n].to < n /\ thread'[n].to \in DOMAIN thread'
                        /\ thread'[thread'[n].to].to = 0
      OBVIOUS
    <3>1. CASE n \in DOMAIN thread
      BY <1>5, <2>1, <3>1
    <3>2. CASE n = last
      <4>1. thread'[n].to = r.to
        BY <1>2, <1>5, <3>2
      <4>2. r.to \in 1..Len(thread) /\ thread'[r.to] = thread[r.to] /\ thread[r.to].to = 0
        BY <1>5, <1>8, <4>1
      <4> HIDE DEF last
      <4>3. r.to < Len(thread) + 1
        BY <1>4, <4>2
      <4> QED
        BY <1>5, <3>2, <4>1, <4>2, <4>3 DEF last
    <3> QED
      BY <1>6, <3>1, <3>2
  <2>3. \A n, l \in DOMAIN thread' : thread'[n].to # 0 /\ thread'[l].to = thread'[n].to => n = l
    <3> SUFFICES ASSUME NEW n \in DOMAIN thread', NEW l \in DOMAIN thread',
                        thread'[n].to # 0, thread'[l].to = thread'[n].to
                 PROVE  n = l
      OBVIOUS
    <3>1. CASE n \in DOMAIN thread /\ l \in DOMAIN thread
      BY <1>5, <2>1, <3>1
    <3>2. CASE n = last /\ l \in DOMAIN thread
      BY <1>2, <1>5, <1>8, <3>2
    <3>3. CASE l = last /\ n \in DOMAIN thread
      BY <1>2, <1>5, <1>8, <3>3
    <3> QED
      BY <1>6, <3>1, <3>2, <3>3
  <2> QED
    BY <2>2, <2>3 DEF AnswersOnce, IsQuestion
<1>11. last \in DOMAIN thread' /\ DOMAIN thread \subseteq DOMAIN thread'
  BY <1>4, <1>5
<1>12. IsWritten(r.by, r.key)'
  <2>1. thread'[last].by = r.by /\ thread'[last].key = r.key
    BY <1>2, <1>5
  <2> QED
    BY <1>11, <2>1 DEF IsWritten
<1>13. \A b, k : IsWritten(b, k) => IsWritten(b, k)'
  BY <1>5, <1>11 DEF IsWritten
<1> QED
  BY <1>4, <1>5, <1>9, <1>10, <1>12, <1>13, VisitAssumption

\* The answer to a request leaves what its page claims in the thread.
LEMMA HandleKeeps ==
    ASSUME ThreadInv, Len(thread) < MaxMessages, NEW r \in wire, HandleMessage(r)
    PROVE  ThreadInv'
<1> DEFINE a == r.by
           p(s) == [page[a] EXCEPT !.status = s]
           Has(b, k) == \E n \in DOMAIN thread' : thread'[n].by = b /\ thread'[n].key = k
           grown == thread' = Append(thread, [by |-> r.by, key |-> r.key, to |-> r.to])
<1>1. r \in Request /\ a \in Authors /\ wire' = wire \ {r}
  BY HandleCases
<1>2. /\ thread' \in Seq(Message) /\ Len(thread') <= MaxMessages
      /\ KeysOnce' /\ AnswersOnce'
      /\ \A b, k : IsWritten(b, k) => Has(b, k)
  <2>1. CASE UNCHANGED thread
    BY <2>1 DEF ThreadInv, ThreadTypeOK, KeysOnce, AnswersOnce, IsQuestion, IsWritten
  <2> QED
    BY <2>1, HandleCases, AppendKeeps DEF IsWritten
<1>3. \A s \in {"failed", "written"} :
         p(s) \in Page /\ p(s).status = s /\ p(s).key = page[a].key /\ p(s).told = page[a].told
  BY <1>1, PageFacts DEF Page
<1>4. Acceptable(r) /\ grown => Has(a, r.key)
  BY AppendKeeps DEF IsWritten
<1>5. replay_message(r) # {} => IsWritten(a, r.key)
  BY DEF replay_message, IsWritten
<1>6. \/ UNCHANGED page
      \/ /\ page' = [page EXCEPT ![a] = p("failed")] /\ page[a].status = "sending"
      \/ /\ page' = [page EXCEPT ![a] = p("written")] /\ page[a].status = "sending"
         /\ Has(a, page[a].key)
  <2>1. page \in [Authors -> Page]
    BY DEF ThreadInv, ThreadTypeOK
  <2> QED
    BY <1>1, <1>2, <1>4, <1>5, <2>1, HandleCases
<1> HIDE DEF p, grown, Has, a
<1>7. /\ page' \in [Authors -> Page]
      /\ \A b \in Authors : /\ page'[b].key = page[b].key /\ page'[b].told = page[b].told
                            /\ page'[b].status # "idle" => page[b].status # "idle"
                            /\ page'[b].status = "written" =>
                                  \/ page[b].status = "written"
                                  \/ Has(b, page[b].key)
  <2>1. CASE UNCHANGED page
    BY <2>1 DEF ThreadInv, ThreadTypeOK
  <2>2. ASSUME NEW s \in {"failed", "written"}, page' = [page EXCEPT ![a] = p(s)],
               page[a].status = "sending", s = "written" => Has(a, page[a].key)
        PROVE  /\ page' \in [Authors -> Page]
               /\ \A b \in Authors : /\ page'[b].key = page[b].key /\ page'[b].told = page[b].told
                                     /\ page'[b].status # "idle" => page[b].status # "idle"
                                     /\ page'[b].status = "written" =>
                                           \/ page[b].status = "written"
                                           \/ Has(b, page[b].key)
    BY <1>1, <1>3, <2>2 DEF ThreadInv, ThreadTypeOK
  <2> QED
    BY <1>6, <2>1, <2>2
<1>8. Customers \subseteq Authors
  BY DEF Authors
<1>9. ThreadTypeOK'
  BY <1>1, <1>2, <1>7 DEF ThreadInv, ThreadTypeOK
<1>10. PagesFollow'
  <2>1. \A b \in Authors : page'[b].status # "idle" => page'[b].key # 0
    BY <1>7 DEF ThreadInv, PagesFollow
  <2>2. \A c \in Customers : page'[c].status = "written" => Has(c, page'[c].key)
    BY <1>2, <1>7, <1>8 DEF ThreadInv, PagesFollow
  <2>3. \A q \in wire' : q.by \in Customers => q.to = 0
    BY <1>1 DEF ThreadInv, PagesFollow
  <2> QED
    BY <2>1, <2>2, <2>3 DEF PagesFollow, IsWritten, Has
<1>11. ToldIsWritten'
  <2>1. \A c \in Customers : \A k \in page'[c].told : Has(c, k)
    BY <1>2, <1>7, <1>8 DEF ThreadInv, ToldIsWritten
  <2> QED
    BY <2>1 DEF ToldIsWritten, IsWritten, Has
<1> QED
  BY <1>2, <1>9, <1>10, <1>11 DEF ThreadInv

LEMMA ThreadKeeps ==
    ASSUME ThreadInv, ThreadStep \/ UNCHANGED <<thread, page, wire>>
    PROVE  ThreadInv'
<1>1. CASE UNCHANGED <<thread, page, wire>>
  BY <1>1 DEF ThreadInv, ThreadTypeOK, PagesFollow, KeysOnce, AnswersOnce, ToldIsWritten,
              IsWritten, IsQuestion
<1>2. CASE ThreadStep
  <2>1. CASE \E c \in Customers : SuspendCustomer(c)
    BY <1>1, <2>1 DEF SuspendCustomer
  <2>2. CASE PageStep
    BY <2>2, LoadKeeps, EditKeeps, LoseKeeps, SuccessKeeps, FailureKeeps, SubmitKeeps
       DEF PageStep
  <2> QED
    BY <1>2, <2>1, <2>2, HandleKeeps DEF ThreadStep
<1> QED
  BY <1>1, <1>2

LEMMA ServiceLeavesThread == ASSUME ServiceStep PROVE UNCHANGED threadVars
<1>1. UNCHANGED <<access, thread, page, wire>>
  BY DEF ServiceStep, ConfirmVisit, release_provider_initial_service,
         release_initial_service, CheckPublication, publish_customer_service_day_event,
         threadVars
<1> QED
  BY <1>1 DEF threadVars

\* A text is written once, a question answered once and after it was asked, and
\* what a customer's page reports is in the thread, however many requests of how
\* many pages are lost, sent again or late.
THEOREM NothingIsSaidTwice == VisitSpec => []SaidOnce
<1>1. ThreadInv => SaidOnce
  BY DEF ThreadInv, KeysOnce, AnswersOnce, ToldIsWritten, IsWritten, SaidOnce
<1>2. ThreadInv /\ [VisitNext]_<<vars, planVars, dispatchVars, visitVars>> => ThreadInv'
  BY ServiceLeavesThread, ThreadKeeps DEF VisitNext, VisitStep, visitVars, threadVars
<1> QED
  BY <1>1, <1>2, ThreadStart, PTL DEF VisitSpec

-----------------------------------------------------------------------------
(* The types of the planning, and the places of stops.                     *)

LEMMA LargestBounds ==
    ASSUME NEW s \in Stops, NEW i \in Jobs
    PROVE  Largest(s) \in 0..MaxOrder /\ \A j \in Jobs : s[j] <= Largest(s)
<1> DEFINE R == OpToRel(<, Nat)
           T == {MaxOrder - s[j] : j \in Jobs}
<1>0. MaxOrder \in Nat
  BY PlanningAssumption
<1>1. T \subseteq Nat /\ T # {}
  BY <1>0 DEF Stops
<1>2. \A x, y \in Nat : y < x => <<y, x>> \in R
  BY DEF OpToRel
<1>3. IsWellFoundedOn(R, Nat)
  BY NatLessThanWellFounded, Zenon
<1> HIDE DEF R
<1>4. PICK x \in T : \A y \in T : ~(<<y, x>> \in R)
  <2> HIDE DEF T
  <2> QED
    BY <1>1, <1>3, WFMin
<1>5. PICK k \in Jobs : x = MaxOrder - s[k]
  BY <1>4
<1>6. \A j \in Jobs : s[j] <= s[k]
  <2> SUFFICES ASSUME NEW j \in Jobs, s[k] < s[j] PROVE FALSE
    BY DEF Stops
  <2>1. s[j] \in 0..MaxOrder /\ s[k] \in 0..MaxOrder
    BY DEF Stops
  <2>2. MaxOrder - s[j] \in Nat /\ x \in Nat /\ MaxOrder - s[j] < x /\ MaxOrder - s[j] \in T
    BY <1>0, <1>5, <2>1
  <2> HIDE DEF T
  <2> QED
    BY <1>2, <1>4, <2>2
<1>7. \E n \in {s[j] : j \in Jobs} : \A j \in Jobs : s[j] <= n
  BY <1>6
<1>8. Largest(s) \in {s[j] : j \in Jobs} /\ \A j \in Jobs : s[j] <= Largest(s)
  BY <1>7 DEF Largest
<1> QED
  BY <1>8 DEF Stops

\* A stop that is left moves up to its rank among those that are.
Rank(s, left, j) == Cardinality({k \in left : s[k] <= s[j]})

LEMMA RankBounds ==
    ASSUME NEW s \in Stops, NEW left \in SUBSET Jobs,
           \A j, k \in left : s[j] = s[k] => j = k,
           \A j \in left : s[j] # 0,
           NEW j \in left
    PROVE  Rank(s, left, j) \in 1..MaxOrder
<1> DEFINE S == {k \in left : s[k] <= s[j]}
           f == [k \in S |-> s[k]]
<1>1. s[j] \in 1..MaxOrder /\ MaxOrder \in Nat
  BY PlanningAssumption DEF Stops
<1>2. \A k \in S : s[k] \in 1..MaxOrder
  BY DEF Stops
<1>3. f \in [S -> 1..MaxOrder] /\ \A k, l \in S : f[k] = f[l] => k = l
  <2>1. \A k, l \in S : s[k] = s[l] => k = l
    OBVIOUS
  <2> HIDE DEF S
  <2> QED
    BY <1>2, <2>1
<1>4. f \in Injection(S, 1..MaxOrder)
  <2> HIDE DEF f, S
  <2> QED
    BY <1>3 DEF Injection, IsInjective
<1>5. IsFiniteSet(1..MaxOrder) /\ Cardinality(1..MaxOrder) <= MaxOrder
  BY <1>1, FS_Interval
<1>6. IsFiniteSet(S) /\ Cardinality(S) <= Cardinality(1..MaxOrder)
  <2> HIDE DEF f, S
  <2> QED
    BY <1>4, <1>5, FS_Injection
<1>7. j \in S
  BY <1>1
<1>8. Cardinality(S) \in Nat /\ Cardinality(S) # 0
  <2> HIDE DEF f, S
  <2> QED
    BY <1>6, <1>7, FS_CardinalityType, FS_EmptySet
<1>9. Cardinality(1..MaxOrder) \in Nat
  BY <1>5, FS_CardinalityType
<1> HIDE DEF f
<1> QED
  BY <1>1, <1>5, <1>6, <1>8, <1>9 DEF Rank

LEMMA RankGrows ==
    ASSUME NEW s \in Stops, NEW left \in SUBSET Jobs, NEW j \in left, NEW k \in left,
           s[j] < s[k]
    PROVE  Rank(s, left, j) < Rank(s, left, k)
<1> DEFINE S(i) == {l \in left : s[l] <= s[i]}
<1>1. IsFiniteSet(left)
  BY PlanningAssumption, FS_Subset
<1>2. IsFiniteSet(S(j)) /\ IsFiniteSet(S(k))
  BY <1>1, FS_Subset
<1>3. k \notin S(j) /\ S(j) \cup {k} \subseteq S(k)
  BY DEF Stops
<1>4. Cardinality(S(j) \cup {k}) = Cardinality(S(j)) + 1 /\ IsFiniteSet(S(j) \cup {k})
  BY <1>2, <1>3, FS_AddElement
<1>5. Cardinality(S(j) \cup {k}) <= Cardinality(S(k))
  BY <1>2, <1>3, FS_Subset
<1>6. Cardinality(S(j)) \in Nat /\ Cardinality(S(k)) \in Nat
  BY <1>2, FS_CardinalityType
<1>7. Rank(s, left, j) = Cardinality(S(j)) /\ Rank(s, left, k) = Cardinality(S(k))
  BY DEF Rank
<1> HIDE DEF S
<1> QED
  BY <1>4, <1>5, <1>6, <1>7

\* What a plan's request has read has its type, and the stops of a plan have
\* places of their own: a removal then ranks them one by one.
PlanInv == PlanTypeOK /\ StopsHavePlaces

LEMMA WorkFields ==
    ASSUME PlanTypeOK, NEW w \in Writers, work[w] # None
    PROVE  /\ work[w].op = "branch" => work[w].branch \in Branches
           /\ work[w].op \in {"territory", "create"} => work[w].territory \in Territories
           /\ work[w].op = "property" => work[w].property \in Properties
                                         /\ work[w].crew \in Crews
           /\ work[w].op = "draft" => work[w].plan \in Plans
                                      /\ work[w].capacity \in 1..MaxCapacity
           /\ work[w].op \in {"assign", "remove", "reorder"} => work[w].plan \in Plans
           /\ work[w].op \in {"assign", "remove"} => work[w].job \in Jobs
           /\ work[w].op = "assign" => work[w].seen \in Stops
           /\ work[w].op = "reorder" => work[w].order \in Orders
BY DEF PlanTypeOK, Work

LEMMA WorkKinds ==
    /\ \A b \in Branches : [op |-> "branch", branch |-> b] \in Work
    /\ \A t \in Territories : /\ [op |-> "territory", territory |-> t] \in Work
                              /\ [op |-> "create", territory |-> t] \in Work
    /\ \A x \in Properties, c \in Crews :
          [op |-> "property", property |-> x, crew |-> c] \in Work
    /\ \A p \in Plans, n \in 1..MaxCapacity :
          [op |-> "draft", plan |-> p, capacity |-> n] \in Work
    /\ \A p \in Plans, j \in Jobs :
          /\ [op |-> "remove", plan |-> p, job |-> j] \in Work
          /\ \A s \in Stops : [op |-> "assign", plan |-> p, job |-> j, seen |-> s] \in Work
    /\ \A p \in Plans, s \in Orders : [op |-> "reorder", plan |-> p, order |-> s] \in Work
BY DEF Work

LEMMA WorkBegins ==
    ASSUME PlanTypeOK, NEW w \in Writers, NEW q \in Work, Begins(w, q)
    PROVE  work' \in [Writers -> Work \cup {None}]
BY DEF PlanTypeOK, Begins

LEMMA WorkEnds ==
    ASSUME PlanTypeOK, NEW w \in Writers, NEW op, Does(w, op)
    PROVE  work' \in [Writers -> Work \cup {None}] /\ work[w] # None /\ work[w].op = op
BY DEF PlanTypeOK, Does

LEMMA PlanSame == ASSUME PlanInv, UNCHANGED planVars PROVE PlanInv'
BY DEF PlanInv, PlanTypeOK, StopsHavePlaces, planVars

LEMMA HierarchyTypes ==
    ASSUME PlanInv, HierarchyStep
    PROVE  PlanInv'
<1>0. PlanTypeOK
  BY DEF PlanInv
<1>1. ASSUME UNCHANGED <<crew, assigned, plan, stop, held>>,
             branch' \in [Branches -> Lifecycle], territory' \in [Territories -> Lifecycle],
             work' \in [Writers -> Work \cup {None}]
      PROVE  PlanInv'
  BY <1>1 DEF PlanInv, PlanTypeOK, StopsHavePlaces
<1>2. ASSUME NEW b \in Branches, create_organization_branch(b) PROVE PlanInv'
  BY <1>0, <1>1, <1>2 DEF create_organization_branch, PlanTypeOK, Lifecycle
<1>3. ASSUME NEW w \in Writers, NEW t \in Territories, create_service_territory(w, t)
      PROVE  PlanInv'
  BY <1>0, <1>1, <1>3, WorkBegins, WorkKinds DEF create_service_territory, PlanTypeOK
<1>4. ASSUME NEW w \in Writers, NEW b \in Branches, NEW s \in {"active", "inactive"},
             update_organization_branch_status(w, b, s)
      PROVE  PlanInv'
  <2>1. /\ UNCHANGED <<territory, crew, assigned, plan, stop, held>>
        /\ \/ Begins(w, [op |-> "branch", branch |-> b]) /\ UNCHANGED branch
           \/ branch' = [branch EXCEPT ![b] = "active"] /\ UNCHANGED work
    BY <1>4 DEF update_organization_branch_status, CheckBranchScope
  <2> QED
    BY <1>0, <1>1, <2>1, WorkBegins, WorkKinds DEF PlanTypeOK, Lifecycle
<1>5. ASSUME NEW w \in Writers, NEW t \in Territories, NEW s \in {"active", "inactive"},
             update_service_territory_status(w, t, s)
      PROVE  PlanInv'
  <2>1. /\ UNCHANGED <<branch, crew, assigned, plan, stop, held>>
        /\ \/ Begins(w, [op |-> "territory", territory |-> t]) /\ UNCHANGED territory
           \/ territory' = [territory EXCEPT ![t] = "active"] /\ UNCHANGED work
    BY <1>5 DEF update_service_territory_status, CheckTerritoryScope
  <2> QED
    BY <1>0, <1>1, <2>1, WorkBegins, WorkKinds DEF PlanTypeOK, Lifecycle
<1>6. ASSUME NEW w \in Writers, InsertTerritory(w) PROVE PlanInv'
  <2>1. Does(w, "create") /\ UNCHANGED <<branch, crew, assigned, plan, stop, held>>
        /\ \/ UNCHANGED territory
           \/ territory' = [territory EXCEPT ![work[w].territory] = "active"]
    BY <1>6 DEF InsertTerritory
  <2> QED
    BY <1>0, <1>1, <2>1, WorkEnds DEF PlanTypeOK, Lifecycle
<1>7. ASSUME NEW w \in Writers, DeactivateBranch(w) PROVE PlanInv'
  BY <1>0, <1>1, <1>7, WorkEnds DEF DeactivateBranch, PlanTypeOK, Lifecycle
<1>8. ASSUME NEW w \in Writers, DeactivateTerritory(w) PROVE PlanInv'
  BY <1>0, <1>1, <1>8, WorkEnds DEF DeactivateTerritory, PlanTypeOK, Lifecycle
<1> QED
  BY <1>2, <1>3, <1>4, <1>5, <1>6, <1>7, <1>8 DEF HierarchyStep

LEMMA CrewTypes ==
    ASSUME PlanInv, CrewSetup
    PROVE  PlanInv'
<1>1. PlanShape
  BY DEF PlanInv, PlanTypeOK, PlanShape, Stops
<1>2. crew' \in [Crews -> Crew]
  BY <1>1, CrewSetupKeeps DEF PlanShape
<1>3. UNCHANGED <<branch, territory, assigned, plan, stop, work, held>>
  BY DEF CrewSetup, create_organization_crew, update_organization_crew
<1> QED
  BY <1>2, <1>3 DEF PlanInv, PlanTypeOK, StopsHavePlaces

LEMMA AssignmentTypes ==
    ASSUME PlanInv, NEW w \in Writers,
           \/ insert_property_crew_assignment(w)
           \/ \E x \in Properties, c \in Crews : assign_property_crew(w, x, c)
    PROVE  PlanInv'
<1>0. PlanTypeOK
  BY DEF PlanInv
<1>1. ASSUME insert_property_crew_assignment(w) PROVE PlanInv'
  <2>1. Does(w, "property") /\ UNCHANGED <<branch, territory, crew, plan, stop, held>>
        /\ assigned' = [assigned EXCEPT ![work[w].property] = work[w].crew]
    BY <1>1 DEF insert_property_crew_assignment
  <2>2. work' \in [Writers -> Work \cup {None}] /\ work[w].crew \in Crews
    BY <1>0, <2>1, WorkEnds, WorkFields
  <2> QED
    BY <2>1, <2>2 DEF PlanInv, PlanTypeOK, StopsHavePlaces
<1>2. ASSUME NEW x \in Properties, NEW c \in Crews, assign_property_crew(w, x, c)
      PROVE  PlanInv'
  <2>1. work' \in [Writers -> Work \cup {None}]
        /\ UNCHANGED <<branch, territory, crew, assigned, plan, stop, held>>
    BY <1>0, <1>2, WorkBegins, WorkKinds DEF assign_property_crew
  <2> QED
    BY <2>1 DEF PlanInv, PlanTypeOK, StopsHavePlaces
<1> QED
  BY <1>1, <1>2

\* A plan's stops are replaced by others of a place each.
LEMMA StopsReplaced ==
    ASSUME PlanInv, NEW p \in Plans, NEW s \in Stops,
           \A j, k \in Jobs : s[j] # 0 /\ s[j] = s[k] => j = k,
           stop' = [stop EXCEPT ![p] = s],
           work' \in [Writers -> Work \cup {None}],
           UNCHANGED <<branch, territory, crew, assigned, plan, held>>
    PROVE  PlanInv'
BY DEF PlanInv, PlanTypeOK, StopsHavePlaces

\* Only the work of a request is different.
LEMMA OnlyWork ==
    ASSUME PlanInv, work' \in [Writers -> Work \cup {None}],
           UNCHANGED <<branch, territory, crew, assigned, plan, stop, held>>
    PROVE  PlanInv'
BY DEF PlanInv, PlanTypeOK, StopsHavePlaces

LEMMA AssignStopTypes ==
    ASSUME PlanInv, NEW w \in Writers, AssignStop(w)
    PROVE  PlanInv'
<1> DEFINE q == work[w]
           n == Largest(q.seen) + 1
<1>1. /\ Does(w, "assign") /\ UNCHANGED <<branch, territory, crew, assigned, plan, held>>
      /\ \/ UNCHANGED stop
         \/ /\ stop[q.plan][q.job] = 0 /\ n <= MaxOrder
            /\ \A k \in Jobs : stop[q.plan][k] # n
            /\ stop' = [stop EXCEPT ![q.plan][q.job] = n]
  BY DEF AssignStop
<1>2. /\ work' \in [Writers -> Work \cup {None}]
      /\ q.plan \in Plans /\ q.job \in Jobs /\ q.seen \in Stops
  BY <1>1, WorkEnds, WorkFields DEF PlanInv
<1>3. n \in Nat \ {0}
  BY <1>2, LargestBounds, PlanningAssumption
<1> HIDE DEF n, q
<1>4. CASE UNCHANGED stop
  BY <1>1, <1>2, <1>4, OnlyWork
<1>5. CASE /\ n <= MaxOrder /\ \A k \in Jobs : stop[q.plan][k] # n
           /\ stop' = [stop EXCEPT ![q.plan][q.job] = n]
  <2> DEFINE s == [stop[q.plan] EXCEPT ![q.job] = n]
  <2>1. stop[q.plan] \in Stops
    BY <1>2 DEF PlanInv, PlanTypeOK
  <2>2. s \in Stops
    <3>1. n \in 0..MaxOrder
      BY <1>3, <1>5, PlanningAssumption
    <3> QED
      BY <2>1, <3>1 DEF Stops
  <2>3. \A j, k \in Jobs : s[j] # 0 /\ s[j] = s[k] => j = k
    <3>1. \A j, k \in Jobs :
             stop[q.plan][j] # 0 /\ stop[q.plan][j] = stop[q.plan][k] => j = k
      BY <1>2 DEF PlanInv, StopsHavePlaces
    <3>2. s[q.job] = n /\ \A j \in Jobs : j # q.job => s[j] = stop[q.plan][j]
      BY <1>2, <2>1 DEF Stops
    <3> HIDE DEF s
    <3> QED
      BY <1>5, <3>1, <3>2
  <2>4. stop' = [stop EXCEPT ![q.plan] = s]
    BY <1>2, <1>5 DEF PlanInv, PlanTypeOK
  <2> HIDE DEF s
  <2> QED
    BY <1>1, <1>2, <2>2, <2>3, <2>4, StopsReplaced
<1> QED
  BY <1>1, <1>4, <1>5

LEMMA RemoveStopTypes ==
    ASSUME PlanInv, NEW w \in Writers, RemoveStop(w)
    PROVE  PlanInv'
<1> DEFINE p == work[w].plan
           j0 == work[w].job
           left == Listed(p) \ {j0}
           less == [j \in Jobs |-> IF j \in left THEN Rank(stop[p], left, j) ELSE 0]
<1>1. /\ Does(w, "remove") /\ UNCHANGED <<branch, territory, crew, assigned, plan, held>>
      /\ stop' = [stop EXCEPT ![p] = IF stop[p][j0] = 0 THEN @ ELSE less]
  BY DEF RemoveStop, Rank
<1>2. work' \in [Writers -> Work \cup {None}] /\ p \in Plans /\ j0 \in Jobs
  BY <1>1, WorkEnds, WorkFields DEF PlanInv
<1>3. stop[p] \in Stops
  BY <1>2 DEF PlanInv, PlanTypeOK
<1>4. /\ left \in SUBSET Jobs
      /\ \A j \in left : stop[p][j] # 0
      /\ \A j, k \in left : stop[p][j] = stop[p][k] => j = k
  BY <1>2 DEF Listed, PlanInv, StopsHavePlaces
<1> HIDE DEF p, j0, left
<1>5. \A j \in left : Rank(stop[p], left, j) \in 1..MaxOrder
  BY <1>3, <1>4, RankBounds
<1>6. \A j, k \in left : Rank(stop[p], left, j) = Rank(stop[p], left, k) => j = k
  <2> SUFFICES ASSUME NEW j \in left, NEW k \in left, j # k,
                      Rank(stop[p], left, j) = Rank(stop[p], left, k)
               PROVE  FALSE
    OBVIOUS
  <2>1. stop[p][j] < stop[p][k] \/ stop[p][k] < stop[p][j]
    BY <1>3, <1>4 DEF Stops
  <2>2. \/ Rank(stop[p], left, j) < Rank(stop[p], left, k)
        \/ Rank(stop[p], left, k) < Rank(stop[p], left, j)
    BY <1>3, <1>4, <2>1, RankGrows
  <2>3. Rank(stop[p], left, j) \in Int /\ Rank(stop[p], left, k) \in Int
    BY <1>5
  <2> QED
    BY <2>2, <2>3
<1>7. less \in Stops
  BY <1>5, PlanningAssumption DEF Stops
<1>8. \A j, k \in Jobs : less[j] # 0 /\ less[j] = less[k] => j = k
  BY <1>5, <1>6
<1> HIDE DEF less
<1>9. CASE stop[p][j0] = 0
  <2>1. stop' = stop
    BY <1>1, <1>9 DEF PlanInv, PlanTypeOK
  <2> QED
    BY <1>1, <1>2, <2>1, OnlyWork
<1>10. CASE stop[p][j0] # 0
  BY <1>1, <1>2, <1>7, <1>8, <1>10, StopsReplaced
<1> QED
  BY <1>9, <1>10

LEMMA ReorderTypes ==
    ASSUME PlanInv, NEW w \in Writers, ReorderStops(w)
    PROVE  PlanInv'
<1> DEFINE p == work[w].plan
           s == work[w].order
           ordered(j) == plan[p].status = "draft" /\ j \in {s[n] : n \in DOMAIN s}
           Placed(j) == IF ordered(j) THEN CHOOSE n \in DOMAIN s : s[n] = j
                        ELSE stop[p][j] + Shift
           next == [j \in Jobs |-> IF stop[p][j] = 0 THEN 0 ELSE Placed(j)]
<1>1. /\ Does(w, "reorder") /\ UNCHANGED <<branch, territory, crew, assigned, plan, held>>
      /\ Largest(stop[p]) + Shift <= MaxOrder
      /\ stop' = [stop EXCEPT ![p] = next]
  BY DEF ReorderStops
<1>2. work' \in [Writers -> Work \cup {None}] /\ p \in Plans /\ s \in Orders
  BY <1>1, WorkEnds, WorkFields DEF PlanInv
<1>3. stop[p] \in Stops
  BY <1>2 DEF PlanInv, PlanTypeOK
<1>4. \A j, k \in Jobs : stop[p][j] # 0 /\ stop[p][j] = stop[p][k] => j = k
  BY <1>2 DEF PlanInv, StopsHavePlaces
<1>5. \A n \in DOMAIN s : n \in 1..Cardinality(Jobs)
  <2>1. PICK m \in 1..Cardinality(Jobs) : s \in [1..m -> Jobs]
    BY <1>2 DEF Orders
  <2>2. Cardinality(Jobs) \in Nat
    BY PlanningAssumption, FS_CardinalityType
  <2> HIDE DEF s
  <2> QED
    BY <2>1, <2>2
<1> HIDE DEF p, s
<1>6. \A j \in Jobs : ordered(j) =>
         /\ Placed(j) \in 1..Cardinality(Jobs) /\ s[Placed(j)] = j
         /\ Placed(j) < Shift
  <2> SUFFICES ASSUME NEW j \in Jobs, ordered(j)
               PROVE  /\ Placed(j) \in 1..Cardinality(Jobs) /\ s[Placed(j)] = j
                      /\ Placed(j) < Shift
    OBVIOUS
  <2>1. PICK n \in DOMAIN s : s[n] = j
    OBVIOUS
  <2>2. Placed(j) \in DOMAIN s /\ s[Placed(j)] = j
    BY <2>1
  <2>3. Cardinality(Jobs) \in Nat
    BY PlanningAssumption, FS_CardinalityType
  <2> HIDE DEF Placed
  <2> QED
    BY <1>5, <2>2, <2>3, PlanningAssumption
<1>7. \A j \in Jobs : /\ stop[p][j] \in 0..MaxOrder
                      /\ stop[p][j] + Shift <= MaxOrder
  <2> SUFFICES ASSUME NEW j \in Jobs
               PROVE  stop[p][j] \in 0..MaxOrder /\ stop[p][j] + Shift <= MaxOrder
    OBVIOUS
  <2>1. Largest(stop[p]) \in 0..MaxOrder /\ stop[p][j] <= Largest(stop[p])
    BY <1>3, LargestBounds
  <2>2. stop[p][j] \in 0..MaxOrder
    BY <1>3 DEF Stops
  <2> QED
    BY <1>1, <2>1, <2>2, PlanningAssumption
<1>8. \A j \in Jobs : ~ordered(j) => Placed(j) = stop[p][j] + Shift
  OBVIOUS
<1> HIDE DEF Placed, ordered
<1>9. \A j \in Jobs : Placed(j) \in 0..MaxOrder
  <2>1. Cardinality(Jobs) \in Nat
    BY PlanningAssumption, FS_CardinalityType
  <2> QED
    BY <1>6, <1>7, <1>8, <2>1, PlanningAssumption
<1>10. next \in Stops
  BY <1>9, PlanningAssumption DEF Stops
<1>11. \A j, k \in Jobs : next[j] # 0 /\ next[j] = next[k] => j = k
  <2> SUFFICES ASSUME NEW j \in Jobs, NEW k \in Jobs, next[j] # 0, next[j] = next[k]
               PROVE  j = k
    OBVIOUS
  <2>1. /\ stop[p][j] # 0 /\ stop[p][k] # 0
        /\ Placed(j) = Placed(k)
    OBVIOUS
  <2> HIDE DEF next
  <2>2. CASE ordered(j) /\ ordered(k)
    BY <1>6, <2>1, <2>2
  <2>3. CASE ~ordered(j) /\ ~ordered(k)
    <3>1. stop[p][j] = stop[p][k]
      BY <1>7, <1>8, <2>1, <2>3, PlanningAssumption
    <3> QED
      BY <1>4, <2>1, <3>1
  <2>4. ASSUME NEW a \in Jobs, NEW b \in Jobs, ordered(a), ~ordered(b),
               stop[p][b] # 0, Placed(a) = Placed(b)
        PROVE  FALSE
    <3>1. Placed(a) < Shift /\ Placed(b) = stop[p][b] + Shift
      BY <1>6, <1>8, <2>4
    <3>2. Shift \in Nat /\ stop[p][b] \in Nat /\ stop[p][b] > 0
      BY <1>7, <2>4, PlanningAssumption
    <3> QED
      BY <2>4, <3>1, <3>2
  <2> QED
    BY <2>1, <2>2, <2>3, <2>4
<1> HIDE DEF next
<1> QED
  BY <1>1, <1>2, <1>10, <1>11, StopsReplaced

LEMMA RouteTypes ==
    ASSUME PlanInv, RouteStep
    PROVE  PlanInv'
<1>0. PlanTypeOK
  BY DEF PlanInv
<1>1. ASSUME NEW p \in Plans, publish_day_plan(p) PROVE PlanInv'
  <2> DEFINE row == [plan[p] EXCEPT !.status = "published"]
  <2>1. /\ plan' = [plan EXCEPT ![p] = row]
        /\ UNCHANGED <<branch, territory, crew, assigned, stop, work, held>>
    BY <1>0, <1>1 DEF publish_day_plan, PublishDayPlan, PlanTypeOK
  <2>2. row \in Plan
    BY <1>0 DEF PlanTypeOK, Plan
  <2> HIDE DEF row
  <2> QED
    BY <2>1, <2>2 DEF PlanInv, PlanTypeOK, StopsHavePlaces
<1>2. ASSUME NEW w \in Writers, InsertDraft(w) PROVE PlanInv'
  <2> DEFINE row == [status |-> "draft", capacity |-> work[w].capacity]
  <2>1. /\ Does(w, "draft") /\ UNCHANGED <<branch, territory, crew, assigned, stop, held>>
        /\ UNCHANGED plan \/ plan' = [plan EXCEPT ![work[w].plan] = row]
    BY <1>2 DEF InsertDraft
  <2>2. work' \in [Writers -> Work \cup {None}] /\ work[w].capacity \in 1..MaxCapacity
    BY <1>0, <2>1, WorkEnds, WorkFields
  <2>3. row \in Plan
    BY <2>2, PlanningAssumption DEF Plan
  <2> HIDE DEF row
  <2> QED
    BY <2>1, <2>2, <2>3 DEF PlanInv, PlanTypeOK, StopsHavePlaces
<1>3. ASSUME NEW w \in Writers, NEW p \in Plans,
             \/ create_draft_day_plan(w, p)
             \/ \E j \in Jobs : assign_day_plan_stop(w, p, j) \/ remove_day_plan_stop(w, p, j)
             \/ \E s \in Orders : reorder_day_plan_stops(w, p, s)
      PROVE  PlanInv'
  <2>1. UNCHANGED <<branch, territory, crew, assigned, plan, stop, held>>
    BY <1>3 DEF create_draft_day_plan, assign_day_plan_stop, remove_day_plan_stop,
                reorder_day_plan_stops
  <2>2. PICK q \in Work : Begins(w, q)
    <3>1. CASE create_draft_day_plan(w, p)
      <4>1. crew[CrewOf[p]].capacity \in 1..MaxCapacity
        BY <1>0, PlanningAssumption DEF PlanTypeOK, Crew
      <4> QED
        BY <3>1, <4>1, WorkKinds DEF create_draft_day_plan
    <3>2. ASSUME NEW j \in Jobs, assign_day_plan_stop(w, p, j)
          PROVE  \E q \in Work : Begins(w, q)
      <4>1. stop[p] \in Stops
        BY <1>0 DEF PlanTypeOK
      <4> QED
        BY <3>2, <4>1, WorkKinds DEF assign_day_plan_stop
    <3>3. ASSUME NEW j \in Jobs, remove_day_plan_stop(w, p, j)
          PROVE  \E q \in Work : Begins(w, q)
      BY <3>3, WorkKinds DEF remove_day_plan_stop
    <3>4. ASSUME NEW s \in Orders, reorder_day_plan_stops(w, p, s)
          PROVE  \E q \in Work : Begins(w, q)
      BY <3>4, WorkKinds DEF reorder_day_plan_stops
    <3> QED
      BY <1>3, <3>1, <3>2, <3>3, <3>4
  <2> QED
    BY <1>0, <2>1, <2>2, WorkBegins, OnlyWork
<1> QED
  BY <1>1, <1>2, <1>3, AssignStopTypes, RemoveStopTypes, ReorderTypes DEF RouteStep

\* A request of the dispatch holds rows of crews, and lets go of them.
LEMMA HeldTypes ==
    ASSUME PlanInv, DispatchTypeOK, DispatchStep
    PROVE  PlanInv'
<1>1. UNCHANGED <<branch, territory, crew, assigned, plan, stop, work>>
  BY DEF DispatchStep, complete_dispatch_customer_notification, StartJob, CompleteJob,
         update_job_dispatch_assignment, LockMove, update_dispatch_assignment,
         TellCustomer, planned
<1>2. held' \in [Crews -> Writers \cup {None}]
  <2>0. held \in [Crews -> Writers \cup {None}]
    BY DEF PlanInv, PlanTypeOK
  <2>1. ASSUME NEW w \in Writers, LockMove(w) PROVE held' \in [Crews -> Writers \cup {None}]
    <3>1. UNCHANGED held \/ held' = [held EXCEPT ![dispatch[w].crew] = w]
      BY <2>1 DEF LockMove
    <3> QED
      BY <2>0, <3>1
  <2>2. ASSUME NEW w \in Writers, update_dispatch_assignment(w)
        PROVE  held' \in [Crews -> Writers \cup {None}]
    <3>1. held' = [held EXCEPT ![dispatch[w].crew] = None]
      BY <2>2 DEF update_dispatch_assignment
    <3> QED
      BY <2>0, <3>1
  <2>3. \/ UNCHANGED held
        \/ \E w \in Writers : LockMove(w) \/ update_dispatch_assignment(w)
    BY DEF DispatchStep, complete_dispatch_customer_notification, StartJob, CompleteJob,
           update_job_dispatch_assignment, TellCustomer
  <2> QED
    BY <2>0, <2>1, <2>2, <2>3
<1> QED
  BY <1>1, <1>2 DEF PlanInv, PlanTypeOK, StopsHavePlaces

LEMMA ServicePlanning == ASSUME ServiceStep PROVE UNCHANGED planVars
<1>1. UNCHANGED <<branch, territory, crew, assigned, plan, stop, work, held>>
  BY DEF ServiceStep, ConfirmVisit, release_provider_initial_service,
         release_initial_service, CheckPublication, publish_customer_service_day_event,
         jobVars, planned
<1> QED
  BY <1>1 DEF planVars

\* An archive takes a property from its crew.
LEMMA RecordsTypes ==
    ASSUME PlanInv, RecordsStep
    PROVE  PlanInv'
<1>1. ASSUME NEW w \in Writers, update_property_status(w) PROVE PlanInv'
  <2>1. /\ UNCHANGED <<branch, territory, crew, plan, stop, work, held>>
        /\ \/ UNCHANGED assigned
           \/ assigned' = [assigned EXCEPT ![asked[w].property] = None]
    BY <1>1 DEF update_property_status
  <2> QED
    BY <2>1 DEF PlanInv, PlanTypeOK, StopsHavePlaces
<1>2. CASE AccountStep
  <2>1. UNCHANGED planVars
    BY <1>2 DEF AccountStep, create_customer_account, archive_customer_account,
                archive_account, reactivate_customer_account, CompleteWork
  <2> QED
    BY <2>1, PlanSame
<1>3. CASE PropertyStep
  <2>1. \/ UNCHANGED planVars
        \/ \E w \in Writers :
              \/ update_property_status(w) \/ insert_property_crew_assignment(w)
              \/ \E x \in Properties, c \in Crews : assign_property_crew(w, x, c)
    BY <1>3 DEF PropertyStep, create_property, ScheduleJob, create_customer_property,
                ReleaseWork, update_customer_property_status, AssignCrew
  <2> QED
    BY <1>1, <2>1, PlanSame, AssignmentTypes
<1>4. ASSUME NEW x \in Properties, NEW status \in ProfileStatus \ {"none"},
             upsert_property_onboarding(x, status)
      PROVE  PlanInv'
  BY <1>4, PlanSame DEF upsert_property_onboarding
<1> QED
  BY <1>2, <1>3, <1>4 DEF RecordsStep

LEMMA PlanStart == PlanInit => PlanInv
<1> SUFFICES ASSUME PlanInit PROVE PlanInv
  OBVIOUS
<1>1. crew \in [Crews -> Crew]
  BY ShapeStart DEF PlanShape
<1>2. PlanTypeOK
  BY <1>1, PlanningAssumption DEF PlanInit, PlanTypeOK, Lifecycle, Plan, Stops
<1> QED
  BY <1>2 DEF PlanInit, PlanInv, StopsHavePlaces

-----------------------------------------------------------------------------
(* The persons of memberships, and their enrollments.                      *)

\* An invitation has an address and a membership a person once they are made,
\* and an enrollment a unit and a version.
HasPersons ==
    /\ \A i \in Invites : invite[i].status # "none" => invite[i].email \in Mailboxes
    /\ \A x \in Rows : member[x].status # "none" => member[x].user \in Person
HasUnits ==
    \A p \in Person \X Roles : enrollment[p].status # "none" =>
        enrollment[p].unit # 0 /\ enrollment[p].version # 0
EnrollmentInv == RolloutTypeOK /\ HasUnits /\ RolloutInv

LEMMA OneMembership ==
    ASSUME TypeOK, HasPersons, NEW x \in Rows, NEW m, member' = [member EXCEPT ![x] = m],
           UNCHANGED invite, m.status # "none" => m.user \in Person
    PROVE  HasPersons'
BY DEF TypeOK, HasPersons

LEMMA OneInvitation ==
    ASSUME TypeOK, HasPersons, NEW i \in Invites, NEW v,
           invite' = [invite EXCEPT ![i] = v], v.status # "none" => v.email \in Mailboxes,
           \/ UNCHANGED member
           \/ \E m : /\ member' = [member EXCEPT ![i] = m]
                     /\ m.status # "none" => m.user \in Person
    PROVE  HasPersons'
BY DEF TypeOK, HasPersons, Rows

LEMMA PersonsKeep ==
    ASSUME StaffInv, HasPersons, [Next]_vars
    PROVE  HasPersons'
<1>0. ASSUME UNCHANGED <<member, invite>> PROVE HasPersons'
  BY <1>0 DEF HasPersons
<1> TypeOK
  BY DEF StaffInv
<1>1. ASSUME NEW u \in Users, bootstrap_organization(u) PROVE HasPersons'
  <2>1. /\ member' = [member EXCEPT ![Founder] =
                         [user |-> u, role |-> "organization_owner", status |-> "active"]]
        /\ UNCHANGED invite /\ Founder \in Rows
    BY <1>1 DEF bootstrap_organization, CreateOrganization, Rows
  <2>2. u \in Person
    BY DEF Person
  <2> QED
    BY <2>1, <2>2, OneMembership
<1>2. ASSUME NEW u \in Users, require_organization_membership(u) PROVE HasPersons'
  BY <1>0, <1>2 DEF require_organization_membership, rowVars
<1>3. ASSUME NEW i \in Invites, Lapse(i) PROVE HasPersons'
  <2>1. /\ invite' = [invite EXCEPT ![i] = [invite[i] EXCEPT !.lapsed = TRUE]]
        /\ invite[i].status = "pending" /\ UNCHANGED member
    BY <1>3 DEF Lapse, Live, TypeOK
  <2>2. /\ [invite[i] EXCEPT !.lapsed = TRUE].email = invite[i].email
        /\ invite[i].email \in Mailboxes
    BY <2>1 DEF TypeOK, Invite, HasPersons
  <2> QED
    BY <2>1, <2>2, OneInvitation
<1>4. ASSUME NEW i \in Invites, revoke_invitation(i) PROVE HasPersons'
  <2> DEFINE m == [member[i] EXCEPT !.status = "archived"]
             v == [invite[i] EXCEPT !.status = "revoked"]
  <2>1. /\ invite' = [invite EXCEPT ![i] = v] /\ invite[i].status = "pending"
        /\ \/ UNCHANGED member
           \/ member' = [member EXCEPT ![i] = m] /\ member[i].status = "invited"
    BY <1>4 DEF revoke_invitation, Live, TypeOK
  <2>2. v.email = invite[i].email /\ m.user = member[i].user /\ i \in Rows
    BY DEF TypeOK, Invite, Member, Rows
  <2>3. invite[i].email \in Mailboxes /\ (member[i].status = "invited" => m.user \in Person)
    BY <2>1, <2>2 DEF HasPersons
  <2> HIDE DEF m, v
  <2> QED
    BY <2>1, <2>2, <2>3, OneInvitation
<1>5. ASSUME NEW i \in Invites, reissue_invitation(i) PROVE HasPersons'
  <2> DEFINE m == [member[i] EXCEPT !.user = invite[i].email, !.status = "invited"]
             v == [invite[i] EXCEPT !.status = "pending", !.lapsed = FALSE,
                                    !.token = @ + 1]
  <2>1. /\ invite' = [invite EXCEPT ![i] = v] /\ invite[i].status # "none"
        /\ UNCHANGED member \/ member' = [member EXCEPT ![i] = m]
    BY <1>5 DEF reissue_invitation, TypeOK
  <2>2. v.email = invite[i].email /\ m.user = invite[i].email
    BY DEF TypeOK, Invite, Member, Rows
  <2>3. invite[i].email \in Mailboxes /\ m.user \in Person
    BY <2>1, <2>2 DEF HasPersons, Person
  <2> HIDE DEF m, v
  <2> QED
    BY <2>1, <2>2, <2>3, OneInvitation
<1>6. ASSUME NEW i \in Invites, NEW e \in Mailboxes, NEW role \in Roles,
             create_invitation(i, e, role)
      PROVE  HasPersons'
  <2> DEFINE m == [user |-> e, role |-> role, status |-> "invited"]
             v == [email |-> e, status |-> "pending", lapsed |-> FALSE, token |-> 1]
  <2>1. member' = [member EXCEPT ![i] = m] /\ invite' = [invite EXCEPT ![i] = v]
    BY <1>6 DEF create_invitation
  <2>2. m.user \in Person /\ v.email \in Mailboxes
    BY DEF Person
  <2> HIDE DEF m, v
  <2> QED
    BY <2>1, <2>2, OneInvitation
<1>7. ASSUME NEW i \in Invites, NEW u \in Users, NEW t \in 1..MaxTokens,
             accept_organization_invitation(u, i, t)
      PROVE  HasPersons'
  <2> DEFINE m == [member[i] EXCEPT !.user = u, !.status = "active"]
             v == [invite[i] EXCEPT !.status = "accepted"]
  <2>1. /\ invite' = [invite EXCEPT ![i] = v] /\ invite[i].status = "pending"
        /\ member' = [member EXCEPT ![i] = m]
    BY <1>7 DEF accept_organization_invitation, accept_invitation, Live, TypeOK
  <2>2. v.email = invite[i].email /\ m.user = u
    BY DEF TypeOK, Invite, Member, Rows
  <2>3. invite[i].email \in Mailboxes /\ m.user \in Person
    BY <2>1, <2>2 DEF HasPersons, Person
  <2> HIDE DEF m, v
  <2> QED
    BY <2>1, <2>2, <2>3, OneInvitation
<1>8. ASSUME NEW q, q.row \in Rows, Written(q), member[q.row].status # "none", UNCHANGED invite
      PROVE  HasPersons'
  <2> DEFINE x == q.row
             m == [member[x] EXCEPT !.status = q.to]
             n == [member[x] EXCEPT !.role = q.to]
  <2>1. \/ UNCHANGED member
        \/ member' = [member EXCEPT ![x] = m] \/ member' = [member EXCEPT ![x] = n]
    BY <1>8 DEF Written, TypeOK
  <2>2. m.user = member[x].user /\ n.user = member[x].user /\ member[x].user \in Person
    BY <1>8 DEF TypeOK, Member, HasPersons
  <2> HIDE DEF m, n
  <2> QED
    BY <1>0, <1>8, <2>1, <2>2, OneMembership
<1>9. ASSUME NEW r \in Requests, update_membership(r) \/ FinishOwnerChange(r)
      PROVE  HasPersons'
  <2>1. request[r] # None /\ UNCHANGED invite /\ request[r].row \in Rows
    BY <1>9 DEF update_membership, FinishOwnerChange, TypeOK, Change
  <2>2. \/ UNCHANGED member
        \/ Written(request[r]) /\ member[request[r].row].status # "none"
    <3>1. CASE update_membership(r)
      BY <3>1 DEF update_membership, Manageable
    <3>2. CASE FinishOwnerChange(r)
      BY <3>2 DEF FinishOwnerChange, StaffInv, OwnersCounted, HeldOwner, ActiveOwner
    <3> QED
      BY <1>9, <3>1, <3>2
  <2> QED
    BY <1>0, <1>8, <2>1, <2>2
<1>10. ASSUME NEW r \in Requests,
              \/ LockOwnerRow(r) \/ LockNextOwner(r) \/ AbortDeadlock(r)
              \/ \E u \in Users, x \in Rows :
                   \/ \E role \in Roles :
                         update_organization_membership_role(u, r, x, role)
                   \/ \E status \in {"active", "suspended"} :
                         update_organization_membership_status(u, r, x, status)
       PROVE  HasPersons'
  BY <1>0, <1>10 DEF LockOwnerRow, LockNextOwner, AbortDeadlock, BeginChange, rowVars,
                     update_organization_membership_role,
                     update_organization_membership_status
<1>11. CASE CheckStep
  BY <1>1, <1>2, <1>11 DEF CheckStep
<1>12. CASE InvitationStep
  BY <1>3, <1>4, <1>5, <1>6, <1>7, <1>12
     DEF InvitationStep, revoke_organization_invitation, reissue_organization_invitation,
         create_organization_invitation
<1>13. CASE ChangeStep
  BY <1>9, <1>10, <1>13 DEF ChangeStep
<1>14. CASE UNCHANGED vars
  BY <1>0, <1>14 DEF vars, rowVars
<1> QED
  BY <1>11, <1>12, <1>13, <1>14 DEF Next

\* The change of an enrollment is answered with what the event says.
LEMMA EnrollmentKeeps ==
    ASSUME TypeOK, HasPersons, EnrollmentInv, NEW u \in Users, NEW key \in Keys,
           NEW q \in Mutation, NEW x \in Rows, mutate_membership_workspace_rollout(u, key, q, x)
    PROVE  EnrollmentInv'
<1>0. RolloutInv' /\ RolloutTypeOK
  BY RolloutKeeps DEF mutate_membership_workspace_rollout, EnrollmentInv
<1>1. CASE Replay(u, key, q, x)
  <2>1. PICK v \in events : /\ answers' = answers \cup {ReplayAnswer(v)}
                            /\ UNCHANGED <<enrollment, events>>
    BY <1>1 DEF Replay, load_workspace_rollout_mutation_replay
  <2>2. ReplayAnswer(v) \in Answer
    BY <1>0 DEF RolloutTypeOK, Event, ReplayAnswer, Answer
  <2> QED
    BY <1>0, <2>1, <2>2 DEF EnrollmentInv, RolloutTypeOK, HasUnits
<1>2. CASE Apply(u, key, q, x)
  <2> DEFINE a == member[x].user
             b == member[x].role
             p == <<a, b>>
             e == enrollment[p]
             n == update_workspace_rollout_enrollment(e, q)
             v == [actor |-> u, key |-> key, person |-> p[1], role |-> p[2],
                   action |-> q.action, unit |-> n.unit, version |-> n.version]
             ans == [actor |-> u, key |-> key, unit |-> n.unit, version |-> n.version]
             D == Person \X Roles
  <2>1. /\ e.version < MaxVersion /\ Takes(e, q, member[x].status = "active")
        /\ enrollment' = [enrollment EXCEPT ![p] = n]
        /\ events' = events \cup {v} /\ answers' = answers \cup {ans}
        /\ member[x].status # "none" /\ request_shape_is_valid(q, b)
    BY <1>2 DEF Apply, mutate_membership_workspace_rollout
  <2>2. a \in Person /\ b \in Roles
    BY <2>1 DEF HasPersons, TypeOK, Member
  <2>3. p \in D /\ p[1] = a /\ p[2] = b
    BY <2>2
  <2>4. enrollment \in [D -> Enrollment] /\ events \subseteq Event /\ answers \subseteq Answer
    BY <1>0 DEF RolloutTypeOK
  <2>5. \A r \in D : enrollment[r].status # "none" =>
            enrollment[r].unit # 0 /\ enrollment[r].version # 0
    BY DEF EnrollmentInv, HasUnits
  <2> HIDE DEF D, p
  <2>6. e \in Enrollment /\ (e.status # "none" => e.unit # 0 /\ e.version # 0)
    BY <2>3, <2>4, <2>5
  <2> HIDE DEF a, b, e
  <2>7. q.action \in Actions /\ q.unit \in 0..MaxUnit
    BY DEF Mutation
  <2>8. q.unit = 0 => e.status # "none"
    BY <2>1, <2>7 DEF Takes, request_shape_is_valid, Actions
  <2>9. n \in Enrollment /\ n.unit \in 1..MaxUnit /\ n.version \in 1..MaxVersion
    BY <2>1, <2>6, <2>7, <2>8, RolloutAssumption
       DEF update_workspace_rollout_enrollment, Enrollment
  <2> HIDE DEF n
  <2>10. v \in Event /\ ans \in Answer
    BY <2>2, <2>3, <2>7, <2>9 DEF Event, Answer
  <2> HIDE DEF v, ans
  <2>11. RolloutTypeOK'
    BY <2>1, <2>4, <2>9, <2>10 DEF RolloutTypeOK, D
  <2>12. HasUnits'
    <3>1. \A r \in D : enrollment'[r] = IF r = p THEN n ELSE enrollment[r]
      BY <2>1, <2>3, <2>4
    <3>2. \A r \in D : enrollment'[r].status # "none" =>
              enrollment'[r].unit # 0 /\ enrollment'[r].version # 0
      BY <2>5, <2>9, <3>1, RolloutAssumption
    <3> QED
      BY <3>2 DEF HasUnits, D
  <2> QED
    BY <1>0, <2>11, <2>12 DEF EnrollmentInv
<1> QED
  BY <1>1, <1>2 DEF mutate_membership_workspace_rollout

LEMMA EnrollmentSame == ASSUME EnrollmentInv, UNCHANGED rolloutVars PROVE EnrollmentInv'
BY DEF EnrollmentInv, RolloutTypeOK, HasUnits, RolloutInv, ReplayAnswer, rolloutVars

LEMMA EnrollmentStart == Init /\ RolloutInit => HasPersons /\ EnrollmentInv
<1> SUFFICES ASSUME Init, RolloutInit PROVE HasPersons /\ EnrollmentInv
  OBVIOUS
<1>1. HasPersons
  BY DEF Init, HasPersons
<1>2. RolloutTypeOK /\ HasUnits
  BY RolloutAssumption DEF RolloutInit, RolloutTypeOK, HasUnits, Enrollment
<1>3. RolloutInv
  BY DEF RolloutInit, RolloutInv
<1> QED
  BY <1>1, <1>2, <1>3 DEF EnrollmentInv

-----------------------------------------------------------------------------
(* The organization as a whole.                                            *)

\* The events of the release fit their bound, and so will the one under way.
DayBounds ==
    /\ confirmed \in BOOLEAN /\ released \in BOOLEAN
    /\ access \subseteq Customers
    /\ Len(service_events) <= MaxEvents
    /\ publishing # None => Len(service_events) < MaxEvents

LEMMA BoundsSame ==
    ASSUME DayBounds, UNCHANGED <<confirmed, released, access, service_events, publishing>>
    PROVE  DayBounds'
BY DEF DayBounds

LEMMA BoundsStart == VisitInit => DayBounds
<1> SUFFICES ASSUME VisitInit PROVE DayBounds
  OBVIOUS
<1>1. /\ confirmed = FALSE /\ released = FALSE /\ access = Customers
      /\ publishing = None /\ service_events = <<>>
  BY DEF VisitInit
<1>2. Len(service_events) = 0
  BY <1>1
<1>3. Len(service_events) <= MaxEvents
  BY <1>2, VisitAssumption
<1> QED
  BY <1>1, <1>3 DEF DayBounds

LEMMA ServiceBounds ==
    ASSUME ServiceInv, DayBounds, ServiceStep
    PROVE  DayBounds'
<1>0. UNCHANGED access
  BY ServiceLeavesThread DEF threadVars
<1>1. CASE ConfirmVisit
  BY <1>0, <1>1 DEF ConfirmVisit, DayBounds
<1>2. ASSUME NEW d \in Days, release_provider_initial_service(d) PROVE DayBounds'
  BY <1>0, <1>2 DEF release_provider_initial_service, release_initial_service, DayBounds
<1>3. ASSUME NEW d \in Days, NEW w \in Writers, NEW kind \in EventKind,
             CheckPublication(w, kind, d)
      PROVE  DayBounds'
  BY <1>0, <1>3 DEF CheckPublication, DayBounds
<1>4. CASE publish_customer_service_day_event
  <2>1. /\ publishing # None /\ publishing' = None /\ UNCHANGED <<confirmed, released>>
        /\ service_events' = Append(service_events, publishing.kind)
    BY <1>4 DEF publish_customer_service_day_event
  <2>2. service_events \in Seq(EventKind) /\ publishing.kind \in EventKind
    BY <2>1 DEF ServiceInv, PublicationInv, Publication
  <2>3. Len(service_events') = Len(service_events) + 1 /\ Len(service_events) \in Nat
    BY <2>1, <2>2
  <2> QED
    BY <1>0, <2>1, <2>3, VisitAssumption DEF DayBounds
<1> QED
  BY <1>1, <1>2, <1>3, <1>4 DEF ServiceStep

LEMMA ThreadBounds ==
    ASSUME DayBounds, ThreadStep, UNCHANGED serviceVars
    PROVE  DayBounds'
<1>1. access' \subseteq access
  BY DEF ThreadStep, SuspendCustomer, HandleMessage, PageStep, loadThread, EditBody,
         LoseAnswer, AfterSuccess, AfterFailure, Submit
<1> QED
  BY <1>1 DEF DayBounds, serviceVars

OrganizationInv ==
    /\ StaffInv /\ HasPersons /\ EnrollmentInv
    /\ PlanInv /\ RecordsInv
    /\ ServiceInv /\ DayBounds /\ ThreadInv

LEMMA OrganizationStart == OrganizationInit => OrganizationInv
BY StaffStart, EnrollmentStart, PlanStart, RecordsStart, ServiceStart, BoundsStart,
   ThreadStart DEF OrganizationInit, OrganizationInv

\* What a step leaves alone stays as it was.
LEMMA StaffSame == ASSUME StaffInv, HasPersons, UNCHANGED vars PROVE StaffInv' /\ HasPersons'
BY StaffStep, PersonsKeep

LEMMA ServiceSame ==
    ASSUME ServiceInv, DayBounds, ThreadInv, UNCHANGED <<dispatchVars, visitVars>>
    PROVE  ServiceInv' /\ DayBounds' /\ ThreadInv' /\ TellsTrue
<1>1. UNCHANGED serviceVars /\ UNCHANGED <<confirmed, released, service_events, publishing>>
      /\ UNCHANGED <<access, thread, page, wire>>
  BY DEF visitVars, serviceVars, threadVars
<1> QED
  BY <1>1, ServiceStepKeeps, BoundsSame, ThreadKeeps

LEMMA RecordsSame ==
    ASSUME RecordsInv, UNCHANGED <<work, assigned>>, UNCHANGED recordVars
    PROVE  RecordsInv'
<1>1. UNCHANGED <<assigned, account, property, profile, serving, archiving, asked, overtaken>>
  BY DEF recordVars
<1> QED
  BY <1>1, SameOther, PlanningKeeps DEF RecordsInv, WorkFits

\* The check that a change of the rollout passed is used up by it.
LEMMA RolloutLeavesStaff ==
    ASSUME StaffInv, HasPersons, RolloutStep
    PROVE  StaffInv' /\ HasPersons'
<1>1. UNCHANGED <<member, invite, request, lock>> /\ passed' \subseteq passed
  BY DEF RolloutStep, update_workspace_rollout_enrollment_request, Granted, rowVars
<1>2. TypeOK' /\ MembershipFollowsInvitation' /\ HasPersons'
  BY <1>1 DEF StaffInv, TypeOK, MembershipFollowsInvitation, HasPersons
<1>3. ChangesFit' /\ OwnersCounted' /\ KeepsAnOwner'
  BY <1>1, OwnersStay
<1> QED
  BY <1>2, <1>3 DEF StaffInv

LEMMA RolloutKeepsAll ==
    ASSUME OrganizationInv, RolloutNext,
           UNCHANGED <<planVars, dispatchVars, visitVars, recordVars>>
    PROVE  OrganizationInv'
<1>1. StaffInv' /\ HasPersons' /\ EnrollmentInv'
  <2>1. CASE RolloutStep
    BY <2>1, RolloutLeavesStaff, EnrollmentKeeps
       DEF OrganizationInv, StaffInv, RolloutStep,
           update_workspace_rollout_enrollment_request
  <2>2. CASE Next /\ UNCHANGED rolloutVars
    BY <2>2, StaffStep, PersonsKeep, EnrollmentSame DEF OrganizationInv
  <2> QED
    BY <2>1, <2>2 DEF RolloutNext
<1>2. UNCHANGED planVars /\ UNCHANGED <<work, assigned>>
  BY DEF planVars
<1> QED
  BY <1>1, <1>2, PlanSame, RecordsSame, ServiceSame DEF OrganizationInv

LEMMA PlanningKeepsAll ==
    ASSUME OrganizationInv, PlanningStep,
           UNCHANGED <<vars, rolloutVars, dispatchVars, visitVars, recordVars>>
    PROVE  OrganizationInv'
<1>1. PlanInv'
  BY HierarchyTypes, CrewTypes, RouteTypes DEF OrganizationInv, PlanningStep
<1>2. RecordsInv'
  BY RecordsKeep DEF OrganizationInv, RecordsNext, PlanningStep
<1> QED
  BY <1>1, <1>2, StaffSame, EnrollmentSame, ServiceSame DEF OrganizationInv

LEMMA DispatchKeepsAll ==
    ASSUME OrganizationInv, DispatchStep, UNCHANGED <<rolloutVars, visitVars, recordVars>>
    PROVE  OrganizationInv'
<1>1. UNCHANGED vars
  BY DEF DispatchStep
<1>2. PlanInv'
  BY HeldTypes DEF OrganizationInv, ServiceInv, DispatchInv
<1>3. UNCHANGED <<work, assigned>>
  BY DEF DispatchStep, complete_dispatch_customer_notification, StartJob, CompleteJob,
         update_job_dispatch_assignment, LockMove, update_dispatch_assignment,
         TellCustomer, planned
<1>4. /\ UNCHANGED serviceVars /\ UNCHANGED <<thread, page, wire>>
      /\ UNCHANGED <<confirmed, released, access, service_events, publishing>>
  BY DEF visitVars, serviceVars, threadVars
<1>5. ServiceInv' /\ DayBounds' /\ ThreadInv'
  BY <1>4, ServiceStepKeeps, BoundsSame, ThreadKeeps DEF OrganizationInv, DispatchNext
<1> QED
  BY <1>1, <1>2, <1>3, <1>5, StaffSame, EnrollmentSame, RecordsSame DEF OrganizationInv

LEMMA VisitKeepsAll ==
    ASSUME OrganizationInv, VisitStep, UNCHANGED <<rolloutVars, recordVars>>
    PROVE  OrganizationInv'
<1>1. UNCHANGED vars /\ UNCHANGED planVars
  BY ServicePlanning DEF VisitStep
<1>2. UNCHANGED <<work, assigned>>
  BY <1>1 DEF planVars
<1>3. ServiceInv' /\ DayBounds' /\ ThreadInv'
  <2>1. CASE ServiceStep
    <3>1. UNCHANGED <<thread, page, wire>>
      BY <2>1, ServiceLeavesThread DEF threadVars
    <3> QED
      BY <2>1, <3>1, ServiceStepKeeps, ServiceBounds, ThreadKeeps DEF OrganizationInv
  <2>2. CASE ThreadStep /\ UNCHANGED <<dispatchVars, serviceVars>>
    BY <2>2, ServiceStepKeeps, ThreadBounds, ThreadKeeps DEF OrganizationInv
  <2> QED
    BY <2>1, <2>2 DEF VisitStep
<1> QED
  BY <1>1, <1>2, <1>3, StaffSame, EnrollmentSame, PlanSame, RecordsSame
     DEF OrganizationInv

LEMMA RecordsKeepAll ==
    ASSUME OrganizationInv, RecordsStep,
           UNCHANGED <<vars, rolloutVars, dispatchVars, visitVars>>
    PROVE  OrganizationInv'
<1>1. PlanInv'
  BY RecordsTypes DEF OrganizationInv
<1>2. RecordsInv'
  BY RecordsKeep DEF OrganizationInv, RecordsNext
<1> QED
  BY <1>1, <1>2, StaffSame, EnrollmentSame, ServiceSame DEF OrganizationInv

LEMMA OrganizationKeeps ==
    OrganizationInv /\ [OrganizationNext]_organizationVars => OrganizationInv'
<1> SUFFICES ASSUME OrganizationInv, [OrganizationNext]_organizationVars
             PROVE  OrganizationInv'
  OBVIOUS
<1>1. CASE UNCHANGED organizationVars
  <2>1. /\ UNCHANGED vars /\ UNCHANGED rolloutVars /\ UNCHANGED planVars
        /\ UNCHANGED dispatchVars /\ UNCHANGED visitVars /\ UNCHANGED recordVars
    BY <1>1 DEF organizationVars
  <2>2. UNCHANGED <<work, assigned>>
    BY <2>1 DEF planVars
  <2> QED
    BY <2>1, <2>2, StaffSame, EnrollmentSame, PlanSame, RecordsSame, ServiceSame
       DEF OrganizationInv
<1> QED
  BY <1>1, RolloutKeepsAll, PlanningKeepsAll, DispatchKeepsAll, VisitKeepsAll,
     RecordsKeepAll DEF OrganizationNext

LEMMA OrganizationInvariant == OrganizationSpec => []OrganizationInv
BY OrganizationStart, OrganizationKeeps, PTL DEF OrganizationSpec

\* The state of every module is well typed, for any number of people, crews,
\* plans, jobs, requests and pages: what a request read when it was checked has
\* the type that its write relies on.
THEOREM OrganizationTypeCorrect == OrganizationSpec => []OrganizationTypeOK
<1>1. OrganizationInv => OrganizationTypeOK
  <2> SUFFICES ASSUME OrganizationInv PROVE OrganizationTypeOK
    OBVIOUS
  <2>1. VisitTypeOK
    BY DEF OrganizationInv, DayBounds, ServiceInv, PublicationInv, ThreadInv,
           ThreadTypeOK, VisitTypeOK
  <2> QED
    BY <2>1 DEF OrganizationInv, StaffInv, EnrollmentInv, PlanInv, RecordsInv,
                ServiceInv, DispatchInv, OrganizationTypeOK
<1> QED
  BY <1>1, OrganizationInvariant, PTL

\* Each stop of a plan has a place of its own, although assignments write by the
\* stops they saw, removals rank what is left (day_plans.rs) and a reorder may
\* come for stops that are not those it names.
THEOREM PlacesAreTheirOwn == OrganizationSpec => []StopsHavePlaces
<1>1. OrganizationInv => StopsHavePlaces
  BY DEF OrganizationInv, PlanInv
<1> QED
  BY <1>1, OrganizationInvariant, PTL

\* What was shown of each part holds when all of them run beside each other.
THEOREM PartsHoldTogether ==
    OrganizationSpec => [](/\ KeepsAnOwner /\ MembershipFollowsInvitation
                           /\ RetryIsAnsweredAlike /\ FollowedUpOnce
                           /\ SaidOnce /\ ArchivedIsOutOfService)
<1>1. OrganizationInv => /\ KeepsAnOwner /\ MembershipFollowsInvitation
                         /\ RetryIsAnsweredAlike /\ FollowedUpOnce
                         /\ SaidOnce /\ ArchivedIsOutOfService
  <2> SUFFICES ASSUME OrganizationInv
               PROVE  /\ KeepsAnOwner /\ MembershipFollowsInvitation
                      /\ RetryIsAnsweredAlike /\ FollowedUpOnce
                      /\ SaidOnce /\ ArchivedIsOutOfService
    OBVIOUS
  <2>1. KeepsAnOwner /\ MembershipFollowsInvitation /\ FollowedUpOnce
    BY DEF OrganizationInv, StaffInv, ServiceInv, DispatchInv
  <2>2. RetryIsAnsweredAlike
    BY DEF OrganizationInv, EnrollmentInv, RolloutInv, RetryIsAnsweredAlike, ReplayAnswer
  <2>3. SaidOnce
    BY DEF OrganizationInv, ThreadInv, KeysOnce, AnswersOnce, ToldIsWritten, IsWritten,
           SaidOnce
  <2>4. ArchivedIsOutOfService
    BY DEF OrganizationInv, RecordsInv, PropertyInv, AccountInv, InService, OutOfService,
           ArchivedIsOutOfService
  <2> QED
    BY <2>1, <2>2, <2>3, <2>4
<1> QED
  BY <1>1, OrganizationInvariant, PTL

\* Nothing that dispatchers, crews or customers' managers do reopens a published
\* plan or makes what the customer is told untrue.
THEOREM PublishedAndToldTogether == OrganizationSpec => PublishedIsSettled /\ ToldAsItIs
<1>1. OrganizationInv /\ [OrganizationNext]_organizationVars => [Settles]_planVars
  <2> SUFFICES ASSUME OrganizationInv, [OrganizationNext]_organizationVars
               PROVE  Settles \/ UNCHANGED planVars
    OBVIOUS
  <2>0. PlanShape
    BY DEF OrganizationInv, PlanInv, PlanTypeOK, PlanShape, Stops
  <2>1. CASE PlanningStep /\ UNCHANGED vars
    BY <2>0, <2>1, ShapeStep DEF PlanningStep, PlanNext, CrewStep
  <2>2. CASE DispatchStep
    <3>1. UNCHANGED <<plan, stop, crew>>
      BY <2>2 DEF DispatchStep, complete_dispatch_customer_notification, StartJob,
                  CompleteJob, update_job_dispatch_assignment, LockMove,
                  update_dispatch_assignment, TellCustomer, planned
    <3> QED
      BY <2>0, <3>1, ShapeKept
  <2>3. CASE RecordsStep
    <3>1. UNCHANGED planVars \/ UNCHANGED <<plan, stop, crew>>
      BY <2>3 DEF RecordsStep, AccountStep, PropertyStep, create_customer_account,
                  archive_customer_account, archive_account, reactivate_customer_account,
                  CompleteWork, create_property, update_property_status, ScheduleJob,
                  insert_property_crew_assignment, create_customer_property, ReleaseWork,
                  update_customer_property_status, AssignCrew, assign_property_crew,
                  upsert_property_onboarding
    <3> QED
      BY <2>0, <3>1, ShapeKept
  <2>4. CASE VisitStep
    BY <2>4, ServicePlanning DEF VisitStep
  <2> QED
    BY <2>1, <2>2, <2>3, <2>4 DEF OrganizationNext, organizationVars
<1>2. OrganizationInv /\ [OrganizationNext]_organizationVars => [TellsTrue]_visitVars
  <2> SUFFICES ASSUME OrganizationInv, [OrganizationNext]_organizationVars
               PROVE  TellsTrue \/ UNCHANGED visitVars
    OBVIOUS
  <2>1. CASE VisitStep
    BY <2>1, ServiceStepKeeps DEF VisitStep, OrganizationInv
  <2> QED
    BY <2>1 DEF OrganizationNext, organizationVars
<1> QED
  BY <1>1, <1>2, OrganizationInvariant, PTL
  DEF OrganizationSpec, PublishedIsSettled, Settles, ToldAsItIs, TellsTrue
=============================================================================

---------------------- MODULE ProviderEngagement_proofs ----------------------
(***************************************************************************)
(* Proofs about ProviderEngagement, for any number of invitations,         *)
(* properties, grants, versions and requests under way:                    *)
(*                                                                         *)
(*   TypeCorrect    the state is well typed;                               *)
(*   ClosedForGood  grants and proposals that were closed stay as they     *)
(*                  were closed;                                           *)
(*   RevokedForGood a provider whom an activation revoked holds nothing;   *)
(*   DecidedOnce    the owner's decisions and the proposals agree;         *)
(*   OneProvider    what is activated is what the owner accepted.          *)
(*                                                                         *)
(* A step changes the grants, and the proposals, of one invitation, except *)
(* an activation, which revokes the grants of others.  The lemmas about    *)
(* sequences say what becomes of the rows; the rest follows from them,     *)
(* action by action.                                                       *)
(***************************************************************************)
EXTENDS ProviderEngagement, TLAPS

-----------------------------------------------------------------------------
(* Rows.                                                                   *)

LEMMA GrantRowType ==
    ASSUME NEW row \in GrantRow, NEW s \in GrantStatus
    PROVE  [row EXCEPT !.status = s] \in GrantRow
BY DEF GrantRow

LEMMA GrantRowStatus ==
    ASSUME NEW row \in GrantRow, NEW s \in GrantStatus
    PROVE  [row EXCEPT !.status = s].status = s
BY DEF GrantRow

LEMMA ProposalRowType ==
    ASSUME NEW row \in ProposalRow, NEW s \in ProposalStatus
    PROVE  [row EXCEPT !.status = s] \in ProposalRow
BY DEF ProposalRow

LEMMA ProposalRowStatus ==
    ASSUME NEW row \in ProposalRow, NEW s \in ProposalStatus
    PROVE  [row EXCEPT !.status = s].status = s
BY DEF ProposalRow

LEMMA ProposalRowDue ==
    ASSUME NEW row \in ProposalRow
    PROVE  /\ [row EXCEPT !.due = TRUE] \in ProposalRow
           /\ [row EXCEPT !.due = TRUE].status = row.status
BY Zenon DEF ProposalRow

-----------------------------------------------------------------------------
(* Sequences of rows.                                                      *)

(* Expiry closes what is sent and leaves the rest alone.                   *)
LEMMA ExpireDueRows ==
    ASSUME NEW s \in Seq(ProposalRow)
    PROVE  /\ ExpireDue(s) \in Seq(ProposalRow)
           /\ Len(ExpireDue(s)) = Len(s)
           /\ \A v \in 1..Len(s) :
                \/ ExpireDue(s)[v] = s[v]
                \/ s[v].status = "sent" /\ ExpireDue(s)[v].status = "expired"
<1>1. "expired" \in ProposalStatus
  BY DEF ProposalStatus
<1>2. \A v \in 1..Len(s) : s[v] \in ProposalRow
  OBVIOUS
<1>3. \A v \in 1..Len(s) : [s[v] EXCEPT !.status = "expired"].status = "expired"
  BY <1>1, <1>2, ProposalRowStatus
<1>4. ExpireDue(s) \in Seq(ProposalRow)
  BY <1>1, ProposalRowType DEF ExpireDue
<1>5. Len(ExpireDue(s)) = Len(s)
  BY <1>4 DEF ExpireDue
<1>6. \A v \in 1..Len(s) :
        ExpireDue(s)[v] = IF s[v].status = "sent" /\ s[v].due
                          THEN [s[v] EXCEPT !.status = "expired"] ELSE s[v]
  BY DEF ExpireDue
<1> QED
  BY <1>3, <1>4, <1>5, <1>6

(* A publication supersedes what is sent, and adds a version.              *)
LEMMA PublishedRows ==
    ASSUME NEW s \in Seq(ProposalRow)
    PROVE  LET t == NewVersion(Superseded(s)) IN
           /\ t \in Seq(ProposalRow)
           /\ Len(t) = Len(s) + 1
           /\ t[Len(t)].status = "sent"
           /\ \A v \in 1..Len(s) :
                \/ t[v] = s[v]
                \/ s[v].status = "sent" /\ t[v].status = "superseded"
<1> DEFINE u == Superseded(s)
           row == [status |-> "sent", due |-> FALSE]
<1>1. "superseded" \in ProposalStatus /\ row \in ProposalRow /\ row.status = "sent"
  BY DEF ProposalStatus, ProposalRow
<1>2. \A v \in 1..Len(s) : s[v] \in ProposalRow
  OBVIOUS
<1>3. \A v \in 1..Len(s) : [s[v] EXCEPT !.status = "superseded"].status = "superseded"
  BY <1>1, <1>2, ProposalRowStatus
<1>4. /\ u \in Seq(ProposalRow) /\ Len(u) = Len(s)
      /\ \A v \in 1..Len(s) :
           \/ u[v] = s[v]
           \/ s[v].status = "sent" /\ u[v].status = "superseded"
  <2>1. u \in Seq(ProposalRow)
    BY <1>1, ProposalRowType DEF Superseded
  <2>2. Len(u) = Len(s)
    BY <2>1 DEF Superseded
  <2>3. \A v \in 1..Len(s) :
          u[v] = IF s[v].status = "sent"
                 THEN [s[v] EXCEPT !.status = "superseded"] ELSE s[v]
    BY DEF Superseded
  <2> QED
    BY <1>3, <2>1, <2>2, <2>3
<1>5. NewVersion(u) = Append(u, row)
  BY DEF NewVersion
<1> HIDE DEF u, row
<1>6. /\ Append(u, row) \in Seq(ProposalRow)
      /\ Len(Append(u, row)) = Len(s) + 1
      /\ Append(u, row)[Len(s) + 1] = row
      /\ \A v \in 1..Len(s) : Append(u, row)[v] = u[v]
  BY <1>1, <1>4
<1> QED
  BY <1>1, <1>4, <1>5, <1>6 DEF u

(* A decision writes the row of one version.                               *)
LEMMA DecidedRows ==
    ASSUME NEW s \in Seq(ProposalRow), NEW v \in 1..Len(s), NEW x \in ProposalStatus
    PROVE  LET t == [s EXCEPT ![v].status = x] IN
           /\ t \in Seq(ProposalRow) /\ Len(t) = Len(s)
           /\ t[v].status = x
           /\ \A w \in 1..Len(s) : w # v => t[w] = s[w]
<1>1. s[v] \in ProposalRow
  OBVIOUS
<1>2. /\ [s[v] EXCEPT !.status = x] \in ProposalRow
      /\ [s[v] EXCEPT !.status = x].status = x
  BY <1>1, ProposalRowStatus, ProposalRowType
<1> DEFINE row == [s[v] EXCEPT !.status = x]
<1>3. [s EXCEPT ![v].status = x] = [s EXCEPT ![v] = row]
  OBVIOUS
<1> HIDE DEF row
<1>4. /\ [s EXCEPT ![v] = row] \in Seq(ProposalRow)
      /\ Len([s EXCEPT ![v] = row]) = Len(s)
      /\ [s EXCEPT ![v] = row][v] = row
      /\ \A w \in 1..Len(s) : w # v => [s EXCEPT ![v] = row][w] = s[w]
  BY <1>2 DEF row
<1> QED
  BY <1>2, <1>3, <1>4 DEF row

LEMMA DueRows ==
    ASSUME NEW s \in Seq(ProposalRow), NEW v \in 1..Len(s)
    PROVE  LET t == [s EXCEPT ![v].due = TRUE] IN
           /\ t \in Seq(ProposalRow) /\ Len(t) = Len(s)
           /\ \A w \in 1..Len(s) : t[w].status = s[w].status
<1> DEFINE row == [s[v] EXCEPT !.due = TRUE]
<1>1. s[v] \in ProposalRow
  OBVIOUS
<1>2. row \in ProposalRow /\ row.status = s[v].status
  BY <1>1, ProposalRowDue
<1>3. [s EXCEPT ![v].due = TRUE] = [s EXCEPT ![v] = row]
  OBVIOUS
<1> HIDE DEF row
<1>4. /\ [s EXCEPT ![v] = row] \in Seq(ProposalRow)
      /\ Len([s EXCEPT ![v] = row]) = Len(s)
      /\ [s EXCEPT ![v] = row][v] = row
      /\ \A w \in 1..Len(s) : w # v => [s EXCEPT ![v] = row][w] = s[w]
  BY <1>2
<1> QED
  BY <1>2, <1>3, <1>4

(* Closing a grant.                                                        *)
LEMMA ClosedGrantRows ==
    ASSUME NEW s \in Seq(GrantRow), NEW k \in 1..Len(s), NEW x \in GrantStatus
    PROVE  LET t == [s EXCEPT ![k].status = x] IN
           /\ t \in Seq(GrantRow) /\ Len(t) = Len(s)
           /\ t[k].status = x
           /\ \A w \in 1..Len(s) : w # k => t[w] = s[w]
<1> DEFINE row == [s[k] EXCEPT !.status = x]
<1>1. s[k] \in GrantRow
  OBVIOUS
<1>2. row \in GrantRow /\ row.status = x
  BY <1>1, GrantRowStatus, GrantRowType
<1>3. [s EXCEPT ![k].status = x] = [s EXCEPT ![k] = row]
  OBVIOUS
<1> HIDE DEF row
<1>4. /\ [s EXCEPT ![k] = row] \in Seq(GrantRow)
      /\ Len([s EXCEPT ![k] = row]) = Len(s)
      /\ [s EXCEPT ![k] = row][k] = row
      /\ \A w \in 1..Len(s) : w # k => [s EXCEPT ![k] = row][w] = s[w]
  BY <1>2
<1> QED
  BY <1>2, <1>3, <1>4

(* An activation closes every active grant of a competitor.                *)
LEMMA RevokingRows ==
    ASSUME NEW s \in Seq(GrantRow)
    PROVE  /\ Revoking(s) \in Seq(GrantRow)
           /\ Len(Revoking(s)) = Len(s)
           /\ \A k \in 1..Len(s) :
                /\ Revoking(s)[k].status # "active"
                /\ s[k].status # "active" => Revoking(s)[k] = s[k]
<1>1. "revoked" \in GrantStatus
  BY DEF GrantStatus
<1>2. \A k \in 1..Len(s) : s[k] \in GrantRow
  OBVIOUS
<1>3. \A k \in 1..Len(s) : [s[k] EXCEPT !.status = "revoked"].status = "revoked"
  BY <1>1, <1>2, GrantRowStatus
<1>4. Revoking(s) \in Seq(GrantRow)
  BY <1>1, GrantRowType DEF Revoking
<1>5. Len(Revoking(s)) = Len(s)
  BY <1>4 DEF Revoking
<1>6. \A k \in 1..Len(s) :
        Revoking(s)[k] = IF s[k].status = "active"
                         THEN [s[k] EXCEPT !.status = "revoked"] ELSE s[k]
  BY DEF Revoking
<1> QED
  BY <1>3, <1>4, <1>5, <1>6

(* A new grant comes last.                                                 *)
LEMMA NewGrantRows ==
    ASSUME NEW s \in Seq(GrantRow), NEW n \in Nat
    PROVE  LET t == Append(s, [status |-> "active", cap |-> n]) IN
           /\ t \in Seq(GrantRow) /\ Len(t) = Len(s) + 1
           /\ \A k \in 1..Len(s) : t[k] = s[k]
<1>1. [status |-> "active", cap |-> n] \in GrantRow
  BY DEF GrantRow, GrantStatus
<1> QED
  BY <1>1

-----------------------------------------------------------------------------
(* What a step makes of the tables of grants and of proposals.             *)

(* A grant series grows at its end and keeps what was closed.              *)
GrantsMove(s, t) ==
    /\ Len(s) <= Len(t)
    /\ \A k \in 1..Len(s) : s[k].status # "active" => t[k] = s[k]

(* A proposal series grows by versions that are sent, and but for a        *)
(* decision only what was sent changes: superseded or expired.             *)
SeriesMoves(s, t) ==
    /\ Len(s) <= Len(t)
    /\ \A v \in 1..Len(s) :
         \/ t[v].status = s[v].status
         \/ s[v].status = "sent" /\ t[v].status \in {"superseded", "expired"}
    /\ \A v \in 1..Len(t) : v \notin 1..Len(s) => t[v].status = "sent"

GrantsEvolve ==
    /\ grants' \in [Invitations -> Seq(GrantRow)]
    /\ \A i \in Invitations :
         /\ GrantsMove(grants[i], grants'[i])
         /\ inv[i] # "opened" => Len(grants'[i]) = Len(grants[i])

SeriesEvolve ==
    /\ proposals' \in [Invitations -> Seq(ProposalRow)]
    /\ \A i \in Invitations : SeriesMoves(proposals[i], proposals'[i])

LEMMA GrantsMoveNowhere == \A s \in Seq(GrantRow) : GrantsMove(s, s)
BY DEF GrantsMove

LEMMA SeriesMovesNowhere == \A s \in Seq(ProposalRow) : SeriesMoves(s, s)
BY DEF SeriesMoves

(* A table whose entry for one invitation moves.                           *)
LEMMA OneGrantRowChanges ==
    ASSUME grants \in [Invitations -> Seq(GrantRow)],
           NEW i \in Invitations, NEW t \in Seq(GrantRow),
           GrantsMove(grants[i], t),
           inv[i] # "opened" => Len(t) = Len(grants[i]),
           grants' = [grants EXCEPT ![i] = t]
    PROVE  GrantsEvolve
<1>1. grants'[i] = t /\ \A j \in Invitations \ {i} : grants'[j] = grants[j]
  OBVIOUS
<1>2. grants' \in [Invitations -> Seq(GrantRow)]
  OBVIOUS
<1>3. \A j \in Invitations : GrantsMove(grants[j], grants[j])
  BY GrantsMoveNowhere
<1> QED
  BY <1>1, <1>2, <1>3 DEF GrantsEvolve

LEMMA OneSeriesMoves ==
    ASSUME proposals \in [Invitations -> Seq(ProposalRow)],
           NEW i \in Invitations, NEW t \in Seq(ProposalRow),
           SeriesMoves(proposals[i], t),
           proposals' = [proposals EXCEPT ![i] = t]
    PROVE  SeriesEvolve
<1>1. proposals'[i] = t /\ \A j \in Invitations \ {i} : proposals'[j] = proposals[j]
  OBVIOUS
<1>2. proposals' \in [Invitations -> Seq(ProposalRow)]
  OBVIOUS
<1>3. \A j \in Invitations : SeriesMoves(proposals[j], proposals[j])
  BY SeriesMovesNowhere
<1> QED
  BY <1>1, <1>2, <1>3 DEF SeriesEvolve

LEMMA GrantsKept == TypeOK /\ UNCHANGED grants => GrantsEvolve
BY GrantsMoveNowhere DEF TypeOK, GrantsEvolve

LEMMA SeriesKept == TypeOK /\ UNCHANGED proposals => SeriesEvolve
BY SeriesMovesNowhere DEF TypeOK, SeriesEvolve

LEMMA ExpiryEvolves ==
    ASSUME TypeOK, NEW i \in Invitations,
           proposals' = [proposals EXCEPT ![i] = ExpireDue(proposals[i])]
    PROVE  SeriesEvolve
<1>1. proposals[i] \in Seq(ProposalRow)
  BY DEF TypeOK
<1>2. ExpireDue(proposals[i]) \in Seq(ProposalRow)
  BY <1>1, ExpireDueRows
<1>3. SeriesMoves(proposals[i], ExpireDue(proposals[i]))
  BY <1>1, ExpireDueRows DEF SeriesMoves
<1>4. proposals \in [Invitations -> Seq(ProposalRow)]
  BY DEF TypeOK
<1> QED
  BY <1>2, <1>3, <1>4, OneSeriesMoves

(* Closing an active grant.                                                *)
LEMMA ClosingEvolves ==
    ASSUME TypeOK, NEW i \in Invitations, NEW k \in 1..Len(grants[i]),
           NEW x \in GrantStatus, grants[i][k].status = "active",
           grants' = [grants EXCEPT ![i][k].status = x]
    PROVE  GrantsEvolve
<1>1. grants[i] \in Seq(GrantRow) /\ Len(grants[i]) \in Nat
  BY DEF TypeOK
<1> DEFINE t == [grants[i] EXCEPT ![k].status = x]
<1>2. t \in Seq(GrantRow) /\ Len(t) = Len(grants[i])
      /\ \A w \in 1..Len(grants[i]) : w # k => t[w] = grants[i][w]
  BY <1>1, ClosedGrantRows
<1>3. grants' = [grants EXCEPT ![i] = t]
  BY DEF TypeOK
<1> HIDE DEF t
<1>4. GrantsMove(grants[i], t)
  BY <1>1, <1>2 DEF GrantsMove
<1>5. grants \in [Invitations -> Seq(GrantRow)]
  BY DEF TypeOK
<1> QED
  BY <1>2, <1>3, <1>4, <1>5, OneGrantRowChanges

-----------------------------------------------------------------------------
(* The steps that change grants or proposals.                              *)

LEMMA FallDueEvolves ==
    ASSUME TypeOK, NEW i \in Invitations, NEW v, FallDue(i, v)
    PROVE  SeriesEvolve
<1>1. proposals[i] \in Seq(ProposalRow) /\ v \in 1..Len(proposals[i])
  BY DEF TypeOK, FallDue
<1> DEFINE t == [proposals[i] EXCEPT ![v].due = TRUE]
<1>2. t \in Seq(ProposalRow) /\ Len(t) = Len(proposals[i])
      /\ \A w \in 1..Len(proposals[i]) : t[w].status = proposals[i][w].status
  BY <1>1, DueRows
<1>3. proposals' = [proposals EXCEPT ![i] = t]
  BY DEF FallDue, TypeOK
<1> HIDE DEF t
<1>4. SeriesMoves(proposals[i], t)
  BY <1>1, <1>2 DEF SeriesMoves
<1>5. proposals \in [Invitations -> Seq(ProposalRow)]
  BY DEF TypeOK
<1> QED
  BY <1>2, <1>3, <1>4, <1>5, OneSeriesMoves

LEMMA GrantCommitEvolves ==
    ASSUME TypeOK, NEW i \in Invitations, GrantCommit(i)
    PROVE  GrantsEvolve
<1>1. grants[i] \in Seq(GrantRow) /\ Len(grants[i]) \in Nat /\ cap[i].no \in Nat
  BY DEF TypeOK, CapRow
<1> DEFINE t == Append(grants[i], [status |-> "active", cap |-> cap[i].no])
<1>2. t \in Seq(GrantRow) /\ Len(t) = Len(grants[i]) + 1
      /\ \A k \in 1..Len(grants[i]) : t[k] = grants[i][k]
  BY <1>1, NewGrantRows
<1>3. grants' = [grants EXCEPT ![i] = t]
  BY DEF GrantCommit, NewGrant
<1> HIDE DEF t
<1>4. GrantsMove(grants[i], t)
  BY <1>1, <1>2 DEF GrantsMove
<1>5. grants \in [Invitations -> Seq(GrantRow)] /\ inv[i] = "opened"
  BY DEF TypeOK, GrantCommit
<1> QED
  BY <1>2, <1>3, <1>4, <1>5, OneGrantRowChanges

LEMMA OpenDisclosureEvolves ==
    ASSUME TypeOK, NEW i \in Invitations, NEW k, OpenDisclosure(i, k)
    PROVE  GrantsEvolve /\ SeriesEvolve
<1>1. k \in 1..Len(grants[i]) /\ grants[i][k].status = "active"
  <2>1. Len(grants[i]) \in Nat
    BY DEF TypeOK
  <2> QED
    BY <2>1 DEF OpenDisclosure, OpensGrant
<1>2. ASSUME NEW next \in GrantStatus, ReconcileGrant(i, k, next)
      PROVE  GrantsEvolve /\ SeriesEvolve
  BY <1>1, <1>2, ClosingEvolves, SeriesKept DEF ReconcileGrant
<1>3. CASE CloseDisclosure(i, k)
  <2>1. (IF lapsed[i] THEN "expired" ELSE "suspended") \in GrantStatus
    BY DEF GrantStatus
  <2> QED
    BY <1>2, <1>3, <2>1 DEF CloseDisclosure
<1>4. CASE SuspendDisclosure(i, k)
  BY <1>2, <1>4 DEF SuspendDisclosure, GrantStatus
<1>5. CASE Disclose(i, k)
  <2>1. GrantsEvolve
    BY <1>5, GrantsKept DEF Disclose
  <2>2. CASE assess[i].grant = k
    <3>1. proposals' = [proposals EXCEPT ![i] = ExpireDue(proposals[i])]
      BY <1>5, <2>2 DEF Disclose
    <3> QED
      BY <2>1, <3>1, ExpiryEvolves
  <2>3. CASE assess[i].grant # k
    <3>1. UNCHANGED proposals
      BY <1>5, <2>3 DEF Disclose
    <3> QED
      BY <2>1, <3>1, SeriesKept
  <2> QED
    BY <2>2, <2>3
<1> QED
  BY <1>3, <1>4, <1>5 DEF OpenDisclosure

LEMMA RevokeGrantEvolves ==
    ASSUME TypeOK, NEW i \in Invitations, NEW k, RevokeGrant(i, k)
    PROVE  GrantsEvolve
<1>1. k \in 1..Len(grants[i])
  BY DEF TypeOK, RevokeGrant
<1> QED
  BY <1>1, ClosingEvolves DEF RevokeGrant, GrantStatus

LEMMA PublishCommitEvolves ==
    ASSUME TypeOK, NEW i \in Invitations, PublishCommit(i)
    PROVE  SeriesEvolve
<1>1. proposals[i] \in Seq(ProposalRow) /\ Len(proposals[i]) \in Nat
  BY DEF TypeOK
<1> DEFINE t == NewVersion(Superseded(proposals[i]))
<1>2. /\ t \in Seq(ProposalRow) /\ Len(t) = Len(proposals[i]) + 1
      /\ t[Len(t)].status = "sent"
      /\ \A v \in 1..Len(proposals[i]) :
           \/ t[v] = proposals[i][v]
           \/ proposals[i][v].status = "sent" /\ t[v].status = "superseded"
  BY <1>1, PublishedRows
<1>3. proposals' = [proposals EXCEPT ![i] = t]
  BY DEF PublishCommit
<1> HIDE DEF t
<1>4. SeriesMoves(proposals[i], t)
  BY <1>1, <1>2 DEF SeriesMoves
<1>5. proposals \in [Invitations -> Seq(ProposalRow)]
  BY DEF TypeOK
<1> QED
  BY <1>2, <1>3, <1>4, <1>5, OneSeriesMoves

LEMMA DecidedStatus == \A action : Decided(action) \in ProposalStatus
BY DEF Decided, ProposalStatus

(* What the decision writes, row by row.                                   *)
LEMMA DecideProposalRows ==
    ASSUME TypeOK, NEW i \in Invitations, NEW v, NEW action,
           DecideProposal(i, v, action)
    PROVE  /\ v \in 1..Len(proposals[i])
           /\ proposals[i][v].status = "sent"
           /\ proposals' \in [Invitations -> Seq(ProposalRow)]
           /\ \A j \in Invitations \ {i} : proposals'[j] = proposals[j]
           /\ Len(proposals'[i]) = Len(proposals[i])
           /\ proposals'[i][v].status = Decided(action)
           /\ \A w \in 1..Len(proposals[i]) : w # v =>
                \/ proposals'[i][w].status = proposals[i][w].status
                \/ /\ proposals[i][w].status = "sent"
                   /\ proposals'[i][w].status = "expired"
<1> DEFINE s == ExpireDue(proposals[i])
           t == [s EXCEPT ![v].status = Decided(action)]
<1>1. proposals[i] \in Seq(ProposalRow)
  BY DEF TypeOK
<1>2. /\ s \in Seq(ProposalRow) /\ Len(s) = Len(proposals[i])
      /\ \A w \in 1..Len(s) :
           \/ s[w] = proposals[i][w]
           \/ proposals[i][w].status = "sent" /\ s[w].status = "expired"
  BY <1>1, ExpireDueRows
<1>3. v \in 1..Len(proposals[i]) /\ s[v].status = "sent"
  BY <1>1 DEF DecideProposal, Decidable
<1>4. proposals[i][v].status = "sent"
  BY <1>2, <1>3
<1>5. /\ t \in Seq(ProposalRow) /\ Len(t) = Len(s)
      /\ t[v].status = Decided(action)
      /\ \A w \in 1..Len(s) : w # v => t[w] = s[w]
  BY <1>2, <1>3, DecidedRows, DecidedStatus
<1>6. proposals' = [proposals EXCEPT ![i] = t]
  BY DEF DecideProposal
<1> HIDE DEF s, t
<1>7. /\ proposals'[i] = t
      /\ \A j \in Invitations \ {i} : proposals'[j] = proposals[j]
      /\ proposals' \in [Invitations -> Seq(ProposalRow)]
  BY <1>5, <1>6 DEF TypeOK
<1> QED
  BY <1>2, <1>3, <1>4, <1>5, <1>7

LEMMA ActivatedEvolves ==
    ASSUME TypeOK, NEW i \in Invitations, NEW v, Activated(i, v)
    PROVE  GrantsEvolve
<1>1. \A j \in Invitations : grants[j] \in Seq(GrantRow)
  BY DEF TypeOK
<1>2. \A j \in Invitations :
        /\ Revoking(grants[j]) \in Seq(GrantRow)
        /\ Len(Revoking(grants[j])) = Len(grants[j])
        /\ GrantsMove(grants[j], Revoking(grants[j]))
        /\ GrantsMove(grants[j], grants[j])
  BY <1>1, RevokingRows, GrantsMoveNowhere DEF GrantsMove
<1>3. grants' = [j \in Invitations |->
                   IF j \in Competing(i) THEN Revoking(grants[j]) ELSE grants[j]]
  BY DEF Activated
<1>4. \A j \in Invitations :
        grants'[j] = IF j \in Competing(i) THEN Revoking(grants[j]) ELSE grants[j]
  BY <1>3
<1>5. grants' \in [Invitations -> Seq(GrantRow)]
  BY <1>1, <1>2, <1>3
<1> QED
  BY <1>2, <1>4, <1>5 DEF GrantsEvolve

-----------------------------------------------------------------------------
(* Every step lets the grants evolve, and but for a decision the series of *)
(* proposals.                                                              *)
Deciding == \E i \in Invitations, v \in 1..MaxProposals, action \in Decisions :
               DecideProposal(i, v, action)

Undecided == SeriesEvolve /\ UNCHANGED decisions

LEMMA EvolveStep == TypeOK /\ [Next]_vars => GrantsEvolve /\ (Undecided \/ Deciding)
<1> SUFFICES ASSUME TypeOK, [Next]_vars
             PROVE  GrantsEvolve /\ (Undecided \/ Deciding)
  OBVIOUS
<1>1. ASSUME NEW i \in Invitations,
          OpenInvitation(i)
      PROVE  GrantsEvolve /\ (Undecided \/ Deciding)
  BY <1>1, GrantsKept, SeriesKept
  DEF OpenInvitation, grantVars, proposalVars, Undecided
<1>2. ASSUME NEW i \in Invitations,
          ExpressInterest(i)
      PROVE  GrantsEvolve /\ (Undecided \/ Deciding)
  BY <1>2, GrantsKept, SeriesKept
  DEF ExpressInterest, grantVars, proposalVars, Undecided
<1>3. ASSUME NEW i \in Invitations,
          CloseCapability(i)
      PROVE  GrantsEvolve /\ (Undecided \/ Deciding)
  BY <1>3, GrantsKept, SeriesKept
  DEF CloseCapability, grantVars, proposalVars, Undecided
<1>4. ASSUME NEW i \in Invitations,
          CloseInvitation(i)
      PROVE  GrantsEvolve /\ (Undecided \/ Deciding)
  BY <1>4, GrantsKept, SeriesKept
  DEF CloseInvitation, grantVars, proposalVars, Undecided
<1>5. ASSUME NEW i \in Invitations,
          ChangeMembership(i)
      PROVE  GrantsEvolve /\ (Undecided \/ Deciding)
  BY <1>5, GrantsKept, SeriesKept
  DEF ChangeMembership, grantVars, proposalVars, Undecided
<1>6. ASSUME NEW i \in Invitations,
          LoseCurrency(i)
      PROVE  GrantsEvolve /\ (Undecided \/ Deciding)
  BY <1>6, GrantsKept, SeriesKept
  DEF LoseCurrency, grantVars, proposalVars, Undecided
<1>7. ASSUME NEW i \in Invitations,
          Lapse(i)
      PROVE  GrantsEvolve /\ (Undecided \/ Deciding)
  BY <1>7, GrantsKept, SeriesKept
  DEF Lapse, grantVars, proposalVars, Undecided
<1>8. ASSUME NEW i \in Invitations, NEW v \in 1..MaxProposals,
          FallDue(i, v)
      PROVE  GrantsEvolve /\ (Undecided \/ Deciding)
  BY <1>8, FallDueEvolves, GrantsKept
  DEF FallDue, grantVars, Undecided
<1>9. ASSUME NEW i \in Invitations,
          GrantScan(i)
      PROVE  GrantsEvolve /\ (Undecided \/ Deciding)
  BY <1>9, GrantsKept, SeriesKept
  DEF GrantScan, grantVars, proposalVars, Undecided
<1>10. ASSUME NEW i \in Invitations,
          GrantCommit(i)
      PROVE  GrantsEvolve /\ (Undecided \/ Deciding)
  BY <1>10, GrantCommitEvolves, SeriesKept
  DEF GrantCommit, NewGrant, proposalVars, Undecided
<1>11. ASSUME NEW i \in Invitations,
          GrantRollback(i)
      PROVE  GrantsEvolve /\ (Undecided \/ Deciding)
  BY <1>11, GrantsKept, SeriesKept
  DEF GrantRollback, grantVars, proposalVars, Undecided
<1>12. ASSUME NEW i \in Invitations, NEW k \in 1..MaxGrants,
          OpenDisclosure(i, k)
      PROVE  GrantsEvolve /\ (Undecided \/ Deciding)
  BY <1>12, OpenDisclosureEvolves
  DEF OpenDisclosure, OpensGrant, Undecided
<1>13. ASSUME NEW i \in Invitations, NEW k \in 1..MaxGrants,
          RevokeGrant(i, k)
      PROVE  GrantsEvolve /\ (Undecided \/ Deciding)
  BY <1>13, RevokeGrantEvolves, SeriesKept
  DEF RevokeGrant, proposalVars, Undecided
<1>14. ASSUME NEW i \in Invitations, NEW k \in 1..MaxGrants, NEW method \in Methods,
          CreateAssessment(i, k, method)
      PROVE  GrantsEvolve /\ (Undecided \/ Deciding)
  BY <1>14, GrantsKept, SeriesKept
  DEF CreateAssessment, grantVars, proposalVars, Undecided
<1>15. ASSUME NEW i \in Invitations,
          ProposeWindow(i)
      PROVE  GrantsEvolve /\ (Undecided \/ Deciding)
  BY <1>15, GrantsKept, SeriesKept
  DEF ProposeWindow, grantVars, proposalVars, Undecided
<1>16. ASSUME NEW i \in Invitations, NEW next \in AssessStatus,
          DecideWindow(i, next)
      PROVE  GrantsEvolve /\ (Undecided \/ Deciding)
  BY <1>16, GrantsKept, SeriesKept
  DEF DecideWindow, grantVars, proposalVars, Undecided
<1>17. ASSUME NEW i \in Invitations, NEW next \in AssessStatus,
          TransitionAssessment(i, next)
      PROVE  GrantsEvolve /\ (Undecided \/ Deciding)
  BY <1>17, GrantsKept, SeriesKept
  DEF TransitionAssessment, grantVars, proposalVars, Undecided
<1>18. ASSUME NEW i \in Invitations,
          PublishBegin(i)
      PROVE  GrantsEvolve /\ (Undecided \/ Deciding)
  BY <1>18, ExpiryEvolves, GrantsKept
  DEF PublishBegin, grantVars, Undecided
<1>19. ASSUME NEW i \in Invitations,
          PublishCommit(i)
      PROVE  GrantsEvolve /\ (Undecided \/ Deciding)
  BY <1>19, PublishCommitEvolves, GrantsKept
  DEF PublishCommit, grantVars, Undecided
<1>20. ASSUME NEW i \in Invitations,
          PublishRollback(i)
      PROVE  GrantsEvolve /\ (Undecided \/ Deciding)
  BY <1>20, GrantsKept, SeriesKept
  DEF PublishRollback, grantVars, proposalVars, Undecided
<1>21. ASSUME NEW i \in Invitations,
          ReadProposals(i)
      PROVE  GrantsEvolve /\ (Undecided \/ Deciding)
  BY <1>21, ExpiryEvolves, GrantsKept
  DEF ReadProposals, grantVars, Undecided
<1>22. ASSUME NEW i \in Invitations, NEW v \in 1..MaxProposals, NEW action \in Decisions,
          DecideProposal(i, v, action)
      PROVE  GrantsEvolve /\ (Undecided \/ Deciding)
  BY <1>22, GrantsKept
  DEF Deciding, DecideProposal, grantVars
<1>23. ASSUME NEW i \in Invitations, NEW v \in 1..MaxProposals,
          Activate(i, v)
      PROVE  GrantsEvolve /\ (Undecided \/ Deciding)
  BY <1>23, ActivatedEvolves, SeriesKept
  DEF Activate, Activated, proposalVars, Undecided
<1>24. ASSUME NEW p \in Properties,
          ProposeVisit(p)
      PROVE  GrantsEvolve /\ (Undecided \/ Deciding)
  BY <1>24, GrantsKept, SeriesKept
  DEF ProposeVisit, grantVars, proposalVars, Undecided
<1>25. ASSUME NEW p \in Properties, NEW action \in VisitActions,
          DecideVisit(p, action)
      PROVE  GrantsEvolve /\ (Undecided \/ Deciding)
  BY <1>25, GrantsKept, SeriesKept
  DEF DecideVisit, grantVars, proposalVars, Undecided
<1>26. CASE UNCHANGED vars
  BY <1>26, GrantsKept, SeriesKept
  DEF vars, grantVars, proposalVars, Undecided
<1> QED
  BY <1>1, <1>2, <1>3, <1>4, <1>5, <1>6, <1>7, <1>8, <1>9, <1>10, <1>11, <1>12, <1>13, <1>14, <1>15, <1>16, <1>17, <1>18, <1>19, <1>20, <1>21, <1>22, <1>23, <1>24, <1>25, <1>26
  DEF Next, ConnectionStep, GrantStep, AssessmentStep, ProposalStep, VisitStep

(* What either kind of step has in common.                                 *)
LEMMA ProposalsEvolve ==
    ASSUME TypeOK, [Next]_vars
    PROVE  /\ proposals' \in [Invitations -> Seq(ProposalRow)]
           /\ \A i \in Invitations :
                /\ Len(proposals[i]) <= Len(proposals'[i])
                /\ \A v \in 1..Len(proposals[i]) :
                     proposals[i][v].status # "sent" =>
                       proposals'[i][v].status = proposals[i][v].status
<1>1. CASE Undecided
  BY <1>1 DEF Undecided, SeriesEvolve, SeriesMoves
<1>2. CASE Deciding
  <2>1. PICK i \in Invitations, v \in 1..MaxProposals, action \in Decisions :
             DecideProposal(i, v, action)
    BY <1>2 DEF Deciding
  <2>2. \A j \in Invitations : Len(proposals[j]) \in Nat
    BY DEF TypeOK
  <2> QED
    BY <2>1, <2>2, DecideProposalRows
<1> QED
  BY <1>1, <1>2, EvolveStep

-----------------------------------------------------------------------------
(* Type correctness.                                                       *)
LEMMA TypeInit == Init => TypeOK
BY PropertyAssumption
   DEF Init, TypeOK, InvStatus, CapRow, AssessRow, AssessStatus, NoAssessment,
       OwnerPropertyStatus, VisitRow, VisitStatus

LEMMA TypeStep == TypeOK /\ [Next]_vars => TypeOK'
<1> SUFFICES ASSUME TypeOK, [Next]_vars PROVE TypeOK'
  OBVIOUS
<1>e. /\ grants' \in [Invitations -> Seq(GrantRow)]
      /\ proposals' \in [Invitations -> Seq(ProposalRow)]
  BY EvolveStep, ProposalsEvolve DEF GrantsEvolve
<1>1. ASSUME NEW i \in Invitations,
          OpenInvitation(i)
      PROVE  TypeOK'
  BY <1>1, <1>e
  DEF OpenInvitation, Connect, TypeOK, InvStatus, OwnerPropertyStatus,
      connVars, grantVars, proposalVars, activationVars, visitVars
<1>2. ASSUME NEW i \in Invitations,
          ExpressInterest(i)
      PROVE  TypeOK'
  BY <1>2, <1>e
  DEF ExpressInterest, TypeOK, CapRow,
      connVars, grantVars, proposalVars, activationVars, visitVars
<1>3. ASSUME NEW i \in Invitations,
          CloseCapability(i)
      PROVE  TypeOK'
  BY <1>3, <1>e
  DEF CloseCapability, TypeOK, CapRow,
      connVars, grantVars, proposalVars, activationVars, visitVars
<1>4. ASSUME NEW i \in Invitations,
          CloseInvitation(i)
      PROVE  TypeOK'
  <2>1. [cap EXCEPT ![i].active = FALSE] \in [Invitations -> CapRow]
    BY DEF TypeOK, CapRow
  <2>2. cap' \in [Invitations -> CapRow]
    BY <1>4, <2>1 DEF CloseInvitation, TypeOK
  <2>3. inv' \in [Invitations -> InvStatus]
    BY <1>4 DEF CloseInvitation, TypeOK, InvStatus
  <2> QED
    BY <1>4, <1>e, <2>2, <2>3
    DEF CloseInvitation, TypeOK,
        connVars, grantVars, proposalVars, activationVars, visitVars
<1>5. ASSUME NEW i \in Invitations,
          ChangeMembership(i)
      PROVE  TypeOK'
  BY <1>5, <1>e
  DEF ChangeMembership, TypeOK,
      connVars, grantVars, proposalVars, activationVars, visitVars
<1>6. ASSUME NEW i \in Invitations,
          LoseCurrency(i)
      PROVE  TypeOK'
  BY <1>6, <1>e
  DEF LoseCurrency, TypeOK, connVars, grantVars, proposalVars, activationVars, visitVars
<1>7. ASSUME NEW i \in Invitations,
          Lapse(i)
      PROVE  TypeOK'
  BY <1>7, <1>e
  DEF Lapse, TypeOK, connVars, grantVars, proposalVars, activationVars, visitVars
<1>8. ASSUME NEW i \in Invitations, NEW v \in 1..MaxProposals,
          FallDue(i, v)
      PROVE  TypeOK'
  BY <1>8, <1>e
  DEF FallDue, TypeOK, connVars, grantVars, proposalVars, activationVars, visitVars
<1>9. ASSUME NEW i \in Invitations,
          GrantScan(i)
      PROVE  TypeOK'
  BY <1>9, <1>e
  DEF GrantScan, TypeOK, connVars, grantVars, proposalVars, activationVars, visitVars
<1>10. ASSUME NEW i \in Invitations,
          GrantCommit(i)
      PROVE  TypeOK'
  BY <1>10, <1>e
  DEF GrantCommit, NewGrant, TypeOK,
      connVars, grantVars, proposalVars, activationVars, visitVars
<1>11. ASSUME NEW i \in Invitations,
          GrantRollback(i)
      PROVE  TypeOK'
  BY <1>11, <1>e
  DEF GrantRollback, TypeOK,
      connVars, grantVars, proposalVars, activationVars, visitVars
<1>12. ASSUME NEW i \in Invitations, NEW k \in 1..MaxGrants,
          OpenDisclosure(i, k)
      PROVE  TypeOK'
  BY <1>12, <1>e
  DEF OpenDisclosure, OpensGrant, TypeOK,
      connVars, grantVars, proposalVars, activationVars, visitVars
<1>13. ASSUME NEW i \in Invitations, NEW k \in 1..MaxGrants,
          RevokeGrant(i, k)
      PROVE  TypeOK'
  BY <1>13, <1>e
  DEF RevokeGrant, TypeOK, connVars, grantVars, proposalVars, activationVars, visitVars
<1>14. ASSUME NEW i \in Invitations, NEW k \in 1..MaxGrants, NEW method \in Methods,
          CreateAssessment(i, k, method)
      PROVE  TypeOK'
  <2>1. /\ (IF method = "remote" THEN "remote_review" ELSE "window_proposed")
              \in AssessStatus
        /\ method \in {"remote", "on_site"} /\ k \in Nat
    BY MethodAssumption, BoundAssumption DEF AssessStatus, OpenAssessment
  <2> DEFINE row == [status |-> IF method = "remote" THEN "remote_review"
                                ELSE "window_proposed",
                     method |-> method, grant |-> k]
  <2>2. row \in AssessRow
    BY <2>1 DEF AssessRow
  <2>3. assess' = [assess EXCEPT ![i] = row]
    BY <1>14 DEF CreateAssessment
  <2> HIDE DEF row
  <2>4. assess' \in [Invitations -> AssessRow]
    BY <2>2, <2>3 DEF TypeOK
  <2> QED
    BY <1>14, <1>e, <2>4
    DEF CreateAssessment, TypeOK,
        connVars, grantVars, proposalVars, activationVars, visitVars
<1>15. ASSUME NEW i \in Invitations,
          ProposeWindow(i)
      PROVE  TypeOK'
  BY <1>15, <1>e
  DEF ProposeWindow, TypeOK, AssessRow, AssessStatus, OpenAssessment,
      connVars, grantVars, proposalVars, activationVars, visitVars
<1>16. ASSUME NEW i \in Invitations, NEW next \in AssessStatus,
          DecideWindow(i, next)
      PROVE  TypeOK'
  BY <1>16, <1>e
  DEF DecideWindow, TypeOK, AssessRow,
      connVars, grantVars, proposalVars, activationVars, visitVars
<1>17. ASSUME NEW i \in Invitations, NEW next \in AssessStatus,
          TransitionAssessment(i, next)
      PROVE  TypeOK'
  BY <1>17, <1>e
  DEF TransitionAssessment, TypeOK, AssessRow,
      connVars, grantVars, proposalVars, activationVars, visitVars
<1>18. ASSUME NEW i \in Invitations,
          PublishBegin(i)
      PROVE  TypeOK'
  BY <1>18, <1>e
  DEF PublishBegin, TypeOK, connVars, grantVars, proposalVars, activationVars, visitVars
<1>19. ASSUME NEW i \in Invitations,
          PublishCommit(i)
      PROVE  TypeOK'
  BY <1>19, <1>e
  DEF PublishCommit, TypeOK,
      connVars, grantVars, proposalVars, activationVars, visitVars
<1>20. ASSUME NEW i \in Invitations,
          PublishRollback(i)
      PROVE  TypeOK'
  BY <1>20, <1>e
  DEF PublishRollback, TypeOK,
      connVars, grantVars, proposalVars, activationVars, visitVars
<1>21. ASSUME NEW i \in Invitations,
          ReadProposals(i)
      PROVE  TypeOK'
  BY <1>21, <1>e
  DEF ReadProposals, TypeOK,
      connVars, grantVars, proposalVars, activationVars, visitVars
<1>22. ASSUME NEW i \in Invitations, NEW v \in 1..MaxProposals, NEW action \in Decisions,
          DecideProposal(i, v, action)
      PROVE  TypeOK'
  BY SMTT(30), <1>22, <1>e
  DEF DecideProposal, Decidable, TypeOK,
      connVars, grantVars, proposalVars, activationVars, visitVars
<1>23. ASSUME NEW i \in Invitations, NEW v \in 1..MaxProposals,
          Activate(i, v)
      PROVE  TypeOK'
  BY <1>23, <1>e
  DEF Activate, Activatable, Activated, TypeOK, InvStatus, OwnerPropertyStatus, CapRow,
      connVars, grantVars, proposalVars, activationVars, visitVars
<1>24. ASSUME NEW p \in Properties,
          ProposeVisit(p)
      PROVE  TypeOK'
  BY SMTT(30), <1>24, <1>e
  DEF ProposeVisit, TypeOK, VisitRow, VisitStatus,
      connVars, grantVars, proposalVars, activationVars, visitVars
<1>25. ASSUME NEW p \in Properties, NEW action \in VisitActions,
          DecideVisit(p, action)
      PROVE  TypeOK'
  <2>1. (IF action = "confirm" THEN "confirmed" ELSE "change_requested")
          \in VisitStatus
    BY DEF VisitStatus
  <2>2. visit' \in [Properties -> VisitRow]
    BY <1>25, <2>1 DEF DecideVisit, TypeOK, VisitRow
  <2>3. <<p, visit[p].version, action>> \in Properties \X Nat \X VisitActions
    BY DEF TypeOK, VisitRow
  <2>4. visitDecided' \subseteq Properties \X Nat \X VisitActions
    BY <1>25, <2>3 DEF DecideVisit, TypeOK
  <2> QED
    BY <1>25, <1>e, <2>2, <2>4
    DEF DecideVisit, TypeOK,
        connVars, grantVars, proposalVars, activationVars, visitVars
<1>26. CASE UNCHANGED vars
  BY <1>26 DEF vars, TypeOK, connVars, grantVars, proposalVars, activationVars, visitVars
<1> QED
  BY <1>1, <1>2, <1>3, <1>4, <1>5, <1>6, <1>7, <1>8, <1>9, <1>10, <1>11, <1>12, <1>13, <1>14, <1>15, <1>16, <1>17, <1>18, <1>19, <1>20, <1>21, <1>22, <1>23, <1>24, <1>25, <1>26
  DEF Next, ConnectionStep, GrantStep, AssessmentStep, ProposalStep, VisitStep

(* The engagement's state stays well typed.                                *)
THEOREM TypeCorrect == Spec => []TypeOK
<1> QED
  BY TypeInit, TypeStep, PTL DEF Spec

-----------------------------------------------------------------------------
(* Closed grants and proposals.                                            *)

LEMMA HistoryStep ==
    ASSUME TypeOK, [Next]_vars
    PROVE  \A i \in Invitations :
             /\ \A k \in DOMAIN grants[i] :
                  grants[i][k].status # "active" => grants'[i][k] = grants[i][k]
             /\ \A v \in DOMAIN proposals[i] :
                  proposals[i][v].status # "sent" =>
                    proposals'[i][v].status = proposals[i][v].status
<1>1. \A i \in Invitations : /\ DOMAIN grants[i] = 1..Len(grants[i])
                             /\ DOMAIN proposals[i] = 1..Len(proposals[i])
  BY DEF TypeOK
<1> QED
  BY <1>1, EvolveStep, ProposalsEvolve DEF GrantsEvolve, GrantsMove

(* HistoryIsFinal: a grant that was closed never comes back, and a proposal *)
(* that was decided, superseded or expired never changes again, whatever    *)
(* requests were under way.                                                 *)
THEOREM ClosedForGood == Spec => HistoryIsFinal
<1>1. TypeOK /\ [Next]_vars =>
        [\A i \in Invitations :
           /\ \A k \in DOMAIN grants[i] :
                grants[i][k].status # "active" => grants'[i][k] = grants[i][k]
           /\ \A v \in DOMAIN proposals[i] :
                proposals[i][v].status # "sent" =>
                  proposals'[i][v].status = proposals[i][v].status]_vars
  BY HistoryStep
<1> QED
  BY <1>1, TypeCorrect, PTL DEF Spec, HistoryIsFinal

-----------------------------------------------------------------------------
(* A revoked provider holds nothing.                                       *)

(* Only the commit of a grant gives one to an invitation, while it is open. *)
LEMMA NoNewHolder ==
    ASSUME TypeOK, GrantsEvolve, NEW j \in Invitations,
           inv[j] # "opened", HasActiveGrant(j)'
    PROVE  HasActiveGrant(j)
<1>1. /\ grants[j] \in Seq(GrantRow) /\ grants'[j] \in Seq(GrantRow)
      /\ Len(grants'[j]) = Len(grants[j])
      /\ GrantsMove(grants[j], grants'[j])
  BY DEF TypeOK, GrantsEvolve
<1>2. PICK k \in 1..Len(grants[j]) : grants'[j][k].status = "active"
  BY <1>1 DEF HasActiveGrant
<1>3. grants[j][k].status = "active"
  BY <1>1, <1>2 DEF GrantsMove
<1> QED
  BY <1>1, <1>3 DEF HasActiveGrant

(* But for activations, nobody is revoked and a revoked invitation's       *)
(* capability stays as it is.                                              *)
Activating == \E i \in Invitations, v \in 1..MaxProposals : Activate(i, v)

RevokedKept ==
    \A j \in Invitations :
        inv'[j] = "revoked" => inv[j] = "revoked" /\ (cap'[j].active => cap[j].active)

(* Nor is anybody activated, and no property enters or leaves its setup.   *)
ActivatedKept ==
    /\ UNCHANGED activation
    /\ \A j \in Invitations : inv'[j] = "activated" => inv[j] = "activated"
    /\ \A p \in Properties :
          ownerProperty'[p] = "provider_setup" <=> ownerProperty[p] = "provider_setup"

LEMMA StatusStep ==
    TypeOK /\ [Next]_vars => (RevokedKept /\ ActivatedKept) \/ Activating
<1> SUFFICES ASSUME TypeOK, [Next]_vars
             PROVE  (RevokedKept /\ ActivatedKept) \/ Activating
  OBVIOUS
<1>1. ASSUME NEW i \in Invitations,
          OpenInvitation(i)
      PROVE  (RevokedKept /\ ActivatedKept) \/ Activating
  BY <1>1 DEF OpenInvitation, Connect, TypeOK, RevokedKept, ActivatedKept
<1>2. ASSUME NEW i \in Invitations,
          ExpressInterest(i)
      PROVE  (RevokedKept /\ ActivatedKept) \/ Activating
  BY <1>2 DEF ExpressInterest, TypeOK, CapRow, RevokedKept, ActivatedKept, activationVars
<1>3. ASSUME NEW i \in Invitations,
          CloseCapability(i)
      PROVE  (RevokedKept /\ ActivatedKept) \/ Activating
  BY <1>3 DEF CloseCapability, TypeOK, CapRow, RevokedKept, ActivatedKept, activationVars
<1>4. ASSUME NEW i \in Invitations,
          CloseInvitation(i)
      PROVE  (RevokedKept /\ ActivatedKept) \/ Activating
  BY <1>4 DEF CloseInvitation, TypeOK, CapRow, RevokedKept, ActivatedKept, activationVars
<1>5. ASSUME NEW i \in Invitations,
          ChangeMembership(i)
      PROVE  (RevokedKept /\ ActivatedKept) \/ Activating
  BY <1>5 DEF ChangeMembership, RevokedKept, ActivatedKept, connVars, activationVars
<1>6. ASSUME NEW i \in Invitations,
          LoseCurrency(i)
      PROVE  (RevokedKept /\ ActivatedKept) \/ Activating
  BY <1>6 DEF LoseCurrency, RevokedKept, ActivatedKept, connVars, activationVars
<1>7. ASSUME NEW i \in Invitations,
          Lapse(i)
      PROVE  (RevokedKept /\ ActivatedKept) \/ Activating
  BY <1>7 DEF Lapse, RevokedKept, ActivatedKept, connVars, activationVars
<1>8. ASSUME NEW i \in Invitations, NEW v \in 1..MaxProposals,
          FallDue(i, v)
      PROVE  (RevokedKept /\ ActivatedKept) \/ Activating
  BY <1>8 DEF FallDue, RevokedKept, ActivatedKept, connVars, activationVars
<1>9. ASSUME NEW i \in Invitations,
          GrantScan(i)
      PROVE  (RevokedKept /\ ActivatedKept) \/ Activating
  BY <1>9 DEF GrantScan, RevokedKept, ActivatedKept, connVars, activationVars
<1>10. ASSUME NEW i \in Invitations,
          GrantCommit(i)
      PROVE  (RevokedKept /\ ActivatedKept) \/ Activating
  BY <1>10 DEF GrantCommit, NewGrant, RevokedKept, ActivatedKept, connVars, activationVars
<1>11. ASSUME NEW i \in Invitations,
          GrantRollback(i)
      PROVE  (RevokedKept /\ ActivatedKept) \/ Activating
  BY <1>11 DEF GrantRollback, RevokedKept, ActivatedKept, connVars, activationVars
<1>12. ASSUME NEW i \in Invitations, NEW k \in 1..MaxGrants,
          OpenDisclosure(i, k)
      PROVE  (RevokedKept /\ ActivatedKept) \/ Activating
  BY <1>12 DEF OpenDisclosure, OpensGrant, RevokedKept, ActivatedKept, connVars, activationVars
<1>13. ASSUME NEW i \in Invitations, NEW k \in 1..MaxGrants,
          RevokeGrant(i, k)
      PROVE  (RevokedKept /\ ActivatedKept) \/ Activating
  BY <1>13 DEF RevokeGrant, RevokedKept, ActivatedKept, connVars, activationVars
<1>14. ASSUME NEW i \in Invitations, NEW k \in 1..MaxGrants, NEW method \in Methods,
          CreateAssessment(i, k, method)
      PROVE  (RevokedKept /\ ActivatedKept) \/ Activating
  BY <1>14 DEF CreateAssessment, RevokedKept, ActivatedKept, connVars, activationVars
<1>15. ASSUME NEW i \in Invitations,
          ProposeWindow(i)
      PROVE  (RevokedKept /\ ActivatedKept) \/ Activating
  BY <1>15 DEF ProposeWindow, RevokedKept, ActivatedKept, connVars, activationVars
<1>16. ASSUME NEW i \in Invitations, NEW next \in AssessStatus,
          DecideWindow(i, next)
      PROVE  (RevokedKept /\ ActivatedKept) \/ Activating
  BY <1>16 DEF DecideWindow, RevokedKept, ActivatedKept, connVars, activationVars
<1>17. ASSUME NEW i \in Invitations, NEW next \in AssessStatus,
          TransitionAssessment(i, next)
      PROVE  (RevokedKept /\ ActivatedKept) \/ Activating
  BY <1>17 DEF TransitionAssessment, RevokedKept, ActivatedKept, connVars, activationVars
<1>18. ASSUME NEW i \in Invitations,
          PublishBegin(i)
      PROVE  (RevokedKept /\ ActivatedKept) \/ Activating
  BY <1>18 DEF PublishBegin, RevokedKept, ActivatedKept, connVars, activationVars
<1>19. ASSUME NEW i \in Invitations,
          PublishCommit(i)
      PROVE  (RevokedKept /\ ActivatedKept) \/ Activating
  BY <1>19 DEF PublishCommit, RevokedKept, ActivatedKept, connVars, activationVars
<1>20. ASSUME NEW i \in Invitations,
          PublishRollback(i)
      PROVE  (RevokedKept /\ ActivatedKept) \/ Activating
  BY <1>20 DEF PublishRollback, RevokedKept, ActivatedKept, connVars, activationVars
<1>21. ASSUME NEW i \in Invitations,
          ReadProposals(i)
      PROVE  (RevokedKept /\ ActivatedKept) \/ Activating
  BY <1>21 DEF ReadProposals, RevokedKept, ActivatedKept, connVars, activationVars
<1>22. ASSUME NEW i \in Invitations, NEW v \in 1..MaxProposals, NEW action \in Decisions,
          DecideProposal(i, v, action)
      PROVE  (RevokedKept /\ ActivatedKept) \/ Activating
  BY <1>22 DEF DecideProposal, RevokedKept, ActivatedKept, connVars, activationVars
<1>23. ASSUME NEW i \in Invitations, NEW v \in 1..MaxProposals,
          Activate(i, v)
      PROVE  (RevokedKept /\ ActivatedKept) \/ Activating
  BY <1>23 DEF Activating
<1>24. ASSUME NEW p \in Properties,
          ProposeVisit(p)
      PROVE  (RevokedKept /\ ActivatedKept) \/ Activating
  BY <1>24 DEF ProposeVisit, RevokedKept, ActivatedKept, connVars, activationVars
<1>25. ASSUME NEW p \in Properties, NEW action \in VisitActions,
          DecideVisit(p, action)
      PROVE  (RevokedKept /\ ActivatedKept) \/ Activating
  BY <1>25 DEF DecideVisit, RevokedKept, ActivatedKept, connVars, activationVars
<1>26. CASE UNCHANGED vars
  BY <1>26 DEF RevokedKept, ActivatedKept, vars, connVars, activationVars
<1> QED
  BY <1>1, <1>2, <1>3, <1>4, <1>5, <1>6, <1>7, <1>8, <1>9, <1>10, <1>11, <1>12, <1>13, <1>14, <1>15, <1>16, <1>17, <1>18, <1>19, <1>20, <1>21, <1>22, <1>23, <1>24, <1>25, <1>26
  DEF Next, ConnectionStep, GrantStep, AssessmentStep, ProposalStep, VisitStep

LEMMA RevokedInvariant ==
    ASSUME TypeOK, RevokedHoldsNothing, [Next]_vars
    PROVE  RevokedHoldsNothing'
<1> SUFFICES ASSUME NEW j \in Invitations, inv'[j] = "revoked"
             PROVE  ~HasActiveGrant(j)' /\ ~cap'[j].active
  BY DEF RevokedHoldsNothing, HasActiveGrant
<1>1. GrantsEvolve
  BY EvolveStep
<1>2. CASE RevokedKept
  <2>1. inv[j] = "revoked" /\ (cap'[j].active => cap[j].active)
    BY <1>2 DEF RevokedKept
  <2> QED
    BY <1>1, <2>1, NoNewHolder DEF RevokedHoldsNothing
<1>3. CASE Activating
  <2>1. PICK i \in Invitations, v \in 1..MaxProposals : Activated(i, v)
    BY <1>3 DEF Activating, Activate
  <2>2. CASE j \in Competing(i)
    <3>1. ~cap'[j].active
      BY <2>1, <2>2 DEF Activated, TypeOK, CapRow
    <3>2. grants'[j] = Revoking(grants[j]) /\ grants[j] \in Seq(GrantRow)
      BY <2>1, <2>2 DEF Activated, TypeOK
    <3>3. ~HasActiveGrant(j)'
      <4>1. \A k \in 1..Len(grants'[j]) : grants'[j][k].status # "active"
        BY <3>2, RevokingRows
      <4>2. DOMAIN grants'[j] = 1..Len(grants'[j])
        BY <3>2, RevokingRows
      <4> QED
        BY <4>1, <4>2 DEF HasActiveGrant
    <3> QED
      BY <3>1, <3>3
  <2>3. CASE j \notin Competing(i)
    <3>1. inv[j] = "revoked" /\ cap'[j] = cap[j]
      BY <2>1, <2>3 DEF Activated, TypeOK
    <3> QED
      BY <1>1, <3>1, NoNewHolder DEF RevokedHoldsNothing
  <2> QED
    BY <2>2, <2>3
<1> QED
  BY <1>2, <1>3, StatusStep

(* RevokedHoldsNothing: a provider whom an activation revoked holds no     *)
(* grant and no capability, and gets none from a request under way.        *)
THEOREM RevokedForGood == Spec => []RevokedHoldsNothing
<1>1. Init => RevokedHoldsNothing
  BY DEF Init, RevokedHoldsNothing
<1>2. TypeOK /\ RevokedHoldsNothing /\ [Next]_vars => RevokedHoldsNothing'
  BY RevokedInvariant
<1> QED
  BY <1>1, <1>2, TypeCorrect, PTL DEF Spec

-----------------------------------------------------------------------------
(* One provider, on what the owner accepted.                               *)

LEMMA ActivationInvariant ==
    ASSUME TypeOK, ActivationFollowsAcceptance, [Next]_vars
    PROVE  ActivationFollowsAcceptance'
<1> DEFINE Accepted(j, a) ==
             /\ a # NoOne
             /\ a[1] = j
             /\ a[2] \in DOMAIN proposals[j]
             /\ proposals[j][a[2]].status = "accepted"
<1>1. ASSUME NEW j \in Invitations, NEW a, Accepted(j, a)
      PROVE  Accepted(j, a)'
  <2>1. /\ proposals[j] \in Seq(ProposalRow) /\ proposals'[j] \in Seq(ProposalRow)
        /\ Len(proposals[j]) <= Len(proposals'[j])
        /\ \A v \in 1..Len(proposals[j]) :
             proposals[j][v].status # "sent" =>
               proposals'[j][v].status = proposals[j][v].status
    BY ProposalsEvolve DEF TypeOK
  <2>2. a[2] \in 1..Len(proposals[j])
    BY <1>1, <2>1
  <2>3. a[2] \in DOMAIN proposals'[j]
    BY <2>1, <2>2
  <2> QED
    BY <1>1, <2>1, <2>2, <2>3
<1>2. \A j \in Invitations : inv[j] = "activated" => Accepted(j, activation[PropertyOf[j]])
  BY DEF ActivationFollowsAcceptance
<1>3. \A p \in Properties : ownerProperty[p] = "provider_setup" <=> activation[p] # NoOne
  BY DEF ActivationFollowsAcceptance
<1>4. SUFFICES /\ \A j \in Invitations :
                     inv'[j] = "activated" => Accepted(j, activation[PropertyOf[j]])'
               /\ \A p \in Properties :
                     ownerProperty'[p] = "provider_setup" <=> activation'[p] # NoOne
  BY DEF ActivationFollowsAcceptance
<1>5. CASE ActivatedKept
  <2>1. ASSUME NEW j \in Invitations, inv'[j] = "activated"
        PROVE  Accepted(j, activation[PropertyOf[j]])'
    <3>1. inv[j] = "activated" /\ activation'[PropertyOf[j]] = activation[PropertyOf[j]]
      BY <1>5, <2>1 DEF ActivatedKept
    <3> QED
      BY <1>1, <1>2, <3>1
  <2> QED
    BY <1>3, <1>5, <2>1 DEF ActivatedKept
<1>6. CASE Activating
  <2>1. PICK i \in Invitations, v \in 1..MaxProposals : Activate(i, v)
    BY <1>6 DEF Activating
  <2>2. PropertyOf \in [Invitations -> Properties]
    BY PropertyAssumption
  <2>3. /\ activation' = [activation EXCEPT ![PropertyOf[i]] = <<i, v>>]
        /\ ownerProperty' = [ownerProperty EXCEPT ![PropertyOf[i]] = "provider_setup"]
        /\ activation[PropertyOf[i]] = NoOne
        /\ v \in DOMAIN proposals[i] /\ proposals[i][v].status = "accepted"
    BY <2>1 DEF Activate, Activatable, Activated
  <2>4. <<i, v>> # NoOne
    BY NoOneAssumption
  <2>5. /\ activation'[PropertyOf[i]] = <<i, v>>
        /\ ownerProperty'[PropertyOf[i]] = "provider_setup"
        /\ \A p \in Properties \ {PropertyOf[i]} :
              activation'[p] = activation[p] /\ ownerProperty'[p] = ownerProperty[p]
    BY <2>2, <2>3 DEF TypeOK
  <2>6. ASSUME NEW j \in Invitations, inv'[j] = "activated"
        PROVE  Accepted(j, activation[PropertyOf[j]])'
    <3>1. CASE j = i
      <4>1. Accepted(i, <<i, v>>)
        <5>1. <<i, v>>[1] = i /\ <<i, v>>[2] = v
          OBVIOUS
        <5> QED
          BY <2>3, <2>4, <5>1
      <4>2. Accepted(i, <<i, v>>)'
        BY <1>1, <4>1
      <4> QED
        BY <2>5, <3>1, <4>2
    <3>2. CASE j # i
      <4>1. inv[j] = "activated"
        BY <2>1, <2>6, <3>2 DEF Activate, Activated, TypeOK, Competing
      <4>2. PropertyOf[j] # PropertyOf[i]
        BY <1>2, <2>3, <4>1
      <4>3. activation'[PropertyOf[j]] = activation[PropertyOf[j]]
        BY <2>2, <2>5, <4>2
      <4> QED
        BY <1>1, <1>2, <4>1, <4>3
    <3> QED
      BY <3>1, <3>2
  <2>7. \A p \in Properties :
          ownerProperty'[p] = "provider_setup" <=> activation'[p] # NoOne
    BY <1>3, <2>4, <2>5
  <2> QED
    BY <2>6, <2>7
<1> QED
  BY <1>5, <1>6, StatusStep

(* ActivationFollowsAcceptance: each property has one activated provider at *)
(* most, on a version that the owner accepted, and is in a provider's setup *)
(* exactly when it has one.                                                 *)
THEOREM OneProvider == Spec => []ActivationFollowsAcceptance
<1>1. Init => ActivationFollowsAcceptance
  BY DEF Init, ActivationFollowsAcceptance
<1>2. TypeOK /\ ActivationFollowsAcceptance /\ [Next]_vars
        => ActivationFollowsAcceptance'
  BY ActivationInvariant
<1> QED
  BY <1>1, <1>2, TypeCorrect, PTL DEF Spec

-----------------------------------------------------------------------------
(* The owner's decisions.                                                  *)

(* The inductive invariant: decisions are about versions of the series, the *)
(* rows agree with them, and one version at most is accepted.               *)
DecisionsInSeries ==
    \A i \in Invitations, v \in Nat, action \in Decisions :
        <<i, v, action>> \in decisions => v \in 1..Len(proposals[i])

RowsAgree ==
    \A i \in Invitations : \A v \in 1..Len(proposals[i]), action \in Decisions :
        proposals[i][v].status = Decided(action) <=> <<i, v, action>> \in decisions

OneAccepted ==
    \A i \in Invitations, v, w \in Nat :
        <<i, v, "accept">> \in decisions /\ <<i, w, "accept">> \in decisions => v = w

DecisionInv == DecisionsInSeries /\ RowsAgree /\ OneAccepted

LEMMA DecisionInvInit == Init => DecisionInv
BY DEF Init, DecisionInv, DecisionsInSeries, RowsAgree, OneAccepted

LEMMA DecisionInvSuffices == TypeOK /\ DecisionInv => DecisionAgreement
<1> SUFFICES ASSUME TypeOK, DecisionInv PROVE DecisionAgreement
  OBVIOUS
<1>1. ASSUME NEW i \in Invitations, NEW v \in DOMAIN proposals[i],
             NEW action \in Decisions
      PROVE  (proposals[i][v].status = Decided(action))
               = (<<i, v, action>> \in decisions)
  <2>1. v \in 1..Len(proposals[i])
    BY DEF TypeOK
  <2> QED
    BY <2>1 DEF DecisionInv, RowsAgree
<1>2. ASSUME NEW d \in decisions, NEW e \in decisions,
             d[1] = e[1], d[3] = "accept", e[3] = "accept"
      PROVE  d = e
  <2>1. /\ d \in Invitations \X Nat \X Decisions
        /\ e \in Invitations \X Nat \X Decisions
    BY DEF TypeOK
  <2>2. /\ d = <<d[1], d[2], "accept">> /\ e = <<d[1], e[2], "accept">>
        /\ d[1] \in Invitations /\ d[2] \in Nat /\ e[2] \in Nat
    BY <1>2, <2>1
  <2>3. d[2] = e[2]
    BY <2>2 DEF DecisionInv, OneAccepted
  <2> QED
    BY <2>2, <2>3
<1> QED
  BY <1>1, <1>2 DEF DecisionAgreement

LEMMA UndecidedStep ==
    ASSUME TypeOK, DecisionInv, Undecided
    PROVE  DecisionInv'
<1>1. \A i \in Invitations :
        /\ proposals[i] \in Seq(ProposalRow) /\ proposals'[i] \in Seq(ProposalRow)
        /\ Len(proposals[i]) \in Nat /\ Len(proposals'[i]) \in Nat
        /\ SeriesMoves(proposals[i], proposals'[i])
  BY DEF TypeOK, Undecided, SeriesEvolve
<1>2. decisions' = decisions
  BY DEF Undecided
<1>3. DecisionsInSeries'
  BY <1>1, <1>2 DEF DecisionInv, DecisionsInSeries, SeriesMoves
<1>4. RowsAgree'
  <2> SUFFICES ASSUME NEW i \in Invitations, NEW v \in 1..Len(proposals'[i]),
                      NEW action \in Decisions
               PROVE  proposals'[i][v].status = Decided(action)
                        <=> <<i, v, action>> \in decisions
    BY <1>2 DEF RowsAgree
  <2>1. Decided(action) \in {"accepted", "declined"}
    BY DEF Decided
  <2>2. CASE v \in 1..Len(proposals[i])
    <3>1. proposals[i][v].status = Decided(action) <=> <<i, v, action>> \in decisions
      BY <2>2 DEF DecisionInv, RowsAgree
    <3>2. \/ proposals'[i][v].status = proposals[i][v].status
          \/ /\ proposals[i][v].status = "sent"
             /\ proposals'[i][v].status \in {"superseded", "expired"}
      BY <1>1, <2>2 DEF SeriesMoves
    <3> QED
      BY <2>1, <3>1, <3>2
  <2>3. CASE v \notin 1..Len(proposals[i])
    <3>1. proposals'[i][v].status = "sent"
      BY <1>1, <2>3 DEF SeriesMoves
    <3>2. <<i, v, action>> \notin decisions
      BY <1>1, <2>3 DEF DecisionInv, DecisionsInSeries
    <3> QED
      BY <2>1, <3>1, <3>2
  <2> QED
    BY <2>2, <2>3
<1>5. OneAccepted'
  BY <1>2 DEF DecisionInv, OneAccepted
<1> QED
  BY <1>3, <1>4, <1>5 DEF DecisionInv

(* A version is decided once, and accepted while no other is.              *)
LEMMA DecidingStep ==
    ASSUME TypeOK, DecisionInv, NEW i \in Invitations, NEW v \in 1..MaxProposals,
           NEW action \in Decisions, DecideProposal(i, v, action)
    PROVE  DecisionInv'
<1>1. /\ v \in 1..Len(proposals[i])
      /\ proposals[i][v].status = "sent"
      /\ \A j \in Invitations \ {i} : proposals'[j] = proposals[j]
      /\ Len(proposals'[i]) = Len(proposals[i])
      /\ proposals'[i][v].status = Decided(action)
      /\ \A w \in 1..Len(proposals[i]) : w # v =>
           \/ proposals'[i][w].status = proposals[i][w].status
           \/ /\ proposals[i][w].status = "sent"
              /\ proposals'[i][w].status = "expired"
  BY DecideProposalRows
<1>2. /\ decisions' = decisions \cup {<<i, v, action>>}
      /\ action = "accept" => ~HasProposal(i, "accepted")
  BY DEF DecideProposal
<1>3. \A j \in Invitations : Len(proposals'[j]) = Len(proposals[j])
  BY <1>1
<1>4. \A a \in Decisions : /\ Decided(a) \in {"accepted", "declined"}
                           /\ Decided(a) = Decided(action) => a = action
  BY DEF Decided, Decisions
<1>5. DecisionsInSeries'
  BY <1>1, <1>2, <1>3 DEF DecisionInv, DecisionsInSeries
<1>6. RowsAgree'
  <2> SUFFICES ASSUME NEW j \in Invitations, NEW w \in 1..Len(proposals'[j]),
                      NEW a \in Decisions
               PROVE  proposals'[j][w].status = Decided(a)
                        <=> <<j, w, a>> \in decisions'
    BY DEF RowsAgree
  <2>1. w \in 1..Len(proposals[j])
    BY <1>3
  <2>2. proposals[j][w].status = Decided(a) <=> <<j, w, a>> \in decisions
    BY <2>1 DEF DecisionInv, RowsAgree
  <2>3. CASE j = i /\ w = v
    <3>1. <<j, w, a>> \notin decisions
      BY <1>1, <1>4, <2>2, <2>3
    <3>2. <<j, w, a>> \in decisions' <=> a = action
      BY <1>2, <2>3, <3>1
    <3> QED
      BY <1>1, <1>4, <2>3, <3>2
  <2>4. CASE ~(j = i /\ w = v)
    <3>1. <<j, w, a>> \in decisions' <=> <<j, w, a>> \in decisions
      BY <1>2, <2>4
    <3>2. \/ proposals'[j][w].status = proposals[j][w].status
          \/ /\ proposals[j][w].status = "sent"
             /\ proposals'[j][w].status = "expired"
      BY <1>1, <2>1, <2>4
    <3> QED
      BY <1>4, <2>2, <3>1, <3>2
  <2> QED
    BY <2>3, <2>4
<1>7. OneAccepted'
  <2>1. ASSUME action = "accept", NEW w \in Nat
        PROVE  <<i, w, "accept">> \notin decisions
    <3> SUFFICES ASSUME <<i, w, "accept">> \in decisions PROVE FALSE
      OBVIOUS
    <3>1. w \in 1..Len(proposals[i])
      BY DEF DecisionInv, DecisionsInSeries, Decisions
    <3>2. proposals[i][w].status = "accepted"
      BY <3>1 DEF DecisionInv, RowsAgree, Decisions, Decided
    <3>3. w \in DOMAIN proposals[i]
      BY <3>1 DEF TypeOK
    <3> QED
      BY <1>2, <2>1, <3>2, <3>3 DEF HasProposal
  <2> SUFFICES ASSUME NEW j \in Invitations, NEW w \in Nat, NEW x \in Nat,
                      <<j, w, "accept">> \in decisions',
                      <<j, x, "accept">> \in decisions'
               PROVE  w = x
    BY DEF OneAccepted
  <2>2. CASE j = i /\ action = "accept"
    BY <1>2, <2>1, <2>2
  <2>3. CASE ~(j = i /\ action = "accept")
    <3>1. <<j, w, "accept">> \in decisions /\ <<j, x, "accept">> \in decisions
      BY <1>2, <2>3
    <3> QED
      BY <3>1 DEF DecisionInv, OneAccepted
  <2> QED
    BY <2>2, <2>3
<1> QED
  BY <1>5, <1>6, <1>7 DEF DecisionInv

LEMMA DecisionInvStep == TypeOK /\ DecisionInv /\ [Next]_vars => DecisionInv'
<1> SUFFICES ASSUME TypeOK, DecisionInv, [Next]_vars PROVE DecisionInv'
  OBVIOUS
<1>1. CASE Undecided
  BY <1>1, UndecidedStep
<1>2. CASE Deciding
  BY <1>2, DecidingStep DEF Deciding
<1> QED
  BY <1>1, <1>2, EvolveStep

(* DecisionAgreement: whatever publications, expiries and other decisions  *)
(* interleave, the owner's decisions and the proposals agree and one       *)
(* version at most is accepted.                                            *)
THEOREM DecidedOnce == Spec => []DecisionAgreement
BY DecisionInvInit, DecisionInvStep, DecisionInvSuffices, TypeCorrect, PTL DEF Spec
=============================================================================

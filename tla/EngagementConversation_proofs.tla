-------------------- MODULE EngagementConversation_proofs --------------------
(***************************************************************************)
(* Proofs about the conversation of owner and provider, and about what the *)
(* owner prepares beside it, for any number of invitations, properties,    *)
(* keys, versions, messages, photographs and requests:                     *)
(*                                                                         *)
(*   ConversationRefines     the conversation is a refinement of the       *)
(*                           engagement: whatever is said, an engagement   *)
(*                           sees its proposals expire and nothing else;   *)
(*   SpeaksInOrder           the conversation moves on with the series;    *)
(*   EngagementTypeCorrect   all the three keep is well typed;             *)
(*   PreparingIsHarmless,    what is proved of the engagement and of the   *)
(*   PreparingReopensNothing conversation holds while the owner prepares;  *)
(*   ActsOnTheNewestBrief    a provider acts on the newest brief of a      *)
(*                           property that is connecting or in its setup.  *)
(*                                                                         *)
(* By the refinement, what is proved of the engagement holds while its     *)
(* parties talk.  The order needs one fact about the engagement itself: a  *)
(* series of proposals begins only when the assessment is completed, so    *)
(* that nobody speaks about the assessment afterwards.                     *)
(*                                                                         *)
(* What the owner prepares is no refinement: a saved brief ends what       *)
(* several invitations were sent with in one step.  The invariants of the  *)
(* engagement are shown to survive it.                                     *)
(***************************************************************************)
EXTENDS OwnerProvider, ProviderEngagement_proofs

talkNext == ConversationStep \/ (Next /\ UNCHANGED talkVars)

(* What a message does: to the engagement, and to the conversation.        *)
LEMMA ConversationIsRead == ConversationStep => [Next]_vars
<1> SUFFICES ASSUME NEW i \in Invitations, Expiring(i) PROVE [Next]_vars
  BY DEF ConversationStep, create_owner_provider_assessment_message,
         create_provider_assessment_message,
         create_provider_assessment_private_note,
         create_owner_initial_service_proposal_message,
         create_provider_initial_service_proposal_response
<1>1. ReadProposals(i)
  BY DEF Expiring, ReadProposals
<1> QED
  BY <1>1 DEF Next, ProposalStep

LEMMA EngagementMoves == [talkNext]_<<vars, talkVars>> => [Next]_vars
BY ConversationIsRead DEF talkNext

(* ConversationSpec implements the engagement's Spec.                      *)
THEOREM ConversationRefines == ConversationSpec => Spec
<1> QED
  BY EngagementMoves, PTL DEF ConversationSpec, Spec, talkNext

-----------------------------------------------------------------------------
(* A series begins when the assessment is completed, and a completed       *)
(* assessment stays completed.                                             *)
SeriesAfterAssessment ==
    \A i \in Invitations :
        i \in publishing \/ Len(proposals[i]) > 0 => assess[i].status = "completed"

LEMMA SeriesInit == Init => SeriesAfterAssessment
BY DEF Init, SeriesAfterAssessment

(* What a step may do to one invitation's series and assessment.           *)
SeriesGuarded ==
    \A j \in Invitations :
        /\ assess[j].status = "completed" => assess'[j].status = "completed"
        /\ j \in publishing' => j \in publishing \/ assess'[j].status = "completed"
        /\ \/ Len(proposals'[j]) = Len(proposals[j])
           \/ j \in publishing

LEMMA SameLength ==
    ASSUME TypeOK, NEW i \in Invitations, NEW t,
           proposals' = [proposals EXCEPT ![i] = t], Len(t) = Len(proposals[i])
    PROVE  \A j \in Invitations : Len(proposals'[j]) = Len(proposals[j])
BY DEF TypeOK

LEMMA ExpiryLength ==
    ASSUME TypeOK, NEW i \in Invitations,
           proposals' = [proposals EXCEPT ![i] = ExpireDue(proposals[i])]
    PROVE  \A j \in Invitations : Len(proposals'[j]) = Len(proposals[j])
<1>1. Len(ExpireDue(proposals[i])) = Len(proposals[i])
  BY ExpireDueRows DEF TypeOK
<1> QED
  BY <1>1, SameLength

LEMMA SeriesGuardedStep == TypeOK /\ [Next]_vars => SeriesGuarded
<1> SUFFICES ASSUME TypeOK, [Next]_vars PROVE SeriesGuarded
  OBVIOUS
<1>1. ASSUME NEW i \in Invitations,
          OpenInvitation(i)
      PROVE  SeriesGuarded
  BY <1>1 DEF OpenInvitation, SeriesGuarded, proposalVars
<1>2. ASSUME NEW i \in Invitations,
          ExpressInterest(i)
      PROVE  SeriesGuarded
  BY <1>2 DEF ExpressInterest, SeriesGuarded, proposalVars
<1>3. ASSUME NEW i \in Invitations,
          CloseCapability(i)
      PROVE  SeriesGuarded
  BY <1>3 DEF CloseCapability, SeriesGuarded, proposalVars
<1>4. ASSUME NEW i \in Invitations,
          CloseInvitation(i)
      PROVE  SeriesGuarded
  BY <1>4 DEF CloseInvitation, SeriesGuarded, proposalVars
<1>5. ASSUME NEW i \in Invitations,
          ChangeMembership(i)
      PROVE  SeriesGuarded
  BY <1>5 DEF ChangeMembership, SeriesGuarded, proposalVars
<1>6. ASSUME NEW i \in Invitations,
          LoseCurrency(i)
      PROVE  SeriesGuarded
  BY <1>6 DEF LoseCurrency, SeriesGuarded, proposalVars
<1>7. ASSUME NEW i \in Invitations,
          Lapse(i)
      PROVE  SeriesGuarded
  BY <1>7 DEF Lapse, SeriesGuarded, proposalVars
<1>8. ASSUME NEW i \in Invitations, NEW v \in 1..MaxProposals,
          FallDue(i, v)
      PROVE  SeriesGuarded
  <2>1. proposals[i] \in Seq(ProposalRow) /\ v \in 1..Len(proposals[i])
    BY <1>8 DEF FallDue, TypeOK
  <2>2. proposals' = [proposals EXCEPT ![i] = [proposals[i] EXCEPT ![v].due = TRUE]]
    BY <1>8 DEF FallDue, TypeOK
  <2>3. Len([proposals[i] EXCEPT ![v].due = TRUE]) = Len(proposals[i])
    BY <2>1, DueRows
  <2> QED
    BY <1>8, <2>2, <2>3, SameLength DEF FallDue, SeriesGuarded
<1>9. ASSUME NEW i \in Invitations,
          GrantScan(i)
      PROVE  SeriesGuarded
  BY <1>9 DEF GrantScan, SeriesGuarded, proposalVars
<1>10. ASSUME NEW i \in Invitations,
          GrantCommit(i)
      PROVE  SeriesGuarded
  BY <1>10 DEF GrantCommit, NewGrant, SeriesGuarded, proposalVars
<1>11. ASSUME NEW i \in Invitations,
          GrantRollback(i)
      PROVE  SeriesGuarded
  BY <1>11 DEF GrantRollback, SeriesGuarded, proposalVars
<1>12. ASSUME NEW i \in Invitations, NEW k \in 1..MaxGrants,
          OpenDisclosure(i, k)
      PROVE  SeriesGuarded
  <2>1. \/ UNCHANGED proposals
        \/ proposals' = [proposals EXCEPT ![i] = ExpireDue(proposals[i])]
    BY <1>12 DEF OpenDisclosure, CloseDisclosure, SuspendDisclosure, Disclose,
                 ReconcileGrant
  <2>2. \A j \in Invitations : Len(proposals'[j]) = Len(proposals[j])
    BY <2>1, ExpiryLength
  <2> QED
    BY <1>12, <2>2 DEF OpenDisclosure, OpensGrant, SeriesGuarded
<1>13. ASSUME NEW i \in Invitations, NEW k \in 1..MaxGrants,
          RevokeGrant(i, k)
      PROVE  SeriesGuarded
  BY <1>13 DEF RevokeGrant, SeriesGuarded, proposalVars
<1>14. ASSUME NEW i \in Invitations, NEW k \in 1..MaxGrants, NEW method \in Methods,
          CreateAssessment(i, k, method)
      PROVE  SeriesGuarded
  BY <1>14 DEF CreateAssessment, TypeOK, AssessRow, SeriesGuarded, proposalVars
<1>15. ASSUME NEW i \in Invitations,
          ProposeWindow(i)
      PROVE  SeriesGuarded
  BY <1>15 DEF ProposeWindow, TypeOK, AssessRow, SeriesGuarded, proposalVars
<1>16. ASSUME NEW i \in Invitations, NEW next \in AssessStatus,
          DecideWindow(i, next)
      PROVE  SeriesGuarded
  BY <1>16 DEF DecideWindow, TypeOK, AssessRow, SeriesGuarded, proposalVars
<1>17. ASSUME NEW i \in Invitations, NEW next \in AssessStatus,
          TransitionAssessment(i, next)
      PROVE  SeriesGuarded
  <2>1. assess[i].status # "completed"
    BY <1>17 DEF TransitionAssessment, AssessmentTransition, OpenAssessment
  <2> QED
    BY <1>17, <2>1 DEF TransitionAssessment, TypeOK, SeriesGuarded, proposalVars
<1>18. ASSUME NEW i \in Invitations,
          PublishBegin(i)
      PROVE  SeriesGuarded
  <2>1. \A j \in Invitations : Len(proposals'[j]) = Len(proposals[j])
    BY <1>18, ExpiryLength DEF PublishBegin
  <2> QED
    BY <1>18, <2>1 DEF PublishBegin, SeriesGuarded
<1>19. ASSUME NEW i \in Invitations,
          PublishCommit(i)
      PROVE  SeriesGuarded
  BY <1>19 DEF PublishCommit, SeriesGuarded, TypeOK
<1>20. ASSUME NEW i \in Invitations,
          PublishRollback(i)
      PROVE  SeriesGuarded
  BY <1>20 DEF PublishRollback, SeriesGuarded, proposalVars
<1>21. ASSUME NEW i \in Invitations,
          ReadProposals(i)
      PROVE  SeriesGuarded
  <2>1. \A j \in Invitations : Len(proposals'[j]) = Len(proposals[j])
    BY <1>21, ExpiryLength DEF ReadProposals
  <2> QED
    BY <1>21, <2>1 DEF ReadProposals, SeriesGuarded
<1>22. ASSUME NEW i \in Invitations, NEW v \in 1..MaxProposals, NEW action \in Decisions,
          DecideProposal(i, v, action)
      PROVE  SeriesGuarded
  <2>1. \A j \in Invitations : Len(proposals'[j]) = Len(proposals[j])
    BY <1>22, DecideProposalRows
  <2> QED
    BY <1>22, <2>1 DEF DecideProposal, SeriesGuarded
<1>23. ASSUME NEW i \in Invitations, NEW v \in 1..MaxProposals,
          Activate(i, v)
      PROVE  SeriesGuarded
  BY <1>23 DEF Activate, Activated, SeriesGuarded, proposalVars
<1>24. ASSUME NEW p \in Properties,
          ProposeVisit(p)
      PROVE  SeriesGuarded
  BY <1>24 DEF ProposeVisit, SeriesGuarded, proposalVars
<1>25. ASSUME NEW p \in Properties, NEW action \in VisitActions,
          DecideVisit(p, action)
      PROVE  SeriesGuarded
  BY <1>25 DEF DecideVisit, SeriesGuarded, proposalVars
<1>26. CASE UNCHANGED vars
  BY <1>26 DEF SeriesGuarded, vars, proposalVars
<1> QED
  BY <1>1, <1>2, <1>3, <1>4, <1>5, <1>6, <1>7, <1>8, <1>9, <1>10, <1>11, <1>12, <1>13, <1>14, <1>15, <1>16, <1>17, <1>18, <1>19, <1>20, <1>21, <1>22, <1>23, <1>24, <1>25, <1>26
  DEF Next, ConnectionStep, GrantStep, AssessmentStep, ProposalStep, VisitStep

LEMMA SeriesStep ==
    TypeOK /\ SeriesAfterAssessment /\ [Next]_vars => SeriesAfterAssessment'
<1> SUFFICES ASSUME TypeOK, SeriesAfterAssessment, [Next]_vars,
                    NEW j \in Invitations,
                    j \in publishing' \/ Len(proposals'[j]) > 0
             PROVE  assess'[j].status = "completed"
  BY DEF SeriesAfterAssessment
<1>1. SeriesGuarded
  BY SeriesGuardedStep
<1> QED
  BY <1>1 DEF SeriesGuarded, SeriesAfterAssessment

-----------------------------------------------------------------------------
(* The inductive invariant of the conversation, of one invitation's        *)
(* messages s and the number of versions len.                              *)
Placed(s, len) ==
    \A n \in 1..Len(s) :
        /\ s[n].series <= len
        /\ s[n].about <= s[n].series
        /\ s[n].to < n
        /\ s[n].to # 0 => /\ s[s[n].to].by = "owner"
                          /\ s[s[n].to].about = s[n].about
                          /\ s[n].about # 0

InOrder(s) == \A m, n \in 1..Len(s) : m < n => s[m].series <= s[n].series

OnceEach(s) ==
    \A m, n \in 1..Len(s) :
        /\ s[m].by = s[n].by /\ s[m].key = s[n].key
        /\ (s[m].series = 0) = (s[n].series = 0)
        => m = n

TalkInv ==
    \A i \in Invitations :
        Placed(talk[i], Len(proposals[i])) /\ InOrder(talk[i]) /\ OnceEach(talk[i])

LEMMA EntryNumbers ==
    \A e \in Entry : e.to \in Nat /\ e.series \in Nat /\ e.about \in Nat
BY DEF Entry

(* A message that is written after the others.                             *)
LEMMA AppendedTalk ==
    ASSUME NEW s \in Seq(Entry), NEW e \in Entry, NEW len \in Nat,
           Placed(s, len), InOrder(s), OnceEach(s),
           e.series <= len, e.about <= e.series,
           \A n \in 1..Len(s) : s[n].series <= e.series,
           e.to # 0 => /\ e.to \in 1..Len(s)
                       /\ s[e.to].by = "owner" /\ s[e.to].about = e.about
                       /\ e.about # 0,
           ~ \E m \in DOMAIN s : /\ s[m].by = e.by /\ s[m].key = e.key
                                 /\ (s[m].series # 0) = (e.series # 0)
    PROVE  LET t == Append(s, e) IN
           t \in Seq(Entry) /\ Placed(t, len) /\ InOrder(t) /\ OnceEach(t)
<1> DEFINE t == Append(s, e)
<1>1. /\ t \in Seq(Entry) /\ Len(s) \in Nat /\ Len(t) = Len(s) + 1
      /\ t[Len(s) + 1] = e
      /\ \A n \in 1..Len(s) : t[n] = s[n]
      /\ DOMAIN s = 1..Len(s)
  OBVIOUS
<1>2. /\ e.to \in Nat /\ e.series \in Nat /\ e.about \in Nat
      /\ \A n \in 1..Len(s) : s[n].to \in Nat /\ s[n].series \in Nat
  <2>1. \A n \in 1..Len(s) : s[n] \in Entry
    OBVIOUS
  <2> QED
    BY <2>1, EntryNumbers
<1> HIDE DEF t
<1>3. Placed(t, len)
  <2> SUFFICES ASSUME NEW n \in 1..Len(t)
               PROVE  /\ t[n].series <= len
                      /\ t[n].about <= t[n].series
                      /\ t[n].to < n
                      /\ t[n].to # 0 => /\ t[t[n].to].by = "owner"
                                        /\ t[t[n].to].about = t[n].about
                                        /\ t[n].about # 0
    BY DEF Placed
  <2>1. CASE n \in 1..Len(s)
    <3>1. t[n] = s[n] /\ s[n].to \in Nat
      BY <1>1, <1>2, <2>1
    <3>2. /\ s[n].series <= len
          /\ s[n].about <= s[n].series
          /\ s[n].to < n
          /\ s[n].to # 0 => /\ s[s[n].to].by = "owner"
                            /\ s[s[n].to].about = s[n].about
                            /\ s[n].about # 0
      BY <2>1 DEF Placed
    <3>3. s[n].to # 0 => s[n].to \in 1..Len(s)
      BY <1>1, <2>1, <3>1, <3>2
    <3>4. s[n].to # 0 => t[s[n].to] = s[s[n].to]
      BY <1>1, <3>3
    <3> QED
      BY <3>1, <3>2, <3>4
  <2>2. CASE n = Len(s) + 1
    <3>1. t[n] = e
      BY <1>1, <2>2
    <3>2. e.to < n
      BY <1>1, <1>2, <2>2
    <3>3. e.to # 0 => t[e.to] = s[e.to]
      BY <1>1
    <3> QED
      BY <3>1, <3>2, <3>3
  <2> QED
    BY <1>1, <2>1, <2>2
<1>4. InOrder(t)
  <2> SUFFICES ASSUME NEW m \in 1..Len(t), NEW n \in 1..Len(t), m < n
               PROVE  t[m].series <= t[n].series
    BY DEF InOrder
  <2>1. m \in 1..Len(s) /\ t[m] = s[m]
    BY <1>1
  <2>2. CASE n \in 1..Len(s)
    BY <1>1, <2>1, <2>2 DEF InOrder
  <2>3. CASE n = Len(s) + 1
    BY <1>1, <2>1, <2>3
  <2> QED
    BY <1>1, <2>2, <2>3
<1>5. OnceEach(t)
  <2> SUFFICES ASSUME NEW m \in 1..Len(t), NEW n \in 1..Len(t),
                      t[m].by = t[n].by, t[m].key = t[n].key,
                      (t[m].series = 0) = (t[n].series = 0)
               PROVE  m = n
    BY DEF OnceEach
  <2>1. CASE m \in 1..Len(s) /\ n \in 1..Len(s)
    BY <1>1, <2>1 DEF OnceEach
  <2>2. CASE m \in 1..Len(s) /\ n = Len(s) + 1
    BY <1>1, <2>2
  <2>3. CASE m = Len(s) + 1 /\ n \in 1..Len(s)
    BY <1>1, <2>3
  <2>4. CASE m = Len(s) + 1 /\ n = Len(s) + 1
    BY <2>4
  <2> QED
    BY <1>1, <2>1, <2>2, <2>3, <2>4
<1> QED
  BY <1>1, <1>3, <1>4, <1>5 DEF t

LEMMA SayKeeps ==
    ASSUME TypeOK, TalkTypeOK, TalkInv, NEW i \in Invitations,
           NEW by \in Authors, NEW key \in TextKeys,
           NEW about \in 0..MaxProposals, NEW series \in 0..MaxProposals,
           NEW to \in 0..MaxTalk,
           Say(i, by, key, about, series, to),
           \A j \in Invitations : Len(proposals'[j]) = Len(proposals[j]),
           series <= Len(proposals[i]), about <= series,
           \A n \in 1..Len(talk[i]) : talk[i][n].series <= series,
           to # 0 => /\ to \in 1..Len(talk[i])
                     /\ talk[i][to].by = "owner" /\ talk[i][to].about = about
                     /\ about # 0
    PROVE  TalkTypeOK' /\ TalkInv'
<1> DEFINE e == [by |-> by, key |-> key, about |-> about, series |-> series, to |-> to]
<1>1. /\ e \in Entry
      /\ e.by = by /\ e.key = key /\ e.about = about /\ e.series = series /\ e.to = to
  BY DEF Entry
<1>2. talk' = [talk EXCEPT ![i] = Append(talk[i], e)]
  BY DEF Say
<1>3. ~ \E m \in DOMAIN talk[i] : /\ talk[i][m].by = e.by /\ talk[i][m].key = e.key
                                  /\ (talk[i][m].series # 0) = (e.series # 0)
  BY <1>1 DEF Say, Said
<1>4. /\ talk[i] \in Seq(Entry) /\ Len(proposals[i]) \in Nat
      /\ Placed(talk[i], Len(proposals[i])) /\ InOrder(talk[i]) /\ OnceEach(talk[i])
  BY DEF TalkTypeOK, TypeOK, TalkInv
<1> HIDE DEF e
<1>5. /\ Append(talk[i], e) \in Seq(Entry)
      /\ Placed(Append(talk[i], e), Len(proposals[i]))
      /\ InOrder(Append(talk[i], e)) /\ OnceEach(Append(talk[i], e))
  BY <1>1, <1>3, <1>4, AppendedTalk
<1>6. TalkTypeOK'
  BY <1>2, <1>5 DEF TalkTypeOK
<1>7. /\ talk'[i] = Append(talk[i], e)
      /\ \A j \in Invitations \ {i} : talk'[j] = talk[j]
  BY <1>2 DEF TalkTypeOK
<1>8. TalkInv'
  BY <1>5, <1>7 DEF TalkInv
<1> QED
  BY <1>6, <1>8

(* While the assessment is open, nothing is said about proposals.          *)
LEMMA AssessmentTalk ==
    ASSUME TypeOK, TalkTypeOK, TalkInv, SeriesAfterAssessment,
           NEW i \in Invitations, NEW by \in Authors, NEW key \in TextKeys,
           assessment_accepts_communication(i), Say(i, by, key, 0, 0, 0),
           UNCHANGED vars
    PROVE  TalkTypeOK' /\ TalkInv'
<1>1. Len(proposals[i]) = 0
  <2>1. assess[i].status # "completed"
    BY DEF assessment_accepts_communication, OpenAssessment
  <2>2. Len(proposals[i]) \in Nat
    BY DEF TypeOK
  <2> QED
    BY <2>1, <2>2 DEF SeriesAfterAssessment
<1>2. \A n \in 1..Len(talk[i]) : talk[i][n].series <= 0
  BY <1>1 DEF TalkInv, Placed
<1>3. 0 \in 0..MaxProposals /\ 0 \in 0..MaxTalk
  BY BoundAssumption, TalkAssumption
<1>4. \A j \in Invitations : Len(proposals'[j]) = Len(proposals[j])
  BY DEF vars, proposalVars
<1> QED
  BY <1>1, <1>2, <1>3, <1>4, SayKeeps

(* What is said about proposals is said of the newest version.             *)
LEMMA ProposalTalk ==
    ASSUME TypeOK, TalkTypeOK, TalkInv, NEW i \in Invitations,
           NEW by \in Authors, NEW key \in TextKeys, NEW v \in 1..MaxProposals,
           NEW about \in 1..MaxProposals, NEW to \in 0..MaxTalk,
           Decidable(i, v), Expiring(i), about <= v,
           Say(i, by, key, about, v, to),
           to # 0 => /\ to \in 1..Len(talk[i])
                     /\ talk[i][to].by = "owner" /\ talk[i][to].about = about
    PROVE  TalkTypeOK' /\ TalkInv'
<1>1. v = Len(proposals[i])
  BY DEF Decidable
<1>2. \A n \in 1..Len(talk[i]) : talk[i][n].series <= v
  BY <1>1 DEF TalkInv, Placed
<1>3. \A j \in Invitations : Len(proposals'[j]) = Len(proposals[j])
  BY ExpiryLength DEF Expiring
<1>4. v \in 0..MaxProposals /\ about \in 0..MaxProposals /\ v <= v /\ about # 0
  BY BoundAssumption
<1> QED
  BY <1>1, <1>2, <1>3, <1>4, SayKeeps

LEMMA TalkStep ==
    ASSUME TypeOK, TalkTypeOK, TalkInv, SeriesAfterAssessment, ConversationStep
    PROVE  TalkTypeOK' /\ TalkInv'
<1> PICK i \in Invitations, key \in TextKeys :
      \/ create_owner_provider_assessment_message(i, key)
      \/ create_provider_assessment_message(i, key)
      \/ create_provider_assessment_private_note(i, key)
      \/ \E v \in 1..MaxProposals :
            \/ create_owner_initial_service_proposal_message(i, v, key)
            \/ \E m \in 1..MaxTalk :
                  create_provider_initial_service_proposal_response(i, v, m, key)
  BY DEF ConversationStep
<1>1. "owner" \in Authors /\ "provider" \in Authors /\ "note" \in Authors
  BY DEF Authors
<1>2. CASE create_owner_provider_assessment_message(i, key)
  BY <1>1, <1>2, AssessmentTalk
  DEF create_owner_provider_assessment_message,
      insert_owner_provider_assessment_message
<1>3. CASE create_provider_assessment_message(i, key)
  BY <1>1, <1>3, AssessmentTalk
  DEF create_provider_assessment_message, insert_owner_provider_assessment_message
<1>4. CASE create_provider_assessment_private_note(i, key)
  BY <1>1, <1>4, AssessmentTalk DEF create_provider_assessment_private_note
<1>5. ASSUME NEW v \in 1..MaxProposals,
             create_owner_initial_service_proposal_message(i, v, key)
      PROVE  TalkTypeOK' /\ TalkInv'
  <2>1. Decidable(i, v) /\ Say(i, "owner", key, v, v, 0) /\ Expiring(i)
    BY <1>5 DEF create_owner_initial_service_proposal_message
  <2>2. 0 \in 0..MaxTalk /\ v <= v
    BY TalkAssumption
  <2> QED
    BY <1>1, <2>1, <2>2, ProposalTalk
<1>6. ASSUME NEW v \in 1..MaxProposals, NEW m \in 1..MaxTalk,
             create_provider_initial_service_proposal_response(i, v, m, key)
      PROVE  TalkTypeOK' /\ TalkInv'
  <2>1. /\ Decidable(i, v) /\ Expiring(i)
        /\ m \in DOMAIN talk[i]
        /\ talk[i][m].by = "owner" /\ talk[i][m].about # 0
        /\ Say(i, "provider", key, talk[i][m].about, v, m)
    BY <1>6 DEF create_provider_initial_service_proposal_response, OpenVersion
  <2>2. m \in 1..Len(talk[i]) /\ talk[i][m] \in Entry
    BY <2>1 DEF TalkTypeOK
  <2>3. talk[i][m].about \in 1..MaxProposals /\ talk[i][m].series \in Nat
    BY <2>1, <2>2, BoundAssumption DEF Entry
  <2>4. talk[i][m].about <= talk[i][m].series /\ talk[i][m].series <= v
    BY <2>1, <2>2 DEF TalkInv, Placed, Decidable
  <2>5. talk[i][m].about <= v
    BY <2>3, <2>4
  <2>6. m \in 0..MaxTalk
    OBVIOUS
  <2> QED
    BY <1>1, <2>1, <2>2, <2>3, <2>5, <2>6, ProposalTalk
<1> QED
  BY <1>2, <1>3, <1>4, <1>5, <1>6

(* The engagement's own steps say nothing and never shorten a series.      *)
LEMMA SilentStep ==
    ASSUME TypeOK, TalkTypeOK, TalkInv, [Next]_vars, UNCHANGED talkVars
    PROVE  TalkTypeOK' /\ TalkInv'
<1>1. talk' = talk
  BY DEF talkVars
<1>2. \A i \in Invitations :
        /\ Len(proposals[i]) <= Len(proposals'[i])
        /\ Len(proposals[i]) \in Nat /\ Len(proposals'[i]) \in Nat
  BY ProposalsEvolve DEF TypeOK
<1>3. \A i \in Invitations : Placed(talk[i], Len(proposals'[i]))
  <2> SUFFICES ASSUME NEW i \in Invitations, NEW n \in 1..Len(talk[i])
               PROVE  talk[i][n].series <= Len(proposals'[i])
    BY DEF TalkInv, Placed
  <2>1. talk[i][n] \in Entry /\ talk[i][n].series <= Len(proposals[i])
    BY DEF TalkTypeOK, TalkInv, Placed
  <2> QED
    BY <1>2, <2>1, EntryNumbers
<1> QED
  BY <1>1, <1>3 DEF TalkTypeOK, TalkInv

LEMMA TalkInvSuffices == TypeOK /\ TalkTypeOK /\ TalkInv => ConversationMovesOn
<1> SUFFICES ASSUME TypeOK, TalkTypeOK, TalkInv, NEW i \in Invitations,
                    NEW m \in DOMAIN talk[i], NEW n \in DOMAIN talk[i]
             PROVE  LET a == talk[i][m]
                        b == talk[i][n]
                    IN /\ m < n => a.series <= b.series
                       /\ b.series <= Len(proposals[i])
                       /\ a.by = b.by /\ a.key = b.key
                          /\ (a.series = 0) = (b.series = 0) => m = n
                       /\ b.to = m => m < n /\ a.by = "owner" /\ a.about = b.about
                                      /\ b.about \in 1..b.series
  BY DEF ConversationMovesOn
<1>1. m \in 1..Len(talk[i]) /\ n \in 1..Len(talk[i]) /\ talk[i][n] \in Entry
  BY DEF TalkTypeOK
<1>2. talk[i][n].about \in Nat /\ talk[i][n].series \in Nat
  BY <1>1, EntryNumbers
<1>3. /\ talk[i][n].series <= Len(proposals[i])
      /\ talk[i][n].about <= talk[i][n].series
      /\ talk[i][n].to < n
      /\ talk[i][n].to # 0 => /\ talk[i][talk[i][n].to].by = "owner"
                              /\ talk[i][talk[i][n].to].about = talk[i][n].about
                              /\ talk[i][n].about # 0
  BY <1>1 DEF TalkInv, Placed
<1>4. m < n => talk[i][m].series <= talk[i][n].series
  BY <1>1 DEF TalkInv, InOrder
<1>5. /\ talk[i][m].by = talk[i][n].by /\ talk[i][m].key = talk[i][n].key
      /\ (talk[i][m].series = 0) = (talk[i][n].series = 0)
      => m = n
  BY <1>1 DEF TalkInv, OnceEach
<1>6. talk[i][n].to = m => talk[i][n].about \in 1..talk[i][n].series
  BY <1>1, <1>2, <1>3
<1>7. m # 0
  BY <1>1
<1> QED
  BY <1>3, <1>4, <1>5, <1>6, <1>7

(* ConversationMovesOn: however late a page speaks and however often its   *)
(* request arrives, the conversation moves on with the series, says        *)
(* everything once and answers what was asked.                             *)
THEOREM SpeaksInOrder == ConversationSpec => []ConversationMovesOn
<1> DEFINE IInv == TypeOK /\ SeriesAfterAssessment /\ TalkTypeOK /\ TalkInv
<1>1. Init /\ TalkInit => IInv
  <2> SUFFICES ASSUME Init, TalkInit PROVE IInv
    OBVIOUS
  <2>1. TalkTypeOK /\ TalkInv
    BY DEF TalkInit, TalkTypeOK, TalkInv, Placed, InOrder, OnceEach
  <2> QED
    BY <2>1, TypeInit, SeriesInit
<1>2. IInv /\ [talkNext]_<<vars, talkVars>> => IInv'
  <2> SUFFICES ASSUME IInv, [talkNext]_<<vars, talkVars>> PROVE IInv'
    OBVIOUS
  <2>1. [Next]_vars
    BY EngagementMoves
  <2>2. TypeOK' /\ SeriesAfterAssessment'
    BY <2>1, TypeStep, SeriesStep
  <2>3. CASE ConversationStep
    BY <2>2, <2>3, TalkStep
  <2>4. CASE UNCHANGED talkVars
    BY <2>1, <2>2, <2>4, SilentStep
  <2> QED
    BY <2>3, <2>4 DEF talkNext
<1>3. IInv => ConversationMovesOn
  BY TalkInvSuffices
<1> QED
  BY <1>1, <1>2, <1>3, PTL DEF ConversationSpec, talkNext

-----------------------------------------------------------------------------
(* The owner prepares beside the engagement.                               *)

EngagementInv ==
    /\ TypeOK /\ SeriesAfterAssessment /\ TalkTypeOK /\ TalkInv
    /\ DecisionInv /\ ActivationFollowsAcceptance /\ RevokedHoldsNothing

LEMMA EngagementInvInit == Init /\ TalkInit => EngagementInv
<1> SUFFICES ASSUME Init, TalkInit PROVE EngagementInv
  OBVIOUS
<1>1. TypeOK /\ SeriesAfterAssessment /\ DecisionInv
  BY TypeInit, SeriesInit, DecisionInvInit
<1>2. TalkTypeOK /\ TalkInv
  BY DEF TalkInit, TalkTypeOK, TalkInv, Placed, InOrder, OnceEach
<1>3. ActivationFollowsAcceptance /\ RevokedHoldsNothing
  BY DEF Init, ActivationFollowsAcceptance, RevokedHoldsNothing
<1> QED
  BY <1>1, <1>2, <1>3 DEF EngagementInv

LEMMA EngagementInvStep == EngagementInv /\ [talkNext]_<<vars, talkVars>> => EngagementInv'
<1> SUFFICES ASSUME EngagementInv, [talkNext]_<<vars, talkVars>> PROVE EngagementInv'
  OBVIOUS
<1>1. [Next]_vars
  BY EngagementMoves
<1>2. /\ TypeOK /\ SeriesAfterAssessment /\ TalkTypeOK /\ TalkInv
      /\ DecisionInv /\ ActivationFollowsAcceptance /\ RevokedHoldsNothing
  BY DEF EngagementInv
<1>3. TypeOK' /\ SeriesAfterAssessment'
  BY <1>1, <1>2, TypeStep, SeriesStep
<1>4. TalkTypeOK' /\ TalkInv'
  <2>1. CASE ConversationStep
    BY <1>2, <2>1, TalkStep
  <2>2. CASE UNCHANGED talkVars
    BY <1>1, <1>2, <2>2, SilentStep
  <2> QED
    BY <2>1, <2>2 DEF talkNext
<1>5. DecisionInv' /\ ActivationFollowsAcceptance' /\ RevokedHoldsNothing'
  BY <1>1, <1>2, DecisionInvStep, ActivationInvariant, RevokedInvariant
<1> QED
  BY <1>3, <1>4, <1>5 DEF EngagementInv

(* Preparing changes nothing of the engagement but what is current, of any  *)
(* number of invitations at once, and the status of a property that is not  *)
(* in a provider's setup: not a step that the engagement knows.             *)
Prepares ==
    /\ UNCHANGED <<inv, lapsed, cap, member, grantVars, assess, proposalVars,
                   activation, visitVars>>
    /\ current' \in [Invitations -> BOOLEAN]
    /\ \A i \in Invitations : current'[i] => current[i]
    /\ ownerProperty' \in [Properties -> OwnerPropertyStatus]
    /\ \A p \in Properties :
          ownerProperty'[p] = "provider_setup" <=> ownerProperty[p] = "provider_setup"

LEMMA PreparesKeeps ==
    ASSUME EngagementInv, Prepares, UNCHANGED talkVars
    PROVE  EngagementInv'
<1>1. /\ UNCHANGED <<inv, lapsed, cap, member, assess, activation, talk>>
      /\ UNCHANGED <<grants, granting, proposals, publishing, decisions>>
      /\ UNCHANGED <<visit, visitDecided>>
      /\ current' \in [Invitations -> BOOLEAN]
      /\ ownerProperty' \in [Properties -> OwnerPropertyStatus]
      /\ \A p \in Properties : ownerProperty'[p] = "provider_setup"
                                <=> ownerProperty[p] = "provider_setup"
  BY DEF Prepares, grantVars, proposalVars, visitVars, talkVars
<1>2. TypeOK'
  BY <1>1 DEF EngagementInv, TypeOK
<1>3. SeriesAfterAssessment' /\ TalkTypeOK' /\ TalkInv'
  BY <1>1 DEF EngagementInv, SeriesAfterAssessment, TalkTypeOK, TalkInv
<1>4. DecisionInv'
  BY <1>1 DEF EngagementInv, DecisionInv, DecisionsInSeries, RowsAgree, OneAccepted
<1>5. ActivationFollowsAcceptance' /\ RevokedHoldsNothing'
  BY <1>1 DEF EngagementInv, ActivationFollowsAcceptance, RevokedHoldsNothing,
              HasActiveGrant
<1> QED
  BY <1>2, <1>3, <1>4, <1>5 DEF EngagementInv

LEMMA BriefPrepares ==
    ASSUME TypeOK, NEW p \in Properties, NEW status \in BriefStatus,
           save_owner_yard_brief(p, status)
    PROVE  Prepares
BY DEF save_owner_yard_brief, save_yard_brief, Prepares, TypeOK, OwnerPropertyStatus

LEMMA PropertyPrepares ==
    ASSUME TypeOK, NEW p \in Properties, create_owner_property(p)
    PROVE  Prepares
BY DEF create_owner_property, create_property, Prepares, connVars, TypeOK,
       OwnerPropertyStatus

(* What the owner prepares, as the engagement sees it.                     *)
LEMMA IntakeOutside ==
    ASSUME TypeOK, IntakeStep
    PROVE  [Next]_vars \/ Prepares
<1>1. ASSUME NEW p \in Properties, NEW status \in BriefStatus,
             save_owner_yard_brief(p, status)
      PROVE  Prepares
  BY <1>1, BriefPrepares
<1>2. ASSUME NEW i \in Invitations, SendInvitation(i)
      PROVE  Next
  BY <1>2 DEF SendInvitation, Next, ConnectionStep
<1>3. CASE UploadStep \/ DeletionStep
  <2>1. UNCHANGED vars
    BY <1>3
    DEF UploadStep, DeletionStep, create_owner_intake_media_upload,
        uploadOwnerIntakeMediaFile, complete_owner_intake_media_upload,
        InspectUpload, PutUploadThumbnail, complete_intake_media_upload,
        delete_owner_intake_media, delete_intake_media,
        mark_intake_media_deleted, AbandonCall
  <2> QED
    BY <2>1
<1>4. CASE BriefStep
  <2>1. CASE save_owner_workspace
    BY <2>1 DEF save_owner_workspace
  <2>2. CASE \E p \in Properties : create_owner_property(p)
    BY <2>2, PropertyPrepares
  <2> QED
    BY <1>1, <1>2, <1>4, <2>1, <2>2 DEF BriefStep
<1> QED
  BY <1>3, <1>4 DEF IntakeStep

LEMMA OwnerProviderKeeps ==
    ASSUME EngagementInv, [OwnerProviderNext]_<<vars, intakeVars, talkVars>>
    PROVE  EngagementInv'
<1>1. CASE EngagementStep /\ UNCHANGED talkVars
  BY <1>1, EngagementInvStep DEF EngagementStep, talkNext
<1>2. CASE ConversationStep
  BY <1>2, EngagementInvStep DEF talkNext
<1>3. CASE IntakeStep /\ UNCHANGED talkVars
  <2>1. [Next]_vars \/ Prepares
    BY <1>3, IntakeOutside DEF EngagementInv
  <2>2. CASE [Next]_vars
    BY <1>3, <2>2, EngagementInvStep DEF talkNext
  <2> QED
    BY <1>3, <2>1, <2>2, PreparesKeeps
<1>4. CASE UNCHANGED <<vars, talkVars>>
  BY <1>4, EngagementInvStep
<1> QED
  BY <1>1, <1>2, <1>3, <1>4 DEF OwnerProviderNext

-----------------------------------------------------------------------------
(* What the owner keeps is well typed.                                     *)

LEMMA IntakeTypeInit == IntakeInit => IntakeTypeOK
<1> SUFFICES ASSUME IntakeInit PROVE IntakeTypeOK
  OBVIOUS
<1>1. [status |-> "none", property |-> Nothing, replaces |-> Nothing] \in MediaRow
  BY DEF MediaRow, MediaStatus
<1>2. media \in [Media -> MediaRow]
  BY <1>1 DEF IntakeInit, NoMedia
<1>3. briefs \in [Properties -> Seq(BriefStatus)]
  <2>1. <<>> \in Seq(BriefStatus)
    OBVIOUS
  <2> QED
    BY <2>1 DEF IntakeInit
<1> QED
  BY <1>2, <1>3 DEF IntakeInit, NoMedia, IntakeTypeOK

LEMMA BriefTypeStep ==
    ASSUME IntakeTypeOK, BriefStep PROVE IntakeTypeOK'
<1>1. CASE save_owner_workspace
  BY <1>1 DEF save_owner_workspace, IntakeTypeOK
<1>2. ASSUME NEW p \in Properties, create_owner_property(p)
      PROVE  IntakeTypeOK'
  BY <1>2 DEF create_owner_property, IntakeTypeOK
<1>3. ASSUME NEW p \in Properties, NEW status \in BriefStatus,
             save_owner_yard_brief(p, status)
      PROVE  IntakeTypeOK'
  <2>1. /\ briefs' = [briefs EXCEPT ![p] = Append(briefs[p], status)]
        /\ UNCHANGED <<workspace, media, objects, call>>
    BY <1>3 DEF save_owner_yard_brief, save_yard_brief
  <2>2. briefs' \in [Properties -> Seq(BriefStatus)]
    <3>1. briefs[p] \in Seq(BriefStatus)
      BY DEF IntakeTypeOK
    <3>2. Append(briefs[p], status) \in Seq(BriefStatus)
      BY <3>1
    <3> QED
      BY <2>1, <3>2 DEF IntakeTypeOK
  <2> QED
    BY <2>1, <2>2 DEF IntakeTypeOK
<1>4. ASSUME NEW i \in Invitations, SendInvitation(i)
      PROVE  IntakeTypeOK'
  BY <1>4 DEF SendInvitation, intakeVars, IntakeTypeOK
<1> QED
  BY <1>1, <1>2, <1>3, <1>4 DEF BriefStep

LEMMA RowStatus ==
    ASSUME NEW row \in MediaRow, NEW s \in MediaStatus
    PROVE  [row EXCEPT !.status = s] \in MediaRow
BY DEF MediaRow

LEMMA StatusWritten ==
    ASSUME NEW rows \in [Media -> MediaRow], NEW m \in Media, NEW s \in MediaStatus
    PROVE  [rows EXCEPT ![m].status = s] \in [Media -> MediaRow]
<1>1. rows[m] \in MediaRow
  OBVIOUS
<1>2. [rows[m] EXCEPT !.status = s] \in MediaRow
  BY <1>1, RowStatus
<1> QED
  BY <1>2

LEMMA BegunCall ==
    ASSUME NEW r \in IntakeCalls, NEW m \in Media, NEW at \in {"read", "deleting"},
           IntakeTypeOK,
           call' = [call EXCEPT ![r] = [at |-> at, media |-> m, status |-> "none",
                                        thumbnail |-> FALSE]]
    PROVE  call' \in [IntakeCalls -> Call \cup {Idle}]
<1>1. [at |-> at, media |-> m, status |-> "none", thumbnail |-> FALSE] \in Call
  BY DEF Call
<1> QED
  BY <1>1 DEF IntakeTypeOK

LEMMA EndedCall ==
    ASSUME NEW r \in IntakeCalls, IntakeTypeOK, call' = [call EXCEPT ![r] = Idle]
    PROVE  call' \in [IntakeCalls -> Call \cup {Idle}]
BY DEF IntakeTypeOK

(* A call that stands somewhere is not idle. *)
LEMMA CallUnderWay ==
    ASSUME NEW r \in IntakeCalls, IntakeTypeOK, call[r].at # "idle"
    PROVE  call[r] \in Call
BY DEF IntakeTypeOK, Idle

LEMMA CallFields ==
    ASSUME NEW c \in Call
    PROVE  /\ c.media \in Media
           /\ c.status \in {"none", "processing", "ready", "rejected"}
           /\ c.status \in MediaStatus
BY DEF Call, MediaStatus

LEMMA InspectionPairs ==
    ASSUME NEW m \in Media
    PROVE  Inspections(m) \subseteq {"processing", "ready", "rejected"} \X BOOLEAN
<1> DEFINE Answers == {"processing", "ready", "rejected"}
<1>1. "processing" \in Answers /\ "ready" \in Answers /\ "rejected" \in Answers
  OBVIOUS
<1>2. TRUE \in BOOLEAN /\ FALSE \in BOOLEAN
  OBVIOUS
<1> HIDE DEF Answers
<1>3. \A s \in Answers, b \in BOOLEAN : <<s, b>> \in Answers \X BOOLEAN
  OBVIOUS
<1>4. /\ <<"processing", FALSE>> \in Answers \X BOOLEAN
      /\ <<"ready", FALSE>> \in Answers \X BOOLEAN
      /\ <<"rejected", FALSE>> \in Answers \X BOOLEAN
      /\ <<"ready", TRUE>> \in Answers \X BOOLEAN
  BY <1>1, <1>2, <1>3, Zenon
<1>5. Inspections(m) \subseteq Answers \X BOOLEAN
  BY <1>4, Zenon DEF Inspections
<1> QED
  BY <1>5 DEF Answers

LEMMA UploadTypeStep ==
    ASSUME IntakeTypeOK, UploadStep PROVE IntakeTypeOK'
<1>1. ASSUME NEW m \in Media, NEW p \in Properties,
             NEW old \in Media \cup {Nothing},
             create_owner_intake_media_upload(m, p, old)
      PROVE  IntakeTypeOK'
  <2>1. [status |-> "pending_upload", property |-> p, replaces |-> old] \in MediaRow
    BY DEF MediaRow, MediaStatus
  <2> QED
    BY <1>1, <2>1
    DEF create_owner_intake_media_upload, create_intake_media_upload, IntakeTypeOK
<1>2. ASSUME NEW m \in Media, uploadOwnerIntakeMediaFile(m)
      PROVE  IntakeTypeOK'
  BY <1>2 DEF uploadOwnerIntakeMediaFile, IntakeTypeOK
<1>3. ASSUME NEW m \in Media, NEW r \in IntakeCalls,
             complete_owner_intake_media_upload(r, m)
      PROVE  IntakeTypeOK'
  <2>1. call' \in [IntakeCalls -> Call \cup {Idle}]
    BY <1>3, BegunCall DEF complete_owner_intake_media_upload
  <2> QED
    BY <1>3, <2>1 DEF complete_owner_intake_media_upload, IntakeTypeOK
<1>4. ASSUME NEW r \in IntakeCalls, InspectUpload(r)
      PROVE  IntakeTypeOK'
  <2>1. call[r] \in Call
    BY <1>4, CallUnderWay DEF InspectUpload
  <2>2. PICK found \in Inspections(call[r].media) :
          call' = [call EXCEPT ![r].at = "inspected", ![r].status = found[1],
                               ![r].thumbnail = found[2]]
    BY <1>4 DEF InspectUpload
  <2>3. found[1] \in {"processing", "ready", "rejected"} /\ found[2] \in BOOLEAN
    <3>1. found \in {"processing", "ready", "rejected"} \X BOOLEAN
      BY <2>1, <2>2, CallFields, InspectionPairs
    <3> QED
      BY <3>1
  <2>4. [[[call[r] EXCEPT !.at = "inspected"] EXCEPT !.status = found[1]]
           EXCEPT !.thumbnail = found[2]] \in Call
    BY <2>1, <2>3 DEF Call
  <2>5. call' = [call EXCEPT ![r] =
                   [[[call[r] EXCEPT !.at = "inspected"] EXCEPT !.status = found[1]]
                      EXCEPT !.thumbnail = found[2]]]
    BY <2>2 DEF IntakeTypeOK
  <2>6. call' \in [IntakeCalls -> Call \cup {Idle}]
    BY <2>4, <2>5 DEF IntakeTypeOK
  <2> QED
    BY <1>4, <2>6 DEF InspectUpload, IntakeTypeOK
<1>5. ASSUME NEW r \in IntakeCalls, PutUploadThumbnail(r)
      PROVE  IntakeTypeOK'
  <2>1. call[r] \in Call
    BY <1>5, CallUnderWay DEF PutUploadThumbnail
  <2>2. call' = [call EXCEPT ![r] = [call[r] EXCEPT !.thumbnail = FALSE]]
    BY <1>5 DEF PutUploadThumbnail, IntakeTypeOK
  <2>3. [call[r] EXCEPT !.thumbnail = FALSE] \in Call
    BY <2>1 DEF Call
  <2>4. call' \in [IntakeCalls -> Call \cup {Idle}]
    BY <2>2, <2>3 DEF IntakeTypeOK
  <2>5. objects' \in [Media -> SUBSET {"original", "thumbnail"}]
    <3> DEFINE m == call[r].media
               added == objects[m] \cup {"thumbnail"}
    <3>1. m \in Media
      BY <2>1, CallFields
    <3>2. added \in SUBSET {"original", "thumbnail"}
      BY <3>1 DEF IntakeTypeOK
    <3>3. objects' = objects \/ objects' = [objects EXCEPT ![m] = added]
      BY <1>5 DEF PutUploadThumbnail
    <3> HIDE DEF m, added
    <3> QED
      BY <3>1, <3>2, <3>3 DEF IntakeTypeOK
  <2> QED
    BY <1>5, <2>4, <2>5 DEF PutUploadThumbnail, IntakeTypeOK
<1>6. ASSUME NEW r \in IntakeCalls, complete_intake_media_upload(r)
      PROVE  IntakeTypeOK'
  <2> DEFINE m == call[r].media
             old == media[m].replaces
             written == [media EXCEPT ![m].status = call[r].status]
  <2>1. call[r] \in Call
    BY <1>6, CallUnderWay DEF complete_intake_media_upload
  <2>2. m \in Media /\ call[r].status \in MediaStatus
    BY <2>1, CallFields
  <2>3. written \in [Media -> MediaRow]
    BY <2>2, StatusWritten DEF IntakeTypeOK
  <2>4. old \in Media \cup {Nothing}
    BY <2>2 DEF IntakeTypeOK, MediaRow
  <2>5. \/ media' = written
        \/ old # Nothing /\ media' = [written EXCEPT ![old].status = "replaced"]
    BY <1>6 DEF complete_intake_media_upload
  <2>6. "replaced" \in MediaStatus
    BY DEF MediaStatus
  <2> HIDE DEF m, old, written
  <2>7. media' \in [Media -> MediaRow]
    BY <2>3, <2>4, <2>5, <2>6, StatusWritten
  <2>8. call' \in [IntakeCalls -> Call \cup {Idle}]
    BY <1>6, EndedCall DEF complete_intake_media_upload
  <2> QED
    BY <1>6, <2>7, <2>8 DEF complete_intake_media_upload, IntakeTypeOK
<1> QED
  BY <1>1, <1>2, <1>3, <1>4, <1>5, <1>6 DEF UploadStep

LEMMA DeletionTypeStep ==
    ASSUME IntakeTypeOK, DeletionStep PROVE IntakeTypeOK'
<1>1. ASSUME NEW r \in IntakeCalls, NEW m \in Media, delete_owner_intake_media(r, m)
      PROVE  IntakeTypeOK'
  <2>1. call' \in [IntakeCalls -> Call \cup {Idle}]
    BY <1>1, BegunCall DEF delete_owner_intake_media
  <2> QED
    BY <1>1, <2>1 DEF delete_owner_intake_media, IntakeTypeOK
<1>2. ASSUME NEW r \in IntakeCalls, delete_intake_media(r)
      PROVE  IntakeTypeOK'
  <2>1. call[r] \in Call
    BY <1>2, CallUnderWay DEF delete_intake_media
  <2>2. call[r].media \in Media
    BY <2>1, CallFields
  <2>3. objects[call[r].media] \in SUBSET {"original", "thumbnail"}
    BY <2>2 DEF IntakeTypeOK
  <2>4. \/ call' = [call EXCEPT ![r] = [call[r] EXCEPT !.at = "gone"]]
        \/ call' = [call EXCEPT ![r] = Idle]
    BY <1>2 DEF delete_intake_media, IntakeTypeOK
  <2>5. [call[r] EXCEPT !.at = "gone"] \in Call
    BY <2>1 DEF Call
  <2>6. call' \in [IntakeCalls -> Call \cup {Idle}]
    BY <2>4, <2>5 DEF IntakeTypeOK
  <2>7. objects' \in [Media -> SUBSET {"original", "thumbnail"}]
    BY <1>2, <2>2, <2>3 DEF delete_intake_media, IntakeTypeOK
  <2> QED
    BY <1>2, <2>6, <2>7 DEF delete_intake_media, IntakeTypeOK
<1>3. ASSUME NEW r \in IntakeCalls, mark_intake_media_deleted(r)
      PROVE  IntakeTypeOK'
  <2>1. call[r] \in Call
    BY <1>3, CallUnderWay DEF mark_intake_media_deleted
  <2>2. "deleted" \in MediaStatus
    BY DEF MediaStatus
  <2>3. media' \in [Media -> MediaRow]
    BY <1>3, <2>1, <2>2, CallFields, StatusWritten
    DEF mark_intake_media_deleted, IntakeTypeOK
  <2>4. call' \in [IntakeCalls -> Call \cup {Idle}]
    BY <1>3, EndedCall DEF mark_intake_media_deleted
  <2> QED
    BY <1>3, <2>3, <2>4 DEF mark_intake_media_deleted, IntakeTypeOK
<1>4. ASSUME NEW r \in IntakeCalls, AbandonCall(r)
      PROVE  IntakeTypeOK'
  <2>1. call' \in [IntakeCalls -> Call \cup {Idle}]
    BY <1>4, EndedCall DEF AbandonCall
  <2> QED
    BY <1>4, <2>1 DEF AbandonCall, IntakeTypeOK
<1> QED
  BY <1>1, <1>2, <1>3, <1>4 DEF DeletionStep

LEMMA IntakeTypeStep ==
    ASSUME IntakeTypeOK, [OwnerProviderNext]_<<vars, intakeVars, talkVars>>
    PROVE  IntakeTypeOK'
<1>1. CASE IntakeStep
  BY <1>1, BriefTypeStep, UploadTypeStep, DeletionTypeStep DEF IntakeStep
<1>2. CASE UNCHANGED intakeVars
  BY <1>2 DEF intakeVars, IntakeTypeOK
<1> QED
  BY <1>1, <1>2 DEF OwnerProviderNext

-----------------------------------------------------------------------------
(* What an invitation was sent with.                                       *)

(* No step of the engagement sends one, or makes one current again, and    *)
(* what it makes of a property is only a provider's setup.                 *)
Following ==
    /\ \A j \in Invitations :
          /\ inv'[j] = "opened" => inv[j] = "opened"
          /\ inv'[j] # "none" => inv[j] # "none"
          /\ current'[j] => current[j]
    /\ \A p \in Properties : ownerProperty'[p] \in {ownerProperty[p], "provider_setup"}

LEMMA FollowingStep ==
    ASSUME TypeOK, EngagementStep PROVE Following
<1>1. ASSUME NEW i \in Invitations, OpenInvitation(i) PROVE Following
  BY <1>1 DEF OpenInvitation, EngagementStep, TypeOK
<1>2. ASSUME NEW i \in Invitations,
             \/ ExpressInterest(i) \/ CloseCapability(i) \/ CloseInvitation(i)
             \/ ChangeMembership(i) \/ LoseCurrency(i) \/ Lapse(i)
             \/ \E v \in 1..MaxProposals : FallDue(i, v)
      PROVE  Following
  BY <1>2 DEF ExpressInterest, CloseCapability, CloseInvitation, ChangeMembership,
              LoseCurrency, Lapse, FallDue, connVars, activationVars, Following, TypeOK
<1>3. CASE GrantStep \/ AssessmentStep \/ ProposalStep
  <2>1. UNCHANGED <<connVars, activationVars>>
    BY <1>3
    DEF GrantStep, GrantScan, GrantCommit, NewGrant, GrantRollback, OpenDisclosure,
        OpensGrant, RevokeGrant, AssessmentStep, CreateAssessment, ProposeWindow,
        DecideWindow, TransitionAssessment, ProposalStep, PublishBegin,
        PublishCommit, PublishRollback, ReadProposals, DecideProposal
  <2> QED
    BY <2>1 DEF connVars, activationVars, Following
<1>4. ASSUME NEW i \in Invitations, NEW v \in 1..MaxProposals, Activate(i, v)
      PROVE  Following
  BY <1>4 DEF Activate, Activatable, Activated, Competing, Following, TypeOK
<1>5. ASSUME NEW p \in Properties,
             \/ ProposeVisit(p)
             \/ \E action \in VisitActions : DecideVisit(p, action)
      PROVE  Following
  BY <1>5 DEF ProposeVisit, DecideVisit, connVars, activationVars, Following
<1> QED
  BY <1>1, <1>2, <1>3, <1>4, <1>5 DEF EngagementStep, Next, ConnectionStep, VisitStep

(* The inductive invariant: a property whose invitation was sent is        *)
(* connecting or in a provider's setup, one with a ready brief is past its *)
(* draft, and none has a status that nothing writes.                       *)
InvitedIsPast ==
    \A i \in Invitations :
        inv[i] # "none" =>
          ownerProperty[PropertyOf[i]] \in {"connection_in_progress", "provider_setup"}

WrittenStatus == {"none", "draft", "profile_ready", "connection_in_progress",
                  "provider_setup"}

ReadyIsPrepared ==
    \A p \in Properties :
        /\ ownerProperty[p] \in WrittenStatus
        /\ HasReadyBrief(p) => ownerProperty[p] \notin {"none", "draft"}

PreparedInv == CurrentIsNewest /\ InvitedIsPast /\ ReadyIsPrepared

(* A property is in a setup exactly when it has a provider.                *)
LEMMA PreparedSuffices ==
    ActivationFollowsAcceptance /\ InvitedIsPast => InvitedIsConnected
BY PropertyAssumption DEF ActivationFollowsAcceptance, InvitedIsPast, InvitedIsConnected

LEMMA NewestIsOne ==
    ASSUME IntakeTypeOK, NEW p \in Properties, NewestIsReady(p)
    PROVE  HasReadyBrief(p)
<1>1. briefs[p] \in Seq(BriefStatus) /\ briefs[p] # <<>>
  BY DEF IntakeTypeOK, NewestIsReady
<1>2. Len(briefs[p]) \in DOMAIN briefs[p]
  BY <1>1
<1> QED
  BY <1>2 DEF NewestIsReady, HasReadyBrief

LEMMA SameBriefs ==
    ASSUME UNCHANGED briefs
    PROVE  \A p \in Properties : /\ NewestIsReady(p)' <=> NewestIsReady(p)
                                 /\ HasReadyBrief(p)' <=> HasReadyBrief(p)
BY DEF NewestIsReady, HasReadyBrief

(* The engagement and its conversation take nothing back of what was       *)
(* prepared.                                                               *)
LEMMA PreparedFollows ==
    ASSUME PreparedInv, Following, UNCHANGED briefs
    PROVE  PreparedInv'
<1>1. CurrentIsNewest'
  BY SameBriefs, PropertyAssumption
  DEF PreparedInv, CurrentIsNewest, Following, NewestIsReady
<1>2. InvitedIsPast'
  BY PropertyAssumption DEF PreparedInv, InvitedIsPast, Following
<1>3. ReadyIsPrepared'
  BY DEF PreparedInv, ReadyIsPrepared, WrittenStatus, HasReadyBrief, Following
<1> QED
  BY <1>1, <1>2, <1>3 DEF PreparedInv

LEMMA PreparedBySaving ==
    ASSUME TypeOK, IntakeTypeOK, PreparedInv,
           NEW p \in Properties, NEW status \in BriefStatus,
           save_owner_yard_brief(p, status)
    PROVE  PreparedInv'
<1>1. /\ briefs \in [Properties -> Seq(BriefStatus)]
      /\ briefs' = [briefs EXCEPT ![p] = Append(briefs[p], status)]
      /\ ownerProperty \in [Properties -> OwnerPropertyStatus]
      /\ ownerProperty[p] # "none"
      /\ ownerProperty' = IF status = "ready" /\ ownerProperty[p] = "draft"
                          THEN [ownerProperty EXCEPT ![p] = "profile_ready"]
                          ELSE ownerProperty
      /\ inv' = inv
      /\ current' = [i \in Invitations |->
                       current[i] /\ ~(PropertyOf[i] = p /\ inv[i] = "opened")]
  BY DEF save_owner_yard_brief, save_yard_brief, InUse, TypeOK, IntakeTypeOK
<1>2. \A q \in Properties \ {p} : briefs'[q] = briefs[q]
  BY <1>1
<1>3. CurrentIsNewest'
  <2> SUFFICES ASSUME NEW i \in Invitations, inv'[i] = "opened", current'[i]
               PROVE  NewestIsReady(PropertyOf[i])'
    BY DEF CurrentIsNewest
  <2>1. inv[i] = "opened" /\ current[i] /\ PropertyOf[i] \in Properties \ {p}
    BY <1>1, PropertyAssumption
  <2>2. NewestIsReady(PropertyOf[i])
    BY <2>1 DEF PreparedInv, CurrentIsNewest
  <2> QED
    BY <1>2, <2>1, <2>2 DEF NewestIsReady
<1>4. InvitedIsPast'
  BY <1>1, PropertyAssumption DEF PreparedInv, InvitedIsPast
<1>5. ReadyIsPrepared'
  <2> SUFFICES ASSUME NEW q \in Properties
               PROVE  /\ ownerProperty'[q] \in WrittenStatus
                      /\ HasReadyBrief(q)' => ownerProperty'[q] \notin {"none", "draft"}
    BY DEF ReadyIsPrepared
  <2>1. /\ ownerProperty'[q] \in WrittenStatus
        /\ ownerProperty[q] \notin {"none", "draft"}
             => ownerProperty'[q] \notin {"none", "draft"}
    BY <1>1 DEF PreparedInv, ReadyIsPrepared, WrittenStatus
  <2>2. ASSUME HasReadyBrief(q)', ownerProperty[q] \in {"none", "draft"}
        PROVE  ownerProperty'[q] \notin {"none", "draft"}
    <3>0. ~HasReadyBrief(q)
      BY <2>2 DEF PreparedInv, ReadyIsPrepared
    <3>1. q = p
      BY <1>2, <2>2, <3>0 DEF HasReadyBrief
    <3>2. status = "ready"
      <4>1. PICK v \in DOMAIN briefs'[p] : briefs'[p][v] = "ready"
        BY <2>2, <3>1 DEF HasReadyBrief
      <4>2. /\ briefs[p] \in Seq(BriefStatus)
            /\ briefs'[p] = Append(briefs[p], status)
        BY <1>1
      <4>3. v \in 1..Len(briefs[p]) => briefs[p][v] = "ready" /\ v \in DOMAIN briefs[p]
        BY <4>1, <4>2
      <4>4. v = Len(briefs[p]) + 1
        BY <3>0, <3>1, <4>1, <4>2, <4>3 DEF HasReadyBrief
      <4> QED
        BY <4>1, <4>2, <4>4
    <3> QED
      BY <1>1, <2>2, <3>1, <3>2
  <2> QED
    BY <2>1, <2>2
<1> QED
  BY <1>3, <1>4, <1>5 DEF PreparedInv

LEMMA PreparedBySending ==
    ASSUME TypeOK, IntakeTypeOK, PreparedInv, NEW i \in Invitations, SendInvitation(i)
    PROVE  PreparedInv'
<1> DEFINE p == PropertyOf[i]
<1>1. p \in Properties
  BY PropertyAssumption
<1>2. /\ NewestIsReady(p) /\ HasReadyBrief(p)
      /\ UNCHANGED <<briefs, current>>
      /\ inv' = [inv EXCEPT ![i] = "opened"]
      /\ ownerProperty' = [ownerProperty EXCEPT ![p] =
            IF ownerProperty[p] = "profile_ready" THEN "connection_in_progress"
            ELSE ownerProperty[p]]
  <2>1. NewestIsReady(p)
    BY DEF SendInvitation
  <2> QED
    BY <1>1, <2>1, NewestIsOne DEF SendInvitation, OpenInvitation, Connect, intakeVars
<1>3. ownerProperty'[p] \in {"connection_in_progress", "provider_setup"}
  BY <1>1, <1>2 DEF PreparedInv, ReadyIsPrepared, WrittenStatus, TypeOK
<1>4. \A q \in Properties \ {p} : ownerProperty'[q] = ownerProperty[q]
  BY <1>2 DEF TypeOK
<1> HIDE DEF p
<1>5. \A j \in Invitations \ {i} : inv'[j] = inv[j]
  BY <1>2 DEF TypeOK
<1>6. CurrentIsNewest'
  <2> SUFFICES ASSUME NEW j \in Invitations, inv'[j] = "opened", current'[j]
               PROVE  NewestIsReady(PropertyOf[j])'
    BY DEF CurrentIsNewest
  <2>1. NewestIsReady(PropertyOf[j])
    BY <1>2, <1>5 DEF PreparedInv, CurrentIsNewest, p
  <2> QED
    BY <1>2, <2>1 DEF NewestIsReady
<1>7. InvitedIsPast'
  BY <1>3, <1>4, <1>5, PropertyAssumption DEF PreparedInv, InvitedIsPast, p
<1>8. ReadyIsPrepared'
  BY <1>2, <1>3, <1>4 DEF PreparedInv, ReadyIsPrepared, WrittenStatus, HasReadyBrief
<1> QED
  BY <1>6, <1>7, <1>8 DEF PreparedInv

LEMMA PreparedStep ==
    ASSUME TypeOK, IntakeTypeOK, PreparedInv,
           [OwnerProviderNext]_<<vars, intakeVars, talkVars>>
    PROVE  PreparedInv'
<1>1. CASE EngagementStep /\ UNCHANGED intakeVars
  BY <1>1, FollowingStep, PreparedFollows DEF intakeVars
<1>2. CASE ConversationStep /\ UNCHANGED intakeVars
  <2>1. UNCHANGED <<inv, current, ownerProperty>>
    BY <1>2
    DEF ConversationStep, create_owner_provider_assessment_message,
        create_provider_assessment_message,
        create_provider_assessment_private_note,
        create_owner_initial_service_proposal_message,
        create_provider_initial_service_proposal_response, Expiring, vars, connVars,
        activationVars
  <2>2. Following
    BY <2>1 DEF Following
  <2> QED
    BY <1>2, <2>2, PreparedFollows DEF intakeVars
<1>3. ASSUME UNCHANGED <<inv, current, briefs, ownerProperty>> PROVE PreparedInv'
  BY <1>3, PreparedFollows DEF Following
<1>4. CASE UploadStep \/ DeletionStep
  <2>1. UNCHANGED <<inv, current, briefs, ownerProperty>>
    BY <1>4
    DEF UploadStep, DeletionStep, create_owner_intake_media_upload,
        uploadOwnerIntakeMediaFile, complete_owner_intake_media_upload,
        InspectUpload, PutUploadThumbnail, complete_intake_media_upload,
        delete_owner_intake_media, delete_intake_media,
        mark_intake_media_deleted, AbandonCall, vars, connVars, activationVars
  <2> QED
    BY <1>3, <2>1
<1>5. CASE save_owner_workspace
  BY <1>3, <1>5 DEF save_owner_workspace, vars, connVars, activationVars
<1>6. ASSUME NEW p \in Properties, create_owner_property(p)
      PROVE  PreparedInv'
  <2>1. /\ UNCHANGED <<inv, current, briefs>>
        /\ ownerProperty[p] = "none"
        /\ ownerProperty' = [ownerProperty EXCEPT ![p] = "draft"]
    BY <1>6 DEF create_owner_property, create_property, vars, connVars
  <2>2. ~HasReadyBrief(p) /\ \A i \in Invitations : PropertyOf[i] = p => inv[i] = "none"
    BY <2>1 DEF PreparedInv, ReadyIsPrepared, InvitedIsPast
  <2>3. \A q \in Properties \ {p} : ownerProperty'[q] = ownerProperty[q]
    BY <2>1 DEF TypeOK
  <2>4. CurrentIsNewest'
    BY <2>1 DEF PreparedInv, CurrentIsNewest, NewestIsReady
  <2>5. InvitedIsPast'
    BY <2>1, <2>2, <2>3, PropertyAssumption DEF PreparedInv, InvitedIsPast
  <2>6. ReadyIsPrepared'
    BY <2>1, <2>2, <2>3 DEF PreparedInv, ReadyIsPrepared, WrittenStatus, HasReadyBrief
  <2> QED
    BY <2>4, <2>5, <2>6 DEF PreparedInv
<1>7. CASE BriefStep
  BY <1>5, <1>6, <1>7, PreparedBySaving, PreparedBySending DEF BriefStep
<1>8. CASE UNCHANGED <<vars, intakeVars, talkVars>>
  BY <1>3, <1>8 DEF vars, connVars, activationVars, intakeVars
<1> QED
  BY <1>1, <1>2, <1>4, <1>7, <1>8 DEF OwnerProviderNext, IntakeStep

-----------------------------------------------------------------------------
OwnerProviderInv == EngagementInv /\ IntakeTypeOK /\ PreparedInv

LEMMA OwnerProviderInvariant == OwnerProviderSpec => []OwnerProviderInv
<1>1. OwnerProviderInit => OwnerProviderInv
  <2> SUFFICES ASSUME OwnerProviderInit PROVE OwnerProviderInv
    OBVIOUS
  <2>1. Init /\ IntakeInit /\ TalkInit
    BY DEF OwnerProviderInit
  <2>2. EngagementInv /\ IntakeTypeOK
    BY <2>1, EngagementInvInit, IntakeTypeInit
  <2>3. PreparedInv
    BY <2>1, PropertyAssumption
    DEF Init, IntakeInit, PreparedInv, CurrentIsNewest, InvitedIsPast,
        WrittenStatus, ReadyIsPrepared, HasReadyBrief
  <2> QED
    BY <2>2, <2>3 DEF OwnerProviderInv
<1>2. OwnerProviderInv /\ [OwnerProviderNext]_<<vars, intakeVars, talkVars>>
        => OwnerProviderInv'
  BY OwnerProviderKeeps, IntakeTypeStep, PreparedStep
  DEF OwnerProviderInv, EngagementInv
<1> QED
  BY <1>1, <1>2, PTL DEF OwnerProviderSpec

(* EngagementTypeOK: the rows of the engagement, of the conversation and of *)
(* what the owner prepares stay well typed while the three go on.          *)
THEOREM EngagementTypeCorrect == OwnerProviderSpec => []EngagementTypeOK
<1>1. OwnerProviderInv => EngagementTypeOK
  BY DEF OwnerProviderInv, EngagementInv, EngagementTypeOK
<1> QED
  BY <1>1, OwnerProviderInvariant, PTL

(* DecisionAgreement, ActivationFollowsAcceptance, RevokedHoldsNothing and *)
(* ConversationMovesOn: what was proved of an engagement by itself and of  *)
(* its conversation holds while the owner adds properties, saves briefs,   *)
(* each of which may end what several invitations were sent with, and      *)
(* sends the invitations.                                                  *)
THEOREM PreparingIsHarmless ==
    OwnerProviderSpec => [](/\ DecisionAgreement /\ ActivationFollowsAcceptance
                            /\ RevokedHoldsNothing /\ ConversationMovesOn)
<1>1. OwnerProviderInv => /\ DecisionAgreement /\ ActivationFollowsAcceptance
                          /\ RevokedHoldsNothing /\ ConversationMovesOn
  BY DecisionInvSuffices, TalkInvSuffices DEF OwnerProviderInv, EngagementInv
<1> QED
  BY <1>1, OwnerProviderInvariant, PTL

(* CurrentIsNewest and InvitedIsConnected: whatever is saved, sent, decided *)
(* and activated, a provider acts on the newest brief, which is ready, and *)
(* a property for which an invitation was sent is connecting until a       *)
(* provider is activated and in that provider's setup from then on.        *)
THEOREM ActsOnTheNewestBrief ==
    OwnerProviderSpec => [](CurrentIsNewest /\ InvitedIsConnected)
<1>1. OwnerProviderInv => CurrentIsNewest /\ InvitedIsConnected
  BY PreparedSuffices DEF OwnerProviderInv, EngagementInv, PreparedInv
<1> QED
  BY <1>1, OwnerProviderInvariant, PTL

(* HistoryIsFinal: nor does the owner's preparing reopen a grant that was  *)
(* closed or a proposal that was settled.                                  *)
THEOREM PreparingReopensNothing == OwnerProviderSpec => HistoryIsFinal
<1> DEFINE Final == \A i \in Invitations :
             /\ \A k \in DOMAIN grants[i] :
                  grants[i][k].status # "active" => grants'[i][k] = grants[i][k]
             /\ \A v \in DOMAIN proposals[i] :
                  proposals[i][v].status # "sent" =>
                    proposals'[i][v].status = proposals[i][v].status
<1>1. OwnerProviderInv /\ [OwnerProviderNext]_<<vars, intakeVars, talkVars>>
        => [Final]_vars
  <2> SUFFICES ASSUME OwnerProviderInv,
                      [OwnerProviderNext]_<<vars, intakeVars, talkVars>>
               PROVE  [Final]_vars
    OBVIOUS
  <2>1. TypeOK
    BY DEF OwnerProviderInv, EngagementInv
  <2>2. [Next]_vars \/ Prepares
    BY <2>1, IntakeOutside, ConversationIsRead DEF OwnerProviderNext, EngagementStep
  <2>3. CASE [Next]_vars
    BY <2>1, <2>3, HistoryStep
  <2>4. CASE Prepares
    BY <2>4 DEF Prepares, grantVars, proposalVars
  <2> QED
    BY <2>2, <2>3, <2>4
<1> QED
  BY <1>1, OwnerProviderInvariant, PTL DEF OwnerProviderSpec, HistoryIsFinal
=============================================================================

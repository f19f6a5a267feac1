----------------------- MODULE EngagementConversation -----------------------
(***************************************************************************)
(* What owner and provider say to each other about an assessment, and then *)
(* about the proposals that follow from it, with the provider's private    *)
(* notes.                                                                  *)
(*                                                                         *)
(* A message is one step: it is written under the lock of the assessment,  *)
(* or of the proposal that it is about, and a publication holds both.  Its *)
(* request can be as old as its author's page and can arrive any number of *)
(* times; the author's idempotency key finds what an earlier one wrote,    *)
(* and whatever else the request says then, nothing is written.  Bodies    *)
(* and kinds are left out.                                                 *)
(***************************************************************************)
EXTENDS ProviderEngagement

CONSTANTS
    TextKeys,       \* idempotency keys of one author
    MaxTalk         \* bound on the messages and notes of one invitation

ASSUME TalkAssumption == MaxTalk \in Nat

VARIABLE
    talk            \* messages and notes of each invitation, oldest first

talkVars == <<talk>>

-----------------------------------------------------------------------------
Authors == {"owner", "provider", "note"}

\* about: the proposal version that the message is about, 0 for the
\* assessment; series: the newest version when it was written; to: the message
\* that a response answers, or 0.
Entry == [by : Authors, key : TextKeys, about : 0..MaxProposals,
          series : 0..MaxProposals, to : 0..MaxTalk]

TalkTypeOK == talk \in [Invitations -> Seq(Entry)]

TalkInit == talk = [i \in Invitations |-> <<>>]

\* Messages of an assessment and of its proposals are kept apart, and so are
\* their keys.
Said(i, by, key, proposal) ==
    \E m \in DOMAIN talk[i] : /\ talk[i][m].by = by /\ talk[i][m].key = key
                              /\ (talk[i][m].series # 0) = proposal

Say(i, by, key, about, series, to) ==
    /\ Len(talk[i]) < MaxTalk
    /\ ~Said(i, by, key, series # 0)
    /\ talk' = [talk EXCEPT ![i] =
                  Append(@, [by |-> by, key |-> key, about |-> about,
                             series |-> series, to |-> to])]

-----------------------------------------------------------------------------
(* The assessment. *)

assessment_accepts_communication(i) == assess[i].status \in OpenAssessment

insert_owner_provider_assessment_message(i, by, key) == Say(i, by, key, 0, 0, 0)

create_owner_provider_assessment_message(i, key) ==
    /\ assessment_accepts_communication(i)
    /\ insert_owner_provider_assessment_message(i, "owner", key)
    /\ UNCHANGED vars

create_provider_assessment_message(i, key) ==
    /\ WriteAuthority(i)
    /\ assessment_accepts_communication(i)
    /\ insert_owner_provider_assessment_message(i, "provider", key)
    /\ UNCHANGED vars

create_provider_assessment_private_note(i, key) ==
    /\ WriteAuthority(i)
    /\ assessment_accepts_communication(i)
    /\ Say(i, "note", key, 0, 0, 0)
    /\ UNCHANGED vars

-----------------------------------------------------------------------------
(* The proposals. *)

Expiring(i) ==
    /\ proposals' = [proposals EXCEPT ![i] = ExpireDue(@)]
    /\ UNCHANGED <<connVars, grantVars, assess, publishing, decisions,
                   activationVars, visitVars>>

\* Mutant: a message is taken for whatever version the owner's page shows.
create_owner_initial_service_proposal_message_AnyVersion(i, v, key) ==
    /\ v \in DOMAIN proposals[i]
    /\ Say(i, "owner", key, v, v, 0)
    /\ Expiring(i)

\* A question or a change request, to the newest version while it is open.
create_owner_initial_service_proposal_message(i, v, key) ==
    /\ Decidable(i, v)
    /\ Say(i, "owner", key, v, v, 0)
    /\ Expiring(i)

\* The newest version, locked beside the assessment, which a publication holds.
OpenVersion(i, v) == i \notin publishing /\ Decidable(i, v)

\* The provider answers a message of the owner, of this or of an earlier
\* version, which a response that is written late then names.
create_provider_initial_service_proposal_response(i, v, m, key) ==
    /\ WriteAuthority(i) /\ assess[i].status = "completed"
    /\ OpenVersion(i, v)
    /\ m \in DOMAIN talk[i]
    /\ talk[i][m].by = "owner" /\ talk[i][m].about # 0
    /\ Say(i, "provider", key, talk[i][m].about, v, m)
    /\ Expiring(i)

-----------------------------------------------------------------------------
ConversationStep ==
    \E i \in Invitations, key \in TextKeys :
        \/ create_owner_provider_assessment_message(i, key)
        \/ create_provider_assessment_message(i, key)
        \/ create_provider_assessment_private_note(i, key)
        \/ \E v \in 1..MaxProposals :
              \/ create_owner_initial_service_proposal_message(i, v, key)
              \/ \E m \in 1..MaxTalk :
                    create_provider_initial_service_proposal_response(i, v, m, key)

\* The conversation beside the engagement that it is about.
ConversationSpec ==
    /\ Init /\ TalkInit
    /\ [][ConversationStep \/ (Next /\ UNCHANGED talkVars)]_<<vars, talkVars>>

-----------------------------------------------------------------------------
(* Invariant. *)

\* However late a page speaks and however often its request arrives, the
\* conversation moves on with the series: from the assessment, which is over
\* when the first proposal is discussed, to ever newer versions.  A text is
\* written once, and a response follows the message of the owner that it
\* answers, of a version that was open by then.
ConversationMovesOn ==
    \A i \in Invitations : \A m, n \in DOMAIN talk[i] :
        LET a == talk[i][m]
            b == talk[i][n]
        IN /\ m < n => a.series <= b.series
           /\ b.series <= Len(proposals[i])
           /\ a.by = b.by /\ a.key = b.key /\ (a.series = 0) = (b.series = 0) => m = n
           /\ b.to = m => m < n /\ a.by = "owner" /\ a.about = b.about
                          /\ b.about \in 1..b.series
=============================================================================

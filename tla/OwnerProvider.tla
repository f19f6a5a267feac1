---------------------------- MODULE OwnerProvider ----------------------------
(***************************************************************************)
(* A yard owner and the providers it invites: the engagement, what the two *)
(* sides say about it, and what the owner goes on preparing meanwhile.     *)
(*                                                                         *)
(* What the three share is what an invitation was sent with: it is sent by *)
(* the owner's page, for the newest brief of its property, and the         *)
(* engagement reads in current whether that is still the newest.           *)
(***************************************************************************)
EXTENDS OwnerIntake, EngagementConversation

EngagementTypeOK == TypeOK /\ IntakeTypeOK /\ TalkTypeOK

OwnerProviderInit == Init /\ IntakeInit /\ TalkInit

\* The engagement sends no invitation by itself.
EngagementStep ==
    /\ Next
    /\ \A i \in Invitations : inv[i] = "none" => inv'[i] = "none"

OwnerProviderNext ==
    \/ EngagementStep /\ UNCHANGED <<intakeVars, talkVars>>
    \/ ConversationStep /\ UNCHANGED intakeVars
    \/ IntakeStep /\ UNCHANGED talkVars

OwnerProviderSpec ==
    OwnerProviderInit /\ [][OwnerProviderNext]_<<vars, intakeVars, talkVars>>

-----------------------------------------------------------------------------
\* What a provider may act on is the newest brief of the property, which is
\* ready: a draft saved beside an open invitation is enough to stop it.
CurrentIsNewest ==
    \A i \in Invitations :
        inv[i] = "opened" /\ current[i] => NewestIsReady(PropertyOf[i])

\* A property whose invitation was sent is connecting until a provider is
\* activated and in that provider's setup from then on: no brief that is saved
\* and no invitation that is sent later takes it back.
InvitedIsConnected ==
    \A i \in Invitations :
        inv[i] # "none" =>
          ownerProperty[PropertyOf[i]] =
            IF activation[PropertyOf[i]] = NoOne THEN "connection_in_progress"
            ELSE "provider_setup"
=============================================================================

------------------------ MODULE MCProviderEngagement -------------------------
(* One owner property, and one of five sides: what the owner prepares, what *)
(* it goes on preparing and sending around the activation of a provider, a  *)
(* series of grants, proposals and visits of one invitation, what is said   *)
(* about them, or two invitations that compete for the activation with one  *)
(* of each.                                                                 *)
EXTENDS OwnerProvider

CONSTANTS i1, i2, p1

\* Chosen once: what a behaviour explores.
CONSTANT Sides
VARIABLE side

MCPropertyOf == [i \in Invitations |-> p1]

\* The owner has saved the workspace, the property and a ready brief.
Prepared ==
    /\ workspace = TRUE
    /\ ownerProperty = [p \in Properties |-> "profile_ready"]
    /\ briefs = [p \in Properties |-> <<"ready">>]
    /\ NoMedia

MCInit ==
    /\ Init /\ TalkInit /\ side \in Sides
    /\ IF side = "intake" THEN IntakeInit ELSE Prepared

\* Nothing becomes of i2, and nothing but visits of an activated i1.  A second
\* grant is for a remote assessment.
OneInvitation ==
    /\ Len(grants'[i1]) > 1 => assess'[i1].method # "on_site"
    /\ activation[p1] # NoOne => UNCHANGED <<connVars, grantVars>>
    /\ inv'[i2] = "none" /\ member'[i2] = FALSE
    /\ lapsed'[i2] = FALSE /\ current'[i2] = TRUE

OneOfEach ==
    /\ \A i \in Invitations :
          /\ \A v \in DOMAIN proposals'[i] : ~proposals'[i][v].due
          /\ cap'[i].no <= 1 /\ granting'[i] <= 1 /\ Len(grants'[i]) <= 1
          /\ assess'[i].method = "remote" /\ Len(proposals'[i]) <= 1
    /\ visit'[p1].version <= 1

\* i1 on its way to a first visit with one of each; i2 is no more than sent.
SentBeside ==
    /\ OneOfEach
    /\ ~member'[i2] /\ inv'[i2] # "closed"

\* One grant, which can be revoked, for a remote assessment; no activation.
OneGrant ==
    /\ OneInvitation
    /\ cap'[i1].no <= 1 /\ granting'[i1] <= 1 /\ Len(grants'[i1]) <= 1
    /\ inv'[i1] # "closed" /\ ~lapsed'[i1] /\ current'[i1]
    /\ activation'[p1] = NoOne
    /\ member[i1] => member'[i1]
    /\ assess'[i1].method = "remote"

Engaged ==
    /\ EngagementStep \/ \E i \in Invitations : SendInvitation(i)
    /\ UNCHANGED <<intakeVars, talkVars>>

MCNext ==
    /\ UNCHANGED side
    /\ \/ side = "series" /\ Engaged /\ OneInvitation
       \/ side = "competition" /\ Engaged /\ OneOfEach
       \/ /\ side = "setup"
          /\ Engaged \/ (BriefStep /\ UNCHANGED talkVars)
          /\ SentBeside
       \/ /\ side = "conversation"
          /\ \/ ConversationStep /\ UNCHANGED intakeVars
             \/ Engaged /\ OneGrant
       \/ side = "intake" /\ IntakeStep /\ UNCHANGED talkVars

MCSpec == MCInit /\ [][MCNext]_<<vars, intakeVars, talkVars, side>>
=============================================================================

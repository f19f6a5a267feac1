---------------------------- MODULE OwnerIntake ----------------------------
(***************************************************************************)
(* What a yard owner prepares before choosing a provider: the workspace,   *)
(* the properties, the versions of each property's yard brief, and the     *)
(* private photographs with their objects in storage.                      *)
(*                                                                         *)
(* A brief is saved in one transaction under the property's advisory lock, *)
(* and what is promised of the engagement ends with it: an invitation is   *)
(* for the brief it was sent with.  Completing and deleting a photograph   *)
(* read its row, go to the object storage and write the row afterwards,    *)
(* without looking at it again: each request is several steps, and any     *)
(* number of them may be under way for one photograph.                     *)
(*                                                                         *)
(* One owner.  Names, addresses, shot types, measured sizes, property      *)
(* versions and events are left out; so is the list, which reads only.     *)
(***************************************************************************)
EXTENDS ProviderEngagement

CONSTANTS
    Media,          \* photographs the owner may add
    Presigned,      \* those whose object is in the storage; the others have none
    IntakeCalls,    \* requests of the owner's pages
    Nothing,        \* no photograph, no property
    MaxBriefs       \* bound on the brief versions of one property

ASSUME IntakeAssumption ==
    /\ Presigned \subseteq Media /\ MaxBriefs \in Nat
    /\ Nothing \notin Media \cup Properties

VARIABLES
    workspace,      \* the owner has saved a workspace
    briefs,         \* owner_yard_briefs.status of each property, by version
    media,          \* the row of each photograph
    objects,        \* its objects in storage
    call            \* where each request stands

intakeVars == <<workspace, briefs, media, objects, call>>

-----------------------------------------------------------------------------
BriefStatus == {"draft", "ready"}
MediaStatus == {"none", "pending_upload", "processing", "ready", "rejected",
                "replaced", "deleted"}
MediaRow == [status : MediaStatus, property : Properties \cup {Nothing},
             replaces : Media \cup {Nothing}]

\* read: the row was read for completion; inspected: status is what inspection
\* found and thumbnail whether one is about to be stored; deleting: the row was
\* read for deletion; gone: the objects are deleted.
Call == [at : {"read", "inspected", "deleting", "gone"}, media : Media,
         status : {"none", "processing", "ready", "rejected"}, thumbnail : BOOLEAN]
Idle == [at |-> "idle"]

IntakeTypeOK ==
    /\ workspace \in BOOLEAN
    /\ briefs \in [Properties -> Seq(BriefStatus)]
    /\ media \in [Media -> MediaRow]
    /\ objects \in [Media -> SUBSET {"original", "thumbnail"}]
    /\ call \in [IntakeCalls -> Call \cup {Idle}]

NoMedia ==
    /\ media = [m \in Media |-> [status |-> "none", property |-> Nothing,
                                 replaces |-> Nothing]]
    /\ objects = [m \in Media |-> {}]
    /\ call = [r \in IntakeCalls |-> Idle]

IntakeInit ==
    /\ workspace = FALSE
    /\ ownerProperty = [p \in Properties |-> "none"]
    /\ briefs = [p \in Properties |-> <<>>]
    /\ NoMedia

-----------------------------------------------------------------------------
(* Workspace, property and brief. *)

save_owner_workspace ==
    /\ workspace' = TRUE
    /\ UNCHANGED <<briefs, media, objects, call, vars>>

\* A second property at the same address is a duplicate.
create_property(p) ==
    /\ ownerProperty[p] = "none"
    /\ ownerProperty' = [ownerProperty EXCEPT ![p] = "draft"]
    /\ UNCHANGED <<connVars, grantVars, assess, proposalVars, activation, visitVars>>

create_owner_property(p) ==
    /\ workspace
    /\ create_property(p)
    /\ UNCHANGED <<workspace, briefs, media, objects, call>>

NewestIsReady(p) == briefs[p] # <<>> /\ briefs[p][Len(briefs[p])] = "ready"

\* Versions are never edited: a draft after a ready one is the newest.
save_yard_brief(p, status) ==
    /\ InUse(p)
    /\ briefs' = [briefs EXCEPT ![p] = Append(@, status)]
    /\ ownerProperty' = IF status = "ready" /\ ownerProperty[p] = "draft"
                        THEN [ownerProperty EXCEPT ![p] = "profile_ready"]
                        ELSE ownerProperty

\* What was sent with an older brief is not current any more.
save_owner_yard_brief(p, status) ==
    /\ Len(briefs[p]) < MaxBriefs
    /\ save_yard_brief(p, status)
    /\ current' = [i \in Invitations |->
                     current[i] /\ ~(PropertyOf[i] = p /\ inv[i] = "opened")]
    /\ UNCHANGED <<workspace, media, objects, call, inv, lapsed, cap, member,
                   grantVars, assess, proposalVars, activation, visitVars>>

\* An invitation is sent with the newest brief, which is ready.
SendInvitation(i) ==
    /\ workspace
    /\ NewestIsReady(PropertyOf[i])
    /\ OpenInvitation(i)
    /\ UNCHANGED intakeVars

-----------------------------------------------------------------------------
(* Photographs. *)

\* Any ready version will do, the newest or not.
HasReadyBrief(p) == \E v \in DOMAIN briefs[p] : briefs[p][v] = "ready"

create_intake_media_upload(m, p, old) ==
    /\ InUse(p) /\ HasReadyBrief(p)
    /\ old # Nothing => media[old].status = "ready" /\ media[old].property = p
    /\ media' = [media EXCEPT ![m] =
                   [status |-> "pending_upload", property |-> p,
                    replaces |-> old]]

create_owner_intake_media_upload(m, p, old) ==
    /\ media[m].status = "none"
    /\ create_intake_media_upload(m, p, old)
    /\ UNCHANGED <<workspace, briefs, objects, call, vars>>

\* The page uploads the file with its ticket, however late.
uploadOwnerIntakeMediaFile(m) ==
    /\ m \in Presigned /\ media[m].status # "none"
    /\ objects' = [objects EXCEPT ![m] = @ \cup {"original"}]
    /\ UNCHANGED <<workspace, briefs, media, call, vars>>

\* A ready photograph is answered as it is.
complete_owner_intake_media_upload(r, m) ==
    /\ call[r] = Idle
    /\ media[m].status \in {"pending_upload", "processing"}
    /\ call' = [call EXCEPT ![r] = [at |-> "read", media |-> m, status |-> "none",
                                    thumbnail |-> FALSE]]
    /\ UNCHANGED <<workspace, briefs, media, objects, vars>>

\* <<status, a thumbnail is about to be stored>> the storage may answer: an
\* object that is not there, or a request that fails, leaves it processing.
Inspections(m) ==
    IF m \notin Presigned THEN {<<"ready", FALSE>>}
    ELSE {<<"processing", FALSE>>}
         \cup IF "original" \notin objects[m] THEN {}
              ELSE {<<"rejected", FALSE>>, <<"ready", FALSE>>, <<"ready", TRUE>>}

InspectUpload(r) ==
    /\ call[r].at = "read"
    /\ \E found \in Inspections(call[r].media) :
          call' = [call EXCEPT ![r].at = "inspected", ![r].status = found[1],
                               ![r].thumbnail = found[2]]
    /\ UNCHANGED <<workspace, briefs, media, objects, vars>>

\* The storage may refuse it; nobody looks.
PutUploadThumbnail(r) ==
    /\ call[r].at = "inspected" /\ call[r].thumbnail
    /\ call' = [call EXCEPT ![r].thumbnail = FALSE]
    /\ objects' \in {objects, [objects EXCEPT ![call[r].media] = @ \cup {"thumbnail"}]}
    /\ UNCHANGED <<workspace, briefs, media, vars>>

\* The status is written whatever it has become.  The photograph replaces the
\* one it was added for if that is still ready.
complete_intake_media_upload(r) ==
    /\ call[r].at = "inspected" /\ ~call[r].thumbnail
    /\ LET m == call[r].media
           old == media[m].replaces
           written == [media EXCEPT ![m].status = call[r].status]
       IN media' = IF /\ call[r].status = "ready"
                      /\ old # Nothing /\ media[old].status = "ready"
                   THEN [written EXCEPT ![old].status = "replaced"]
                   ELSE written
    /\ call' = [call EXCEPT ![r] = Idle]
    /\ UNCHANGED <<workspace, briefs, objects, vars>>

-----------------------------------------------------------------------------
(* Deletion: the objects first, then the row. *)

\* A deleted photograph is answered as it is.
delete_owner_intake_media(r, m) ==
    /\ call[r] = Idle
    /\ media[m].status \notin {"none", "deleted"}
    /\ call' = [call EXCEPT ![r] = [at |-> "deleting", media |-> m, status |-> "none",
                                    thumbnail |-> FALSE]]
    /\ UNCHANGED <<workspace, briefs, media, objects, vars>>

\* Each object is asked for; one that is refused, or a request that fails, ends
\* the deletion there and leaves the row as it is.
delete_intake_media(r) ==
    /\ call[r].at = "deleting"
    /\ LET m == call[r].media IN
       \/ /\ objects' = [objects EXCEPT ![m] = {}]
          /\ call' = [call EXCEPT ![r].at = "gone"]
       \/ /\ m \in Presigned
          /\ \E left \in SUBSET objects[m] : objects' = [objects EXCEPT ![m] = left]
          /\ call' = [call EXCEPT ![r] = Idle]
    /\ UNCHANGED <<workspace, briefs, media, vars>>

mark_intake_media_deleted(r) ==
    /\ call[r].at = "gone"
    /\ media' = [media EXCEPT ![call[r].media].status = "deleted"]
    /\ call' = [call EXCEPT ![r] = Idle]
    /\ UNCHANGED <<workspace, briefs, objects, vars>>

\* The service stops, or the database does not answer.
AbandonCall(r) ==
    /\ call[r] # Idle
    /\ call' = [call EXCEPT ![r] = Idle]
    /\ UNCHANGED <<workspace, briefs, media, objects, vars>>

-----------------------------------------------------------------------------
BriefStep ==
    \/ save_owner_workspace
    \/ \E p \in Properties :
          \/ create_owner_property(p)
          \/ \E status \in BriefStatus : save_owner_yard_brief(p, status)
    \/ \E i \in Invitations : SendInvitation(i)

UploadStep ==
    \/ \E m \in Media :
          \/ \E p \in Properties, old \in Media \cup {Nothing} :
                create_owner_intake_media_upload(m, p, old)
          \/ uploadOwnerIntakeMediaFile(m)
          \/ \E r \in IntakeCalls : complete_owner_intake_media_upload(r, m)
    \/ \E r \in IntakeCalls :
          \/ InspectUpload(r) \/ PutUploadThumbnail(r)
          \/ complete_intake_media_upload(r)

DeletionStep ==
    \E r \in IntakeCalls :
        \/ \E m \in Media : delete_owner_intake_media(r, m)
        \/ delete_intake_media(r) \/ mark_intake_media_deleted(r)
        \/ AbandonCall(r)

IntakeStep == BriefStep \/ UploadStep \/ DeletionStep

-----------------------------------------------------------------------------
(* What the documentation says and the code does not keep.                 *)

\* The page: deleting a photograph cannot be undone; the contract: deleted is
\* the last state of its lifecycle.  A completion that read the row before the
\* deletion writes its status afterwards, and the photograph is listed again.
DeletedStaysDeleted ==
    [][\A m \in Media : media[m].status = "deleted"
                          => media'[m].status = "deleted"]_media
=============================================================================

SPECIFICATION MCSpec
CONSTANTS
    i1 = i1
    i2 = i2
    p1 = p1
    NoOne = NoOne
    Properties = {p1}
    PropertyOf <- MCPropertyOf
    Invitations = {i1, i2}
    Unsettled = {i1}
    Methods = {"remote", "on_site"}
    MaxCapabilities = 2
    MaxGrants = 2
    MaxGrantRequests = 2
    MaxProposals = 2
    MaxVisits = 2
    Media = {h1, h2}
    Presigned = {h1}
    IntakeCalls = {q1, q2}
    Nothing = Nothing
    MaxBriefs = 2
    TextKeys = {t1, t2}
    MaxTalk = 3
    Sides = {"intake", "setup", "series", "conversation", "competition"}
INVARIANTS
    EngagementTypeOK
    DecisionAgreement
    ActivationFollowsAcceptance
    RevokedHoldsNothing
    ConversationMovesOn
PROPERTIES
    HistoryIsFinal
CHECK_DEADLOCK FALSE

SPECIFICATION MCSpec
CONSTANTS
    i1 = i1
    i2 = i2
    p1 = p1
    NoOne = NoOne
    Properties = {p1}
    PropertyOf <- MCPropertyOf
    Invitations = {i1, i2}
    Unsettled = {i1}
    Methods = {"remote"}
    MaxCapabilities = 1
    MaxGrants = 1
    MaxGrantRequests = 1
    MaxProposals = 2
    MaxVisits = 1
    Media = {h1, h2}
    Presigned = {h1}
    IntakeCalls = {q1, q2}
    Nothing = Nothing
    MaxBriefs = 2
    TextKeys = {t1, t2}
    MaxTalk = 3
    Sides = {"series"}
INVARIANTS
    AcceptedClosesSeries
CHECK_DEADLOCK FALSE

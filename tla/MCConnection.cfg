SPECIFICATION MCSpec
CONSTANTS
    r1 = r1
    r2 = r2
    u1 = u1
    u2 = u2
    p1 = p1
    o1 = o1
    NoOne = NoOne
    Recipients = {r1, r2}
    Users = {u1, u2}
    MailboxOf <- MCMailboxOf
    Orgs = {o1, o2}
    Names = {n1}
    Invitations = {i1, i2}
    Properties = {p1, p2}
    Claims = {c1, c2}
    Reviewers = {v1, v2}
    MaxAttempts = 2
    MaxCapabilities = 2
    Sides = {"delivery", "claims", "activation"}
SYMMETRY Symmetry
INVARIANTS
    OneLiveInvitationPerRecipient
    DeliveryAgreement
    OneBootstrapPerName
    OneActiveClaim
    RejectionNeedsIndependentApproval
    CapabilityFollowsClaim
PROPERTIES
    TerminalStaysClosed
CHECK_DEADLOCK FALSE

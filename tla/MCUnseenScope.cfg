SPECIFICATION MCSpec
CONSTANTS
    owner = owner
    helper = helper
    before = before
    Kinds = {before}
    Photos = {x1, x2}
    KindOf <- MCKindOf
    Items = {i1}
    YardItems = {i1}
    AddOns = {a1}
    Users = {owner, helper}
    RoleOf <- MCRoleOf
    Mutations = {m1}
    Starts = {s1}
    Moves = {n1}
    Writers = {w1}
    Pages = {g1}
    Requests = {r1, r2, r3}
    NoOne = NoOne
    Over = Over
    Members = {owner, helper}
    RoleIn <- MCRoleOf
    Customers = {c1}
    Scopes = {x1, x2}
    Keys = {k1, k2}
    MaxVersions = 2
    MaxLinks = 1
    None = None
    Sides = {"bids"}
SYMMETRY Symmetry
INVARIANTS
    ApprovedAsDisplayed
CHECK_DEADLOCK FALSE

SPECIFICATION Spec
CONSTANTS
    a1 = a1
    p1 = p1
    p2 = p2
    c1 = c1
    c2 = c2
    s1 = s1
    s2 = s2
    r1 = r1
    r2 = r2
    Accounts = {a1}
    ProviderOf <- Identity
    Scopes = {"basic", "narrow"}
    Calls = {c1, c2}
    Scans = {s1, s2}
    Operations = {"op1"}
    LastPage = 2
    MaxGrants = 2
    Posts = {p1, p2}
    Kinds = {"reply", "quote", "Reply"}
    WellFormed = {"reply", "quote"}
    MaxRelations = 1
    Content <- Listing
    Observations <- Seen
    Resolvers = {r1, r2}
SYMMETRY Symmetry
CHECK_DEADLOCK FALSE
INVARIANTS
    GrantMatchesAccount
    CheckpointCovers
    CheckedRepliesAreAcyclic
PROPERTIES
    RemovedOncePerOperation

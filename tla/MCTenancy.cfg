SPECIFICATION MCSpec
CONSTANTS
    tenant1 = tenant1
    tenant2 = tenant2
    name1 = name1
    name2 = name2
    route1 = route1
    token1 = token1
    token2 = token2
    admin1 = admin1
    admin2 = admin2
    client1 = client1
    Tenants <- MCTenants
    Names <- MCNames
    Routes <- MCRoutes
    Tokens <- MCTokens
    Admins <- MCAdmins
    Clients <- MCClients
    None = None
    Gone = Gone
    Idle = Idle
SYMMETRY MCSymmetry
INVARIANTS
    ReferencesFollowTenant
    CrossingTakesTwoChanges
    SettledHeader
PROPERTY RefusedForCause
CHECK_DEADLOCK FALSE

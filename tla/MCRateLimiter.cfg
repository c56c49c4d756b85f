SPECIFICATION LimiterFairSpec
CONSTANTS
    route1 = route1
    token1 = token1
    call1 = call1
    Routes <- MCRoutes
    Tokens <- MCTokens
    Calls <- MCCalls
    AnyRoute = AnyRoute
    NoBucket = NoBucket
    NoCall = NoCall
    Limits <- MCLimits
    Unit = 2
    MaxWindow = 3
INVARIANTS
    WindowBound
PROPERTY ThrottledRecovers

SPECIFICATION FairSpec
CONSTANTS
    r1 = r1
    r2 = r2
    a1 = a1
    NoBreaker = NoBreaker
    Requests <- MCRequests
    Admins <- MCAdmins
    Threshold = 2
    OpenDuration = 0
    MaxRestarts = 1
INVARIANTS
    ClosedBelowThreshold
    HeldNeverClosed
PROPERTIES
    OnlyOperatorReleases
    OpenClosesThroughTrial
    OpenIsTriedAgain

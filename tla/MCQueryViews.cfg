CONSTANTS
    Orgs = {o1, o2}
    Budget <- MCBudget
    NoOrg = none
    Subjects = {s1, s2}
    Blank = blank
    MaxAsks = 3
    MaxOut = 2
    MaxVersion = 1
    MaxLosses = 1
SPECIFICATION ViewsSpec
INVARIANTS QuietConsoleAgrees CreatedWhereShown ViewShowsItsSubject
PROPERTIES PolledViewsCatchUp
CHECK_DEADLOCK FALSE

CONSTANTS
    r1 = r1
    r2 = r2
    n1 = n1
    None = none
    Lists <- MCLists
    Present <- MCPresent
    Fresh <- MCFresh
    MaxCalls = 2
    MaxOthers = 1
SPECIFICATION MCSpec
SYMMETRY MCSymmetry
INVARIANTS ActsOnChosen QuietListIsTrue SecretOutlivesRotation
CHECK_DEADLOCK FALSE

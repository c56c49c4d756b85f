CONSTANTS
    Conns = {c1, c2}
    Events = {e1, e2}
    Cap = 1
    Orgs = {o1, o2}
    Attempts = 3
    MaxOpens = 2
    Kept = 2
    MaxFailures = 1
    MaxSwitches = 1
    MaxPolls = 1
    MaxVersion = 1
    None = none
SPECIFICATION Spec
INVARIANTS SendsToOpen NoStrayStream EventShownOnce MapKeepsToOrg
PROPERTIES BroadcastEnds MapCatchesUp
CHECK_DEADLOCK FALSE

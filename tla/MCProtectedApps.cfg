SPECIFICATION Spec
CONSTANTS
    wiki = wiki
    grafana = grafana
    slug1 = slug1
    slug2 = slug2
    slot1 = slot1
    slot2 = slot2
    Apps <- MCApps
    Slugs <- MCSlugs
    SignIns = {tab}
    tab = tab
    Tokens = {script}
    script = script
    Slots <- MCSlots
    None = None
    Gone = Gone
    Idle = Idle
SYMMETRY MCSymmetry
INVARIANTS
    ServedInTime
    ServedForItsApp
    SignInLandsWhereItBegan

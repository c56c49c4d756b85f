SPECIFICATION Spec
CONSTANTS
    alice = alice
    aliceAtProvider = aliceAtProvider
    bob = bob
    aliceMail = aliceMail
    bobMail = bobMail
    slot1 = slot1
    slot2 = slot2
    Ids <- MCIds
    LocalIds <- MCLocalIds
    GroupIds <- MCGroupIds
    Email <- MCEmail
    SeedEmail = aliceMail
    Slots <- MCSlots
    None = None
    Idle = Idle
SYMMETRY MCSymmetry
INVARIANTS
    SetupLeavesWayIn
    RevokedStaysOut
PROPERTY LastAdminLeavesByRace

SPECIFICATION Spec
CONSTANTS
    alice = alice
    aliceAtProvider = aliceAtProvider
    bob = bob
    aliceMail = aliceMail
    bobMail = bobMail
    acme = acme
    code = code
    slot1 = slot1
    slot2 = slot2
    Ids <- MCIds
    Email <- MCEmail
    Orgs = {acme}
    Invites = {code}
    Slots <- MCSlots
    MaxUses = 2
    None = None
    Idle = Idle
SYMMETRY MCSymmetry
INVARIANTS
    GoneOrgIsEmpty
    InviteOverrunBounded
    RemovedStaysOut

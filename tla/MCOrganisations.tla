--------------------------- MODULE MCOrganisations ---------------------------
(* A person with two subjects and another with one, an organisation with one invite, two *)
(* calls at a time, which may both be deletions.                                          *)
EXTENDS Organisations, TLC

CONSTANTS alice, aliceAtProvider, bob, aliceMail, bobMail, acme, code, slot1, slot2

MCIds == {alice, aliceAtProvider, bob}
MCEmail == [u \in MCIds |-> IF u = bob THEN bobMail ELSE aliceMail]
MCSlots == {slot1, slot2}
MCSymmetry == Permutations(MCSlots) \cup Permutations({alice, aliceAtProvider})
=============================================================================

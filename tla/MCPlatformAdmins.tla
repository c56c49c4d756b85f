-------------------------- MODULE MCPlatformAdmins --------------------------
(* A local account and a provider account of one person, whose email is seeded, *)
(* a second local account, two calls at a time.                                 *)
EXTENDS PlatformAdmins, TLC

CONSTANTS alice, aliceAtProvider, bob, aliceMail, bobMail, slot1, slot2

MCIds == {alice, aliceAtProvider, bob}
MCLocalIds == {alice, bob}
MCGroupIds == {aliceAtProvider}
MCEmail == [u \in MCIds |-> IF u = bob THEN bobMail ELSE aliceMail]
MCSlots == {slot1, slot2}
MCSymmetry == Permutations(MCSlots)
=============================================================================

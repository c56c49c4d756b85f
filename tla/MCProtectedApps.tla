--------------------------- MODULE MCProtectedApps ---------------------------
(* Two apps that share two slugs, a browser that signs in, a token, and two calls at a time. *)
EXTENDS ProtectedApps, TLC

CONSTANTS wiki, grafana, slug1, slug2, tab, script, slot1, slot2

MCApps == {wiki, grafana}
MCSlugs == {slug1, slug2}
MCSlots == {slot1, slot2}
MCSymmetry ==
    Permutations(MCApps) \cup Permutations(MCSlugs) \cup Permutations(MCSlots)
=============================================================================

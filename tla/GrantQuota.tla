----------------------------- MODULE GrantQuota -----------------------------
(***************************************************************************)
(* What a provisioning grant promises, without how: an operator offers a   *)
(* number of tokens once, tokens are issued on the offer, and what is left *)
(* of it may be lost but never comes back.                                 *)
(***************************************************************************)
EXTENDS Naturals

CONSTANTS
    Grants,
    Offers       \* the numbers of tokens a grant may be made for

VARIABLES
    offered,     \* the grant was made
    allowance,   \* tokens that were or may still be issued on the grant
    issued       \* tokens issued on it

vars == <<offered, allowance, issued>>

Init ==
    /\ offered = [g \in Grants |-> FALSE]
    /\ allowance = [g \in Grants |-> 0]
    /\ issued = [g \in Grants |-> 0]

Offer(g, n) ==
    /\ ~offered[g]
    /\ offered' = [offered EXCEPT ![g] = TRUE]
    /\ allowance' = [allowance EXCEPT ![g] = n]
    /\ UNCHANGED issued

Issue(g) ==
    /\ issued[g] < allowance[g]
    /\ issued' = [issued EXCEPT ![g] = @ + 1]
    /\ UNCHANGED <<offered, allowance>>

\* Uses are forfeited: the grant expires or is deleted, or an accepted call fails.
Forfeit(g, n) ==
    /\ issued[g] <= n
    /\ n < allowance[g]
    /\ allowance' = [allowance EXCEPT ![g] = n]
    /\ UNCHANGED <<offered, issued>>

Next ==
    \E g \in Grants :
        \/ \E n \in Offers : Offer(g, n)
        \/ Issue(g)
        \/ \E n \in 0..allowance[g] : Forfeit(g, n)

Spec == Init /\ [][Next]_vars
=============================================================================

----------------------------- MODULE MCTenancy -----------------------------
(* Two tenants that share two names, a route, a token and the token it is     *)
(* rotated to, two operators and one request, of which two are at work at a    *)
(* time. A forwarded request reads nothing more: it ends before the next step. *)
(* Of a left row nothing is promised: of the two tokens, one may be left.      *)
EXTENDS Tenancy, TLC

CONSTANTS tenant1, tenant2, name1, name2, route1, token1, token2, admin1, admin2, client1

MCTenants == {tenant1, tenant2}
MCNames == {name1, name2}
MCRoutes == {route1}
MCTokens == {token1, token2}
MCAdmins == {admin1, admin2}
MCClients == {client1}
MCSymmetry == Permutations(MCTenants) \cup Permutations(MCNames) \cup Permutations(MCAdmins)

TwoAtATime ==
    Cardinality({a \in Admins : admin[a] # Idle}) + Cardinality({c \in Clients : request[c] # Idle}) <= 2

SecondTokenIsRotated ==
    \A a \in Admins : Running(a, "create", "write") => admin[a].row # token2

OneTokenLeft == Cardinality(left \cap Tokens) <= 1

Forwarded(c) == request[c] # Idle /\ request[c].at = "forwarded"

MCNext ==
    /\ \A c \in Clients : Forwarded(c) => Respond(c)
    /\ TenancyNext
    /\ TwoAtATime' /\ SecondTokenIsRotated' /\ OneTokenLeft'

MCSpec == TenancyInit /\ [][MCNext]_tenancyVars
=============================================================================

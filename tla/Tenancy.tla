------------------------------- MODULE Tenancy -------------------------------
(***************************************************************************)
(* Tenants, and the routes and tokens that name them.  A route or a token  *)
(* refers to its tenant by the tenant_id string, which an operator may     *)
(* change; no foreign key and no transaction keeps the three tables        *)
(* together.  Every SQL statement is an action: operator calls run theirs  *)
(* one after the other, and so do other operators' calls and proxied       *)
(* requests, which read the route, the token and the tenant at three       *)
(* different times, in between.                                            *)
(*                                                                         *)
(* Abstracted: what a row says beyond its tenant_id (a route's path,       *)
(* scope and methods, a token's scopes and lifetime), and the checks of a  *)
(* request on these.  Row ids are never used again.                        *)
(***************************************************************************)
EXTENDS Naturals, FiniteSets

CONSTANTS
    Tenants, Routes, Tokens,      \* row ids
    Names,                        \* tenant_id strings
    Admins, Clients,              \* slots for operator calls and for proxied requests
    None, Gone, Idle

Refs == Routes \cup Tokens

Kinds == {"rename", "delete", "create", "move", "rotate"}
Steps == {"tenants", "routes", "tokens", "check", "write", "revoke"}

OperatorCall == [kind: Kinds, at: Steps, row: Tenants \cup Refs, other: Tokens \cup {None},
         old: Names \cup {None}, new: Names \cup {None}, owner: Tenants \cup {None}]

Request == [at: {"token", "config", "forwarded"}, token: Tokens, name: Names,
            owner: Tenants \cup {None}, header: Tenants \cup {None},
            failed: BOOLEAN, stray: BOOLEAN, changes: 0..2]

ASSUME TenancyAssumption ==
    /\ None \notin Names /\ Gone \notin Names /\ None # Gone
    /\ None \notin Tenants
    /\ Routes \cap Tokens = {}
    /\ Idle \notin OperatorCall \cup Request

VARIABLES
    tenant,       \* tenant_id of each tenants row (None: not yet, Gone: deleted)
    ref,          \* tenant_id of each routes row and each tokens row
    active,       \* tokens.active
    home,         \* history: the tenant a route or a token was created for
    admin,        \* per slot: the operator call under way
    request,      \* per slot: the proxied request under way
    overtaken,    \* history: slots whose call relies on a read that another call made false
    left          \* history: rows that a rename stopped half-way or a call overtaken left
                  \* with a name that need not be their tenant's

tenancyVars == <<tenant, ref, active, home, admin, request, overtaken, left>>

TenancyInit ==
    /\ tenant = [t \in Tenants |-> None]
    /\ ref = [x \in Refs |-> None]
    /\ active = [k \in Tokens |-> FALSE]
    /\ home = [x \in Refs |-> None]
    /\ admin = [a \in Admins |-> Idle]
    /\ request = [c \in Clients |-> Idle]
    /\ overtaken = {}
    /\ left = {}

\* GetTenantByTenantID.
Named(n) == {t \in Tenants : tenant[t] = n}

Running(a, kind, step) == admin[a] # Idle /\ admin[a].kind = kind /\ admin[a].at = step

Begin(a, call) ==
    /\ admin[a] = Idle
    /\ admin' = [admin EXCEPT ![a] = call]

Continue(a, step) == admin' = [admin EXCEPT ![a].at = step]

End(a) ==
    /\ admin' = [admin EXCEPT ![a] = Idle]
    /\ overtaken' = overtaken \ {a}

NewCall(kind, step, row, t) ==
    [kind |-> kind, at |-> step, row |-> row, other |-> None,
     old |-> None, new |-> None, owner |-> t]

\* Rows that a rename under way has still to update.
Behind(a) ==
    {x \in Refs : /\ admin[a].kind = "rename" /\ admin[a].old # admin[a].new
                  /\ ref[x] = admin[a].old /\ home[x] = admin[a].row
                  /\ admin[a].at = "routes" \/ (admin[a].at = "tokens" /\ x \in Tokens)
                  /\ a \notin overtaken}

\* History: a request notes the changes of tenant names during its life, up to two.
Noted == [c \in Clients |->
            IF request[c] = Idle \/ request[c].changes = 2
            THEN request[c] ELSE [request[c] EXCEPT !.changes = @ + 1]]

\* The other calls that rely on the name t had, or on a name that t comes to.
Upset(a, t, n) ==
    {b \in Admins \ {a} : /\ admin[b] # Idle
                          /\ admin[b].owner = t \/ n \in {admin[b].old, admin[b].new}}

\* t comes to the name n. History: the rows of t that an overtaken call did not know of, and
\* those of the renames it overtakes, are left.
NameChanges(a, t, n) ==
    /\ tenant' = [tenant EXCEPT ![t] = n]
    /\ request' = Noted
    /\ left' = left \cup (UNION {Behind(b) : b \in Upset(a, t, n)})
                    \cup {x \in Refs : a \in overtaken /\ home[x] = t}

\* History: the deletes that may have counted before a row came to the name they count.
Miscounting(a) ==
    {b \in Admins \ {a} : /\ admin[b] # Idle /\ admin[b].kind = "delete"
                          /\ \E x \in Refs : ref'[x] = admin[b].old /\ ref[x] # admin[b].old}

\* History: the rows to which an overtaken call gave a name.
Misnamed(a) == {x \in Refs : a \in overtaken /\ ref'[x] # ref[x]}

\* A call ends with a write to routes or tokens.
EndWrite(a) ==
    /\ admin' = [admin EXCEPT ![a] = Idle]
    /\ overtaken' = (overtaken \cup Miscounting(a)) \ {a}

-----------------------------------------------------------------------------
(* Operator calls on tenants.                                              *)

CreateTenant(a, t, n) ==
    /\ admin[a] = Idle
    /\ tenant[t] = None
    /\ Named(n) = {}                    \* UNIQUE (tenant_id)
    /\ NameChanges(a, t, n)
    /\ overtaken' = overtaken \cup Upset(a, t, n)
    /\ UNCHANGED <<ref, active, home, admin>>

\* UpdateTenant reads the current name, ...
ReadTenant(a, t, n) ==
    /\ tenant[t] \in Names
    /\ Begin(a, [NewCall("rename", "tenants", t, t) EXCEPT !.old = tenant[t], !.new = n])
    /\ UNCHANGED <<tenant, ref, active, home, request, overtaken, left>>

\* ... updates the row, unless it is gone or the new name is taken, ...
RenameTenant(a) ==
    LET call == admin[a] IN
    /\ Running(a, "rename", "tenants")
    /\ IF tenant[call.row] \in Names /\ Named(call.new) \subseteq {call.row}
       THEN /\ NameChanges(a, call.row, call.new)
            /\ Continue(a, "routes")
            /\ overtaken' = overtaken \cup Upset(a, call.row, call.new)
       ELSE End(a) /\ UNCHANGED <<tenant, request, left>>
    /\ UNCHANGED <<ref, active, home>>

\* Mutants, for the checks that a property notices a bug in the code.
MutCascadeNothing(S, old, new) == ref
MutCascadeRoutesOnly(S, old, new) ==
    [x \in Refs |-> IF x \in S \cap Routes /\ ref[x] = old THEN new ELSE ref[x]]

\* ... then every route and every token that has the old name.
Cascade(S, old, new) == [x \in Refs |-> IF x \in S /\ ref[x] = old THEN new ELSE ref[x]]

RenameRoutes(a) ==
    /\ Running(a, "rename", "routes")
    /\ ref' = Cascade(Routes, admin[a].old, admin[a].new)
    /\ Continue(a, "tokens")
    /\ overtaken' = overtaken \cup Miscounting(a)
    /\ left' = left \cup Misnamed(a)
    /\ UNCHANGED <<tenant, active, home, request>>

RenameTokens(a) ==
    /\ Running(a, "rename", "tokens")
    /\ ref' = Cascade(Tokens, admin[a].old, admin[a].new)
    /\ EndWrite(a)
    /\ left' = left \cup Misnamed(a)
    /\ UNCHANGED <<tenant, active, home, request>>

\* DeleteTenant reads the name, counts its routes, counts its tokens, and deletes.
ReadDoomed(a, t) ==
    /\ tenant[t] \in Names
    /\ Begin(a, [NewCall("delete", "routes", t, t) EXCEPT !.old = tenant[t]])
    /\ UNCHANGED <<tenant, ref, active, home, request, overtaken, left>>

MutNeverReferenced(S, n) == FALSE

Referenced(S, n) == \E x \in S : ref[x] = n

CountRoutes(a) ==
    /\ Running(a, "delete", "routes")
    /\ IF Referenced(Routes, admin[a].old)
       THEN End(a) ELSE Continue(a, "tokens") /\ UNCHANGED overtaken
    /\ UNCHANGED <<tenant, ref, active, home, request, left>>

CountTokens(a) ==
    /\ Running(a, "delete", "tokens")
    /\ IF Referenced(Tokens, admin[a].old)
       THEN End(a) ELSE Continue(a, "write") /\ UNCHANGED overtaken
    /\ UNCHANGED <<tenant, ref, active, home, request, left>>

RemoveTenant(a) ==
    /\ Running(a, "delete", "write")
    /\ IF tenant[admin[a].row] = Gone
       THEN End(a) /\ UNCHANGED <<tenant, request, left>>
       ELSE /\ NameChanges(a, admin[a].row, Gone)
            /\ admin' = [admin EXCEPT ![a] = Idle]
            /\ overtaken' = (overtaken \cup Upset(a, admin[a].row, Gone)) \ {a}
    /\ UNCHANGED <<ref, active, home>>

-----------------------------------------------------------------------------
(* Operator calls on routes and tokens.                                    *)

\* An id is generated for one call.
Fresh(x) ==
    /\ ref[x] = None
    /\ \A a \in Admins : admin[a] # Idle => x \notin {admin[a].row, admin[a].other}

\* CreateRoute, CreateToken: the tenant exists ...
CheckCreate(a, x, t) ==
    /\ Fresh(x)
    /\ tenant[t] \in Names
    /\ Begin(a, [NewCall("create", "write", x, t) EXCEPT !.new = tenant[t]])
    /\ UNCHANGED <<tenant, ref, active, home, request, overtaken, left>>

Insert(x, n, t) ==
    /\ ref' = [ref EXCEPT ![x] = n]
    /\ home' = [home EXCEPT ![x] = t]
    /\ active' = [k \in Tokens |-> k = x \/ active[k]]

\* ... and then the row is inserted.
InsertRow(a) ==
    /\ Running(a, "create", "write")
    /\ Insert(admin[a].row, admin[a].new, admin[a].owner)
    /\ EndWrite(a)
    /\ left' = left \cup Misnamed(a)
    /\ UNCHANGED <<tenant, request>>

\* UpdateRoute: the same check, then the update, which may find no row.
CheckMove(a, r, t) ==
    /\ tenant[t] \in Names
    /\ Begin(a, [NewCall("move", "write", r, t) EXCEPT !.new = tenant[t]])
    /\ UNCHANGED <<tenant, ref, active, home, request, overtaken, left>>

UpdateRow(a) ==
    LET call == admin[a] IN
    /\ Running(a, "move", "write")
    /\ IF ref[call.row] \in Names
       THEN /\ ref' = [ref EXCEPT ![call.row] = call.new]
            /\ home' = [home EXCEPT ![call.row] = call.owner]
            /\ left' = IF a \in overtaken THEN left \cup {call.row} ELSE left \ {call.row}
       ELSE UNCHANGED <<ref, home, left>>
    /\ EndWrite(a)
    /\ UNCHANGED <<tenant, active, request>>

\* DeleteRoute, DeleteToken.
DeleteRow(a, x) ==
    /\ admin[a] = Idle
    /\ ref[x] \in Names
    /\ ref' = [ref EXCEPT ![x] = Gone]
    /\ UNCHANGED <<tenant, active, home, admin, request, overtaken, left>>

SetTokenActive(a, k, on) ==
    /\ admin[a] = Idle
    /\ ref[k] \in Names
    /\ active[k] # on
    /\ active' = [active EXCEPT ![k] = on]
    /\ UNCHANGED <<tenant, ref, home, admin, request, overtaken, left>>

\* handleRotateToken reads the old token, ...
ReadOldToken(a, k, new) ==
    /\ ref[k] \in Names
    /\ Fresh(new)
    /\ Begin(a, [NewCall("rotate", "check", k, home[k]) EXCEPT !.other = new, !.new = ref[k]])
    /\ UNCHANGED <<tenant, ref, active, home, request, overtaken, left>>

\* ... creates the new one on the tenant it read, in CreateToken's two statements, ...
CheckRotated(a) ==
    /\ Running(a, "rotate", "check")
    /\ IF Named(admin[a].new) = {}
       THEN End(a) ELSE Continue(a, "write") /\ UNCHANGED overtaken
    /\ UNCHANGED <<tenant, ref, active, home, request, left>>

InsertRotated(a) ==
    /\ Running(a, "rotate", "write")
    /\ Insert(admin[a].other, admin[a].new, admin[a].owner)
    /\ left' = left \cup Misnamed(a) \cup {y \in {admin[a].other} : admin[a].row \in left}
    /\ Continue(a, "revoke")
    /\ overtaken' = overtaken \cup Miscounting(a)
    /\ UNCHANGED <<tenant, request>>

\* ... and revokes the old one, if it is still there.
RevokeRotated(a) ==
    /\ Running(a, "rotate", "revoke")
    /\ active' = [active EXCEPT ![admin[a].row] = FALSE]
    /\ End(a)
    /\ UNCHANGED <<tenant, ref, home, request, left>>

\* A statement fails, or the operator's client disconnects and its context is cancelled.
StopHalfway(a) ==
    /\ admin[a] # Idle
    /\ left' = left \cup Behind(a)
    /\ End(a)
    /\ UNCHANGED <<tenant, ref, active, home, request>>

-----------------------------------------------------------------------------
(* handleProxy, as far as it reads these tables.                           *)

Renaming == \E a \in Admins : \E step \in {"routes", "tokens"} : Running(a, "rename", step)

\* RouteBySlug.  The client holds the secret of a token that was issued before.
ReadRoute(c, r, k) ==
    /\ request[c] = Idle
    /\ ref[r] \in Names
    /\ ref[k] # None
    /\ request' = [request EXCEPT ![c] =
            [at |-> "token", token |-> k, name |-> ref[r], owner |-> home[r], header |-> None,
             failed |-> FALSE, stray |-> r \in left, changes |-> IF Renaming THEN 1 ELSE 0]]
    /\ UNCHANGED <<tenant, ref, active, home, admin, overtaken, left>>

MutAnyTenant(q) == ref[q.token] \in Names /\ active[q.token]

\* ValidateToken, and the comparison with the route's tenant.
Accepted(q) == ref[q.token] = q.name /\ active[q.token]

AcceptToken(c) ==
    LET q == request[c] IN
    /\ q # Idle
    /\ q.at = "token"
    /\ Accepted(q)
    /\ request' = [request EXCEPT ![c].at = "config"]
    /\ UNCHANGED <<tenant, ref, active, home, admin, overtaken, left>>

RejectToken(c) ==
    LET q == request[c] IN
    /\ q # Idle
    /\ q.at = "token"
    /\ ~Accepted(q)
    /\ request' = [request EXCEPT ![c] = Idle]
    /\ UNCHANGED <<tenant, ref, active, home, admin, overtaken, left>>

\* The tenant's header, looked up by the name the route had; none when there is no such
\* tenant or the lookup fails, and the request is forwarded all the same.
HeaderOf(n) == IF Named(n) = {} THEN None ELSE CHOOSE t \in Named(n) : TRUE

Forward(c, fails) ==
    LET q == request[c] IN
    /\ q # Idle
    /\ q.at = "config"
    /\ request' = [request EXCEPT ![c].at = "forwarded", ![c].failed = fails,
                                  ![c].header = IF fails THEN None ELSE HeaderOf(q.name)]
    /\ UNCHANGED <<tenant, ref, active, home, admin, overtaken, left>>

Respond(c) ==
    /\ request[c] # Idle
    /\ request[c].at = "forwarded"
    /\ request' = [request EXCEPT ![c] = Idle]
    /\ UNCHANGED <<tenant, ref, active, home, admin, overtaken, left>>

TenantCall(a) ==
    \/ \E t \in Tenants, n \in Names : CreateTenant(a, t, n) \/ ReadTenant(a, t, n)
    \/ RenameTenant(a) \/ RenameRoutes(a) \/ RenameTokens(a)
    \/ \E t \in Tenants : ReadDoomed(a, t)
    \/ CountRoutes(a) \/ CountTokens(a) \/ RemoveTenant(a)

RowCall(a) ==
    \/ \E x \in Refs, t \in Tenants : CheckCreate(a, x, t)
    \/ InsertRow(a)
    \/ \E r \in Routes, t \in Tenants : CheckMove(a, r, t)
    \/ UpdateRow(a)
    \/ \E x \in Refs : DeleteRow(a, x)
    \/ \E k \in Tokens, on \in BOOLEAN : SetTokenActive(a, k, on)
    \/ \E k, new \in Tokens : ReadOldToken(a, k, new)
    \/ CheckRotated(a) \/ InsertRotated(a) \/ RevokeRotated(a)
    \/ StopHalfway(a)

ProxyStep(c) ==
    \/ \E r \in Routes, k \in Tokens : ReadRoute(c, r, k)
    \/ AcceptToken(c) \/ RejectToken(c) \/ Respond(c)
    \/ \E fails \in BOOLEAN : Forward(c, fails)

TenancyNext ==
    \/ \E a \in Admins : TenantCall(a) \/ RowCall(a)
    \/ \E c \in Clients : ProxyStep(c)

TenancySpec == TenancyInit /\ [][TenancyNext]_tenancyVars

-----------------------------------------------------------------------------
TenancyTypeOK ==
    /\ tenant \in [Tenants -> Names \cup {None, Gone}]
    /\ ref \in [Refs -> Names \cup {None, Gone}]
    /\ active \in [Tokens -> BOOLEAN]
    /\ home \in [Refs -> Tenants \cup {None}]
    /\ admin \in [Admins -> OperatorCall \cup {Idle}]
    /\ request \in [Clients -> Request \cup {Idle}]
    /\ overtaken \subseteq Admins
    /\ left \subseteq Refs

\* However many operators work at a time: a route or a token names the tenant it was created
\* for, whatever was renamed, deleted and created since, except while a rename of that tenant
\* still has its table to do, and except rows of two kinds. The one a stopped rename left
\* behind; the other an overtaken call wrote or did not know of: between its check and the
\* write that relies on it, which are not one statement, another call renamed or deleted its
\* tenant, took the name that it moves rows from or, for a delete, brought a row to its name.
ReferencesFollowTenant ==
    \A x \in Refs \ left : ref[x] \in Names =>
        \/ tenant[home[x]] = ref[x]
        \/ \E a \in Admins : admin[a] # Idle /\ x \in Behind(a)

\* A request passes from a token to a route of another tenant only if tenant names changed
\* twice while it ran: no single rename, deletion or creation, and no half-done rename it
\* meets, lets a token through to a route its tenant does not own.
CrossingTakesTwoChanges ==
    \A c \in Clients :
        LET q == request[c] IN
        /\ q # Idle /\ q.at \in {"config", "forwarded"} /\ home[q.token] # q.owner
        /\ q.token \notin left /\ ~q.stray
        => q.changes = 2

\* A token in order is turned away from its own tenant's route only if a change of names meets
\* the request, or had left one of the two: the check by name is otherwise exact.
RefusedForCause ==
    [][\A c \in Clients :
         RejectToken(c) =>
            LET q == request[c] IN
            \/ ref[q.token] = Gone \/ ~active[q.token]
            \/ home[q.token] # q.owner
            \/ q.token \in left \/ q.stray
            \/ q.changes > 0]_tenancyVars

\* A request that meets no change of tenant names carries its tenant's header, unless the
\* tenant could not be looked up, which is not an error to the code.
SettledHeader ==
    \A c \in Clients :
        LET q == request[c] IN
        q # Idle /\ q.at = "forwarded" /\ ~q.failed /\ q.changes = 0 /\ ~q.stray
            => q.header = q.owner
=============================================================================

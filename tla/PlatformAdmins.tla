--------------------------- MODULE PlatformAdmins ---------------------------
(***************************************************************************)
(* Who administers the platform: the rows of platform_admins, and all that *)
(* writes them.  Every authenticated request runs withAdminAuth, which     *)
(* keeps the user's row, inherits the role from a user of the same email   *)
(* and grants it to members of a provider group; platform administrators   *)
(* grant and revoke it; the first-run wizard and the start of a replica    *)
(* grant it on their own.                                                  *)
(*                                                                         *)
(* Every SQL statement is an action of its own, and calls on all replicas  *)
(* interleave.  An error of a statement that the code ignores skips the    *)
(* statement; any other error, or a client that is gone, ends the call.    *)
(* What a request asks for is chosen when it first matters.                *)
(*                                                                         *)
(* Abstracted: passwords and tokens (an identity signs in or does not),    *)
(* the rest of the provider's settings, audit and session rows.            *)
(***************************************************************************)
EXTENDS Naturals, FiniteSets

CONSTANTS
    Ids,            \* subjects that sign in: local accounts and provider accounts
    LocalIds,       \* those of local accounts
    GroupIds,       \* those whose token carries the administrators' group
    Email,          \* the email of each subject's token
    SeedEmail,      \* JUSTGATE_INITIAL_ADMIN_EMAIL
    Slots,          \* concurrent calls, on all replicas
    None, Idle

AuthPlaces == {"upsert", "prior", "priorAdmin", "inherit", "group", "joinGroup", "handler"}
AdminPlaces == {"grantee", "grant", "countAdmins", "revoke", "delete", "purge"}
SetupPlaces == {"flag", "accounts", "account", "user", "admin", "provider", "mark"}

Call == [at: AuthPlaces \cup AdminPlaces \cup SetupPlaces \cup {"seed"}, by: Ids \cup {None},
         subject: Ids \cup {None}, overtaken: BOOLEAN]

ASSUME PlatformAssumption ==
    /\ LocalIds \subseteq Ids /\ GroupIds \subseteq Ids
    /\ IsFiniteSet(Ids)
    /\ None \notin Ids
    /\ Idle \notin Call

VARIABLES
    accounts,     \* local_admin_users
    users,        \* users, whose emails are unique
    admins,       \* platform_admins
    adminGroup,   \* the provider's settings name a group of administrators
    complete,     \* setup_complete
    call,         \* per slot: who calls, where the call is, and whom it has read or is about
    mishap,       \* history: a wizard lost a statement or was cut short, or an account was
                  \*   registered without one
    wayIn,        \* history: somebody was an administrator, or a group was named
    revoked       \* history: users whose role was taken, and not granted since

tables == <<accounts, users, admins, adminGroup, complete>>
history == <<mishap, wayIn, revoked>>
vars == <<tables, call, history>>

Init ==
    /\ accounts = {} /\ users = {} /\ admins = {}
    /\ adminGroup = FALSE
    /\ complete = FALSE
    /\ call = [c \in Slots |-> Idle]
    /\ mishap = FALSE
    /\ wayIn = FALSE
    /\ revoked = {}

At(c, place) == call[c] # Idle /\ call[c].at = place

Begin(c, by, place) ==
    /\ call[c] = Idle
    /\ call' = [call EXCEPT ![c] = [at |-> place, by |-> by, subject |-> None, overtaken |-> FALSE]]

Goto(c, place) == call' = [call EXCEPT ![c].at = place]
GotoWith(c, place, u) == call' = [call EXCEPT ![c].at = place, ![c].subject = u]
End(c) == call' = [call EXCEPT ![c] = Idle]

(***************************************************************************)
(* Statements.                                                             *)
(***************************************************************************)
Named(e) == {u \in users : Email[u] = e}

\* Mutants, for the checks that a property notices a bug in the code.

\* UpsertUser: by id; another row with the email makes it fail.
Upserted(u) == IF Named(Email[u]) \subseteq {u} THEN users \cup {u} ELSE users

\* GrantPlatformAdmin: ON CONFLICT DO NOTHING.
Grant(u) ==
    /\ admins' = admins \cup {u}
    /\ wayIn' = TRUE
    /\ UNCHANGED <<accounts, users, adminGroup, complete, mishap>>

\* RevokePlatformAdmin.  History: what other calls have checked is not so any more.
Revoke(c, u) ==
    /\ admins' = admins \ {u}
    /\ revoked' = IF u \in admins THEN revoked \cup {u} ELSE revoked
    /\ call' = [d \in Slots |->
                  IF d = c THEN Idle
                  ELSE IF u \in admins /\ call[d] # Idle /\ call[d].at \in AdminPlaces
                       THEN [call[d] EXCEPT !.overtaken = TRUE]
                       ELSE call[d]]
    /\ UNCHANGED <<accounts, users, adminGroup, complete, mishap, wayIn>>

-----------------------------------------------------------------------------
(* withAdminAuth and withSuperAdminAuth.                                   *)

Request(c, u) ==
    /\ u \in LocalIds => u \in accounts
    /\ Begin(c, u, "upsert")
    /\ UNCHANGED <<tables, history>>

UpsertUser(c, fails) ==
    /\ At(c, "upsert")
    /\ users' = IF fails THEN users ELSE Upserted(call[c].by)
    /\ Goto(c, "prior")
    /\ UNCHANGED <<accounts, admins, adminGroup, complete, history>>

\* GetUserByEmail: the row of another subject with the email, if that is the one.
FindPrior(c) ==
    LET others == Named(Email[call[c].by]) \ {call[c].by} IN
    /\ At(c, "prior")
    /\ IF others = {}
       THEN Goto(c, "group")
       ELSE \E u \in others : GotoWith(c, "priorAdmin", u)
    /\ UNCHANGED <<tables, history>>

ReadPriorAdmin(c) ==
    /\ At(c, "priorAdmin")
    /\ GotoWith(c, IF call[c].subject \in admins THEN "inherit" ELSE "group", None)
    /\ UNCHANGED <<tables, history>>

InheritAdmin(c) ==
    /\ At(c, "inherit")
    /\ Grant(call[c].by)
    /\ Goto(c, "group")
    /\ UNCHANGED revoked

MutAnyGroup(u) == adminGroup

InAdminGroup(u) == adminGroup /\ u \in GroupIds

CheckGroup(c) ==
    /\ At(c, "group")
    /\ Goto(c, IF InAdminGroup(call[c].by) THEN "joinGroup" ELSE "handler")
    /\ UNCHANGED <<tables, history>>

GrantByGroup(c) ==
    /\ At(c, "joinGroup")
    /\ Grant(call[c].by)
    /\ Goto(c, "handler")
    /\ UNCHANGED revoked

\* The lookups and grants of the merge and of the group are skipped when they fail.
SkipMerge(c) ==
    /\ \/ At(c, "prior") /\ Goto(c, "group")
       \/ At(c, "priorAdmin") /\ GotoWith(c, "group", None)
       \/ At(c, "inherit") /\ Goto(c, "group")
       \/ At(c, "group") /\ Goto(c, "handler")
       \/ At(c, "joinGroup") /\ Goto(c, "handler")
    /\ UNCHANGED <<tables, history>>

\* IsPlatformAdmin, and what the call is for.
CheckSuper(c) ==
    /\ At(c, "handler")
    /\ call[c].by \in admins
    /\ \/ Goto(c, "grantee")
       \/ GotoWith(c, "countAdmins", call[c].by)
       \/ \E u \in Ids \ {call[c].by} : GotoWith(c, "revoke", u) \/ GotoWith(c, "delete", u)
    /\ UNCHANGED <<tables, history>>

-----------------------------------------------------------------------------
(* The handlers.                                                           *)

\* handleOIDCSettings, for any administrator.
ConfigureGroup(c, group) ==
    /\ At(c, "handler")
    /\ adminGroup' = group
    /\ wayIn' = (wayIn \/ group)
    /\ End(c)
    /\ UNCHANGED <<accounts, users, admins, complete, mishap, revoked>>

\* handlePlatformAdmins, POST: the row with the email, and the grant.
FindGrantee(c) ==
    /\ At(c, "grantee")
    /\ \E u \in users : GotoWith(c, "grant", u)
    /\ UNCHANGED <<tables, history>>

GrantAdmin(c) ==
    /\ At(c, "grant")
    /\ Grant(call[c].subject)
    /\ revoked' = revoked \ {call[c].subject}
    /\ End(c)

MutMayLeave == admins # {}

MayLeave == Cardinality(admins) > 1

\* handlePlatformAdminByID counts only when the caller removes itself.
CountAdmins(c) ==
    /\ At(c, "countAdmins")
    /\ IF MayLeave THEN Goto(c, "revoke") ELSE End(c)
    /\ UNCHANGED <<tables, history>>

RevokeAdmin(c) == At(c, "revoke") /\ Revoke(c, call[c].subject)

\* handlePlatformUserByID, of another user: the row first, and then the role.
DeleteUser(c) ==
    /\ At(c, "delete")
    /\ users' = users \ {call[c].subject}
    /\ IF call[c].subject \in users THEN Goto(c, "purge") ELSE End(c)
    /\ UNCHANGED <<accounts, admins, adminGroup, complete, history>>

PurgeAdmin(c) == At(c, "purge") /\ Revoke(c, call[c].subject)

-----------------------------------------------------------------------------
(* handleSetupComplete, and local registration.                            *)

SetupCalls == {c \in Slots : call[c] # Idle /\ call[c].at \in SetupPlaces}

BeginSetup(c) ==
    /\ Begin(c, None, "flag")
    /\ UNCHANGED <<tables, history>>

\* isSetupRequired: the flag, ...
ReadFlag(c) ==
    /\ At(c, "flag")
    /\ IF complete THEN End(c) ELSE Goto(c, "accounts")
    /\ UNCHANGED <<tables, history>>

\* ... and the accounts; then the payload, with a local account or without.
CountAccounts(c) ==
    /\ At(c, "accounts")
    /\ IF accounts # {} THEN End(c) ELSE Goto(c, "account") \/ Goto(c, "provider")
    /\ UNCHANGED <<tables, history>>

\* A new id, with an email that no account has.
Registrable(u) ==
    /\ u \in LocalIds \ accounts
    /\ \A v \in accounts : Email[v] # Email[u]

CreateAccount(c, u) ==
    /\ At(c, "account")
    /\ Registrable(u)
    /\ accounts' = accounts \cup {u}
    /\ call' = [call EXCEPT ![c].at = "user", ![c].by = u]
    /\ UNCHANGED <<users, admins, adminGroup, complete, mishap, wayIn, revoked>>

SetupUser(c) ==
    /\ At(c, "user")
    /\ users' = Upserted(call[c].by)
    /\ Goto(c, "admin")
    /\ UNCHANGED <<accounts, admins, adminGroup, complete, history>>

MutGrantNobody(c) ==
    /\ At(c, "admin")
    /\ Goto(c, "provider")
    /\ UNCHANGED <<tables, history>>

SetupAdmin(c) ==
    /\ At(c, "admin")
    /\ Grant(call[c].by)
    /\ revoked' = revoked \ {call[c].by}
    /\ Goto(c, "provider")

\* Without an account the provider's settings must be there and name a group; with one they
\* may be missing.
SetupProvider(c, group) ==
    /\ At(c, "provider")
    /\ adminGroup' = group
    /\ wayIn' = (wayIn \/ group)
    /\ call[c].by = None => group
    /\ Goto(c, "mark")
    /\ UNCHANGED <<accounts, users, admins, complete, mishap, revoked>>

SetupNoProvider(c) ==
    /\ At(c, "provider")
    /\ call[c].by # None
    /\ Goto(c, "mark")
    /\ UNCHANGED <<tables, history>>

MarkComplete(c) ==
    /\ At(c, "mark")
    /\ complete' = TRUE
    /\ End(c)
    /\ UNCHANGED <<accounts, users, admins, adminGroup, history>>

\* Errors after the account are logged, and the wizard goes on.
SetupGoesOn(c) ==
    /\ \/ At(c, "user") /\ Goto(c, "admin")
       \/ At(c, "admin") /\ Goto(c, "provider")
       \/ At(c, "provider") /\ Goto(c, "mark")
       \/ At(c, "mark") /\ End(c)
    /\ mishap' = TRUE
    /\ UNCHANGED <<tables, wayIn, revoked>>

\* handleRegisterLocalAdmin: an account, and no more.
Register(u) ==
    /\ Registrable(u)
    /\ accounts' = accounts \cup {u}
    /\ mishap' = TRUE
    /\ UNCHANGED <<users, admins, adminGroup, complete, call, wayIn, revoked>>

\* The call ends: it is answered without more ado, refused, fails, or its client is gone.
Stop(c) ==
    /\ call[c] # Idle
    /\ mishap' = (mishap \/ c \in SetupCalls)
    /\ End(c)
    /\ UNCHANGED <<tables, wayIn, revoked>>

-----------------------------------------------------------------------------
(* The goroutines of a replica that starts, which it may at any time.      *)

\* seedInitialPlatformAdmin: the lookup that finds the user, and the grant.
SeedLooks(c) ==
    /\ \E u \in Named(SeedEmail) : Begin(c, u, "seed")
    /\ UNCHANGED <<tables, history>>

SeedGrants(c) ==
    /\ At(c, "seed")
    /\ Grant(call[c].by)
    /\ End(c)
    /\ UNCHANGED revoked

\* autoCompleteSetupForExistingDeployments: what it reads before it writes, accounts and no
\* flag, stays so.
AutoComplete ==
    /\ ~complete
    /\ accounts # {}
    /\ complete' = TRUE
    /\ UNCHANGED <<accounts, users, admins, adminGroup, call, history>>

Authenticate(c) ==
    \/ \E u \in Ids : Request(c, u)
    \/ \E fails \in BOOLEAN : UpsertUser(c, fails)
    \/ FindPrior(c) \/ ReadPriorAdmin(c) \/ InheritAdmin(c)
    \/ CheckGroup(c) \/ GrantByGroup(c) \/ SkipMerge(c) \/ CheckSuper(c)

Handle(c) ==
    \/ \E group \in BOOLEAN : ConfigureGroup(c, group)
    \/ FindGrantee(c) \/ GrantAdmin(c)
    \/ CountAdmins(c) \/ RevokeAdmin(c) \/ DeleteUser(c) \/ PurgeAdmin(c)

Setup(c) ==
    \/ BeginSetup(c) \/ ReadFlag(c) \/ CountAccounts(c)
    \/ \E u \in Ids : CreateAccount(c, u)
    \/ SetupUser(c) \/ SetupAdmin(c)
    \/ \E group \in BOOLEAN : SetupProvider(c, group)
    \/ SetupNoProvider(c) \/ MarkComplete(c) \/ SetupGoesOn(c)

Next ==
    \/ \E c \in Slots : Authenticate(c) \/ Handle(c) \/ Setup(c) \/ Stop(c)
    \/ \E c \in Slots : SeedLooks(c) \/ SeedGrants(c)
    \/ \E u \in Ids : Register(u)
    \/ AutoComplete

Spec == Init /\ [][Next]_vars

-----------------------------------------------------------------------------
TypeOK ==
    /\ accounts \subseteq LocalIds
    /\ users \subseteq Ids /\ \A u, v \in users : Email[u] = Email[v] => u = v
    /\ admins \subseteq Ids
    /\ adminGroup \in BOOLEAN /\ complete \in BOOLEAN
    /\ call \in [Slots -> Call \cup {Idle}]
    /\ mishap \in BOOLEAN /\ wayIn \in BOOLEAN
    /\ revoked \subseteq Ids

\* "cannot remove the last platform admin" (platform.go:168), as far as the code keeps it:
\* the table is emptied only by a call that another removal overtook after its checks.
LastAdminLeavesByRace ==
    [][admins # {} /\ admins' = {} =>
         \E c \in Slots : call[c] # Idle /\ call[c].overtaken /\ call'[c] = Idle]_vars

\* Setup never closes behind nobody: once it is complete, an administrator or a group was
\* stored, or a wizard that made its account is about to, unless a wizard was cut short or
\* an account registered before it.
SetupLeavesWayIn ==
    complete => \/ wayIn \/ mishap
                \/ \E c \in Slots : At(c, "user") \/ At(c, "admin")

\* A revoked administrator is not one again without a grant, whatever calls were under way,
\* but for the three sources that ask nobody: the seed, the group, and a second subject of
\* the same email.
RevokedStaysOut ==
    \A u \in revoked \cap admins :
        \/ Email[u] = SeedEmail
        \/ u \in GroupIds
        \/ \E v \in Ids \ {u} : Email[v] = Email[u]
=============================================================================

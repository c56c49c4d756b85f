---------------------------- MODULE Organisations ----------------------------
(***************************************************************************)
(* Organisations: their members and roles, their invites, and the tenants  *)
(* they own.  A request first takes over the memberships of another        *)
(* subject with the caller's email, then reads the caller's membership,    *)
(* and then writes on the strength of what it read.  An invite is read and *)
(* counted by two statements of one transaction.  A platform administrator *)
(* deletes an organisation table by table, and deletes users.  The schema  *)
(* has no foreign key between these tables.                                *)
(*                                                                         *)
(* Every statement is an action, and calls on all replicas interleave; the *)
(* isolation is PostgreSQL's default, where a transaction sees what others *)
(* commit between its statements.  A call may end at any point: an answer, *)
(* an error, or a client that is gone.                                     *)
(*                                                                         *)
(* Abstracted: names, the authentication of callers, platform              *)
(* administrators (see PlatformAdmins) and the users table.  Of the        *)
(* subjects with one email, one has the row that GetUserByEmail returns:   *)
(* here it may be any of them, as it may after a deletion.                 *)
(***************************************************************************)
EXTENDS Naturals, FiniteSets

CONSTANTS
    Ids,            \* subjects that sign in
    Email,          \* the email of each
    Orgs,           \* organisation ids
    Invites,        \* invite ids
    Slots,          \* concurrent calls, on all replicas
    MaxUses,        \* max_uses of an invite: 10 in orgs.go:215
    None, Idle

Roles == {"member", "owner"}
DeletePlaces == {"tenants", "invites", "members", "org"}
Places == {"inherit", "handler", "member", "accept"} \cup DeletePlaces

Call == [at: Places, by: Ids \cup {None}, org: Orgs \cup {None}, rank: Roles \cup {None},
         invite: Invites \cup {None}, prior: SUBSET (Orgs \X Roles), met: BOOLEAN]

ASSUME OrganisationsAssumption ==
    /\ IsFiniteSet(Slots)
    /\ MaxUses \in Nat \ {0}
    /\ None \notin Ids \cup Orgs \cup Invites \cup Roles
    /\ Idle \notin Call

VARIABLES
    org,       \* organizations: "none" so far, "live", or "gone"
    role,      \* org_memberships: the role of each subject in each organisation
    invite,    \* org_invites
    owning,    \* organisations that own tenants
    call,      \* per slot: the call under way
    strayed,   \* history: organisations that got a row from a call that a deletion overlapped
    removed    \* history: memberships that were taken away, and not given again since

vars == <<org, role, invite, owning, call, strayed, removed>>

Unwritten == [org |-> None, uses |-> 0, expired |-> FALSE]

Init ==
    /\ org = [o \in Orgs |-> "none"]
    /\ role = [o \in Orgs |-> [u \in Ids |-> None]]
    /\ invite = [i \in Invites |-> Unwritten]
    /\ owning = {}
    /\ call = [c \in Slots |-> Idle]
    /\ strayed = {}
    /\ removed = {}

At(c, place) == call[c] # Idle /\ call[c].at = place

End(c) == call' = [call EXCEPT ![c] = Idle]

Blank == [at |-> "handler", by |-> None, org |-> None, rank |-> None, invite |-> None,
          prior |-> {}, met |-> FALSE]

Namesakes(u) == {v \in Ids \ {u} : Email[v] = Email[u]}

(***************************************************************************)
(* Statements.                                                             *)
(***************************************************************************)
\* ListOrgs joins organizations: what is left of a deleted one does not show.
OrgsOf(u) == {<<o, role[o][u]>> : o \in {x \in Orgs : org[x] = "live" /\ role[x][u] # None}}

DeletingOrg(o) == \E d \in Slots : call[d] # Idle /\ call[d].at \in DeletePlaces /\ call[d].org = o

\* History: call c inserts a row of o.
Insert(c, o) ==
    strayed' = IF DeletingOrg(o) \/ call[c].met THEN strayed \cup {o} ELSE strayed

\* A subject is a member of o from now on, with role r.
Join(c, o, u, r) ==
    /\ role' = [role EXCEPT ![o][u] = r]
    /\ removed' = removed \ {<<o, u>>}
    /\ Insert(c, o)

\* DELETE FROM org_memberships WHERE ...
Leave(memberships) ==
    /\ role' = [o \in Orgs |-> [u \in Ids |->
                  IF <<o, u>> \in memberships THEN None ELSE role[o][u]]]
    /\ removed' = removed \cup {m \in memberships : role[m[1]][m[2]] # None /\ Namesakes(m[2]) = {}}

-----------------------------------------------------------------------------
(* withAdminAuth: the memberships of another subject with the email, as they were when they *)
(* were listed, are taken over one by one; an error skips any of it.                        *)

Request(c, u) ==
    /\ call[c] = Idle
    /\ \E prior \in {{}} \cup {OrgsOf(v) : v \in Namesakes(u)} :
         call' = [call EXCEPT ![c] =
                    [Blank EXCEPT !.by = u, !.prior = prior,
                                  !.at = IF prior = {} THEN "handler" ELSE "inherit"]]
    /\ UNCHANGED <<org, role, invite, owning, strayed, removed>>

Inherited(c, m) ==
    LET rest == call[c].prior \ {m} IN
    call' = [call EXCEPT ![c].prior = rest, ![c].at = IF rest = {} THEN "handler" ELSE "inherit"]

InheritMembership(c) ==
    /\ At(c, "inherit")
    /\ \E m \in call[c].prior :
         /\ Join(c, m[1], call[c].by, m[2])
         /\ Inherited(c, m)
    /\ UNCHANGED <<org, invite, owning>>

SkipMembership(c) ==
    /\ At(c, "inherit")
    /\ \E m \in call[c].prior : Inherited(c, m)
    /\ UNCHANGED <<org, role, invite, owning, strayed, removed>>

\* GetOrgMembership, in handleOrgByID and in withOrgContext: it asks for no organizations row.
CheckMembership(c, o) ==
    /\ At(c, "handler")
    /\ role[o][call[c].by] # None
    /\ call' = [call EXCEPT ![c].at = "member", ![c].org = o, ![c].rank = role[o][call[c].by]]
    /\ UNCHANGED <<org, role, invite, owning, strayed, removed>>

-----------------------------------------------------------------------------
(* The handlers.                                                           *)

\* One transaction.
CreateOrg(c, o) ==
    /\ At(c, "handler")
    /\ org[o] = "none"
    /\ org' = [org EXCEPT ![o] = "live"]
    /\ Join(c, o, call[c].by, "owner")
    /\ End(c)
    /\ UNCHANGED <<invite, owning>>

AsOwner(c) == At(c, "member") /\ call[c].rank = "owner"


\* A role the caller made up is taken for a member's.
Normalised(r) == IF r \in Roles THEN r ELSE "member"

\* GetUserByEmail, which finds somebody, and AddOrgMember: ON CONFLICT DO UPDATE.
AddMember(c, u, r) ==
    /\ AsOwner(c)
    /\ Join(c, call[c].org, u, Normalised(r))
    /\ End(c)
    /\ UNCHANGED <<org, invite, owning>>

MutSetRole(o, u, r) == [role EXCEPT ![o][u] = r]

\* UPDATE org_memberships: of a member only.
SetRole(o, u, r) == IF role[o][u] = None THEN role ELSE [role EXCEPT ![o][u] = r]

ChangeMemberRole(c, u, r) ==
    /\ AsOwner(c)
    /\ role' = SetRole(call[c].org, u, r)
    /\ End(c)
    /\ UNCHANGED <<org, invite, owning, strayed, removed>>

\* Owners remove anybody, members themselves; nobody asks who is left.
RemoveMember(c, u) ==
    /\ At(c, "member")
    /\ call[c].rank = "owner" \/ u = call[c].by
    /\ Leave({<<call[c].org, u>>})
    /\ End(c)
    /\ UNCHANGED <<org, invite, owning, strayed>>

CreateOrgInvite(c, i) ==
    /\ AsOwner(c)
    /\ invite[i] = Unwritten
    /\ invite' = [invite EXCEPT ![i].org = call[c].org]
    /\ Insert(c, call[c].org)
    /\ End(c)
    /\ UNCHANGED <<org, role, owning, removed>>

\* A row that is gone is not written again: it stays expired.
Dropped(i) == [invite[i] EXCEPT !.org = None, !.expired = TRUE]

DeleteOrgInvite(c, i) ==
    /\ AsOwner(c)
    /\ invite[i].org = call[c].org
    /\ invite' = [invite EXCEPT ![i] = Dropped(i)]
    /\ End(c)
    /\ UNCHANGED <<org, role, owning, strayed, removed>>

\* INSERT INTO tenants, with the org_id of the request.
CreateTenant(c) ==
    /\ At(c, "member")
    /\ owning' = owning \cup {call[c].org}
    /\ Insert(c, call[c].org)
    /\ End(c)
    /\ UNCHANGED <<org, role, invite, removed>>

-----------------------------------------------------------------------------
(* handleAcceptInvite: ConsumeOrgInvite is one transaction.                *)

MutUsable(i) == invite[i].org # None /\ ~invite[i].expired /\ invite[i].uses <= MaxUses

Usable(i) == invite[i].org # None /\ ~invite[i].expired /\ invite[i].uses < MaxUses

ReadInvite(c, i) ==
    /\ At(c, "handler")
    /\ Usable(i)
    /\ call' = [call EXCEPT ![c].at = "accept", ![c].invite = i, ![c].org = invite[i].org]
    /\ UNCHANGED <<org, role, invite, owning, strayed, removed>>


\* ON CONFLICT DO NOTHING.
AcceptedRole(current) == IF current = None THEN "member" ELSE current

\* UPDATE, which counts in the row as it is now if it still is, INSERT, and commit.
AcceptInvite(c) ==
    LET o == call[c].org
        i == call[c].invite
        u == call[c].by
    IN
    /\ At(c, "accept")
    /\ invite' = IF invite[i].org = None THEN invite ELSE [invite EXCEPT ![i].uses = @ + 1]
    /\ Join(c, o, u, AcceptedRole(role[o][u]))
    /\ End(c)
    /\ UNCHANGED <<org, owning>>

\* Seven days later.
Expire(i) ==
    /\ invite[i].org # None
    /\ ~invite[i].expired
    /\ invite' = [invite EXCEPT ![i].expired = TRUE]
    /\ UNCHANGED <<org, role, owning, call, strayed, removed>>

-----------------------------------------------------------------------------
(* Platform administrators.                                                *)

\* DeleteUser, as far as memberships go.
DeleteUser(u) ==
    /\ Leave(Orgs \X {u})
    /\ UNCHANGED <<org, invite, owning, call, strayed>>

\* DeleteOrg, of one that is there or was: SELECT tenant_id FROM tenants, ...
BeginDeleteOrg(c, o) ==
    /\ call[c] = Idle
    /\ org[o] # "none"
    /\ call' = [call EXCEPT ![c] = [Blank EXCEPT !.at = "tenants", !.org = o]]
    /\ UNCHANGED <<org, role, invite, owning, strayed, removed>>

DropTenants(c) ==
    /\ At(c, "tenants")
    /\ owning' = owning \ {call[c].org}
    /\ call' = [call EXCEPT ![c].at = "invites"]
    /\ UNCHANGED <<org, role, invite, strayed, removed>>

MutKeepInvites(c) ==
    /\ At(c, "invites")
    /\ call' = [call EXCEPT ![c].at = "members"]
    /\ UNCHANGED <<org, role, invite, owning, strayed, removed>>

DropInvites(c) ==
    /\ At(c, "invites")
    /\ invite' = [i \in Invites |-> IF invite[i].org = call[c].org THEN Dropped(i) ELSE invite[i]]
    /\ call' = [call EXCEPT ![c].at = "members"]
    /\ UNCHANGED <<org, role, owning, strayed, removed>>

DropMembers(c) ==
    /\ At(c, "members")
    /\ Leave({call[c].org} \X Ids)
    /\ call' = [call EXCEPT ![c].at = "org"]
    /\ UNCHANGED <<org, invite, owning, strayed>>

\* ... and the row itself.  History: who is under way now has met the deletion.
DropOrg(c) ==
    /\ At(c, "org")
    /\ org' = [org EXCEPT ![call[c].org] = "gone"]
    /\ call' = [d \in Slots |->
                  IF d = c THEN Idle
                  ELSE IF call[d] # Idle /\ call[d].at \notin DeletePlaces
                       THEN [call[d] EXCEPT !.met = TRUE]
                       ELSE call[d]]
    /\ UNCHANGED <<role, invite, owning, strayed, removed>>

Stop(c) ==
    /\ call[c] # Idle
    /\ End(c)
    /\ UNCHANGED <<org, role, invite, owning, strayed, removed>>

-----------------------------------------------------------------------------
Member(c) ==
    \/ \E u \in Ids, r \in Roles \cup {"other"} : AddMember(c, u, r)
    \/ \E u \in Ids, r \in Roles : ChangeMemberRole(c, u, r)
    \/ \E u \in Ids : RemoveMember(c, u)
    \/ \E i \in Invites : CreateOrgInvite(c, i) \/ DeleteOrgInvite(c, i)
    \/ CreateTenant(c)

Operate(c) ==
    \/ \E u \in Ids : Request(c, u)
    \/ InheritMembership(c) \/ SkipMembership(c)
    \/ \E o \in Orgs : CheckMembership(c, o) \/ CreateOrg(c, o)
    \/ Member(c)
    \/ \E i \in Invites : ReadInvite(c, i)
    \/ AcceptInvite(c)
    \/ Stop(c)

DeleteOrg(c) ==
    \/ \E o \in Orgs : BeginDeleteOrg(c, o)
    \/ DropTenants(c) \/ DropInvites(c) \/ DropMembers(c) \/ DropOrg(c)

Next ==
    \/ \E c \in Slots : Operate(c) \/ DeleteOrg(c)
    \/ \E i \in Invites : Expire(i)
    \/ \E u \in Ids : DeleteUser(u)

Spec == Init /\ [][Next]_vars

-----------------------------------------------------------------------------
TypeOK ==
    /\ org \in [Orgs -> {"none", "live", "gone"}]
    /\ role \in [Orgs -> [Ids -> Roles \cup {None}]]
    /\ invite \in [Invites -> [org: Orgs \cup {None}, uses: Nat, expired: BOOLEAN]]
    /\ owning \subseteq Orgs
    /\ call \in [Slots -> Call \cup {Idle}]
    /\ strayed \subseteq Orgs
    /\ removed \subseteq Orgs \X Ids

\* An organisation that DeleteOrg has removed left nothing behind: no member who passes
\* GetOrgMembership, no invite, no tenant, unless a call that the deletion overlapped
\* wrote a row after its table was cleared.
GoneOrgIsEmpty ==
    \A o \in Orgs : org[o] = "gone" /\ o \notin strayed =>
        /\ o \notin owning
        /\ \A i \in Invites : invite[i].org # o
        /\ \A u \in Ids : role[o][u] = None

\* ConsumeOrgInvite reads use_count and counts it in two statements: an invite is used more
\* often than max_uses, but by no more than the other calls that may have read it in time.
InviteOverrunBounded == \A i \in Invites : invite[i].uses < MaxUses + Cardinality(Slots)

\* A membership that was taken away is not back until somebody adds the subject or it accepts
\* an invite, whatever calls of owners or of its own were under way.  Subjects that share
\* their email with another are left out: a request brings their memberships back.
RemovedStaysOut == \A m \in removed : role[m[1]][m[2]] = None

\* A member's role changes only through a call that read its caller to be an owner: neither
\* accepting an invite nor anything else a member does raises or lowers it.  Subjects that
\* share their email are left out: a request overwrites their roles by the other's.
RolesMoveByOwners ==
    [][\A o \in Orgs, u \in Ids :
         /\ role[o][u] # None /\ role'[o][u] # None /\ role'[o][u] # role[o][u]
         /\ Namesakes(u) = {}
         => \E c \in Slots : AsOwner(c) /\ call[c].org = o /\ call'[c] = Idle]_vars
=============================================================================

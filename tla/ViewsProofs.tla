----------------------------- MODULE ViewsProofs ------------------------------
(***************************************************************************)
(* What the console shows: its lists, the organisation it works in, and    *)
(* its read-only views.                                                    *)
(***************************************************************************)
EXTENDS Tables, QueryViews, FiniteSetTheorems, SequenceTheorems, TLAPS

(***************************************************************************)
(* The console's lists, for any rows, requests and operators.  The         *)
(* invariant follows a change of a row from the server to the list: until  *)
(* the list has it, the request that made it is still to be answered, or a *)
(* secret waits to be put away, or a refresh or a load that will bring it  *)
(* is under way, or nobody will ever tell.                                 *)
(***************************************************************************)

OpNames == {"add", "change", "delete", "duplicate", "revoke", "rotate"}
Adding == {"add", "duplicate", "rotate"}
Status == There \cup {"gone", "absent"}

CallType ==
    [id : Nat, op : OpNames, row : Rows \cup {None}, todo : SUBSET Rows, new : Rows \cup {None},
     bulk : BOOLEAN, mounted : BOOLEAN, ok : SUBSET Rows, broken : BOOLEAN, unviewed : SUBSET Rows]

TallyType ==
    [sent : Nat, others : Nat, loads : Nat, latest : Nat, crossed : BOOLEAN,
     viewed : SUBSET Rows, unviewed : SUBSET Rows, untold : SUBSET Rows,
     lost : SUBSET [id : Nat, by : SUBSET Nat]]

LoadType == [n : Nat, at : {"sent", "read"}, seen : [Rows -> Status]]

(***************************************************************************)
(* What the tables have in common: how an answer reaches the rows.         *)
(***************************************************************************)
Good(l) ==
    /\ l.rows \in {"page", "given", "fetched"}
    /\ l.ticks \subseteq {"delete", "revoke"} \cap DOMAIN l.buttons
    /\ l.ticks # {} => l.rows = "page"
    /\ l.fails = "hides" <=> l.rows = "fetched" /\ "change" \in DOMAIN l.buttons
    /\ l.rows = "page" => l.fails = "empties"
    /\ DOMAIN l.buttons \subseteq OpNames
    /\ \A op \in DOMAIN l.buttons :
          /\ l.rows = "page" =>
                l.buttons[op].after = (IF op = "rotate" THEN "secret" ELSE "refresh") /\ op # "add"
          /\ op \in {"rotate", "duplicate"} => l.buttons[op].told /\ l.buttons[op].heeds /\ l.rows = "page"
          /\ l.buttons[op].after # "refresh" => l.buttons[op].told /\ l.buttons[op].heeds
          /\ ~l.buttons[op].heeds => l.buttons[op].told
          /\ l.rows = "given" => l.buttons[op].after = "edit"
          /\ l.rows = "fetched" =>
                l.buttons[op].after = IF "change" \in DOMAIN l.buttons THEN "load" ELSE "edit"
          /\ l.rows = "fetched" /\ "change" \notin DOMAIN l.buttons /\ op = "delete" =>
                l.buttons[op].disabledBy = "any"
    /\ "change" \in DOMAIN l.buttons => DOMAIN l.buttons \cap {"revoke", "rotate"} = {} /\ l.rows # "given"
    /\ l.rows # "page" /\ "revoke" \in DOMAIN l.buttons => DOMAIN l.buttons = {"revoke"}

LEMMA RoutesGood == Good(RoutesTable)
  BY DEF Good, RoutesTable, List, Button, DeleteRouteButton, DuplicateRoute, OpNames
LEMMA TokensGood == Good(TokensTable)
  BY DEF Good, TokensTable, List, Button, DeleteTokenButton, RevokeTokenButton, RotateTokenButton, OpNames
LEMMA TenantsGood == Good(TenantCard)
  BY DEF Good, TenantCard, List, Button, DeleteTenantButton, OpNames
LEMMA GrantsGood == Good(GrantsTable)
  BY DEF Good, GrantsTable, List, Button, DeleteGrantButton, OpNames
LEMMA AppsGood == Good(ProtectedAppsTable)
  BY DEF Good, ProtectedAppsTable, List, Button, DeleteAppButton, OpNames
LEMMA SessionsGood == Good(SessionsTable)
  BY DEF Good, SessionsTable, List, Button, RevokeSession, OpNames
LEMMA UsersGood == Good(PlatformUsersTable)
  BY DEF Good, PlatformUsersTable, List, Button, Unheard, DeletePlatformUser, OpNames
LEMMA OrgsGood == Good(PlatformOrgsTable)
  BY DEF Good, PlatformOrgsTable, List, Button, Unheard, DeletePlatformOrg, OpNames
LEMMA AdminsGood == Good(PlatformAdminsTable)
  BY DEF Good, PlatformAdminsTable, List, Button, Unheard, RevokePlatformAdmin, OpNames
LEMMA MembersGood == Good(TeamMembersTable)
  BY DEF Good, TeamMembersTable, List, Button, RemoveMember, ChangeRole, OpNames
LEMMA InvitesGood == Good(PendingInvitesList)
  BY DEF Good, PendingInvitesList, List, Button, RevokeInvite, OpNames
LEMMA IPRulesGood == Good(OrgIPRulesTable)
  BY DEF Good, OrgIPRulesTable, List, Button, DeleteIPRule, OpNames
LEMMA MappingsGood == Good(OIDCOrgMappings)
  BY DEF Good, OIDCOrgMappings, List, Button, DeleteMapping, AddMapping, OpNames
LEMMA TenantUpstreamsGood == Good(TenantUpstreams)
  BY DEF Good, TenantUpstreams, Hiding, List, Button, AddUpstream, EditUpstream, DeleteUpstream, OpNames
LEMMA RouteUpstreamsGood == Good(RouteUpstreams)
  BY DEF Good, RouteUpstreams, Hiding, List, Button, AddRouteUpstream, EditRouteUpstream, DeleteRouteUpstream, OpNames
LEMMA AppTokensGood == Good(AppTokensPanel)
  BY DEF Good, AppTokensPanel, List, Button, CreateAppToken, DeleteAppToken, OpNames
LEMMA AppSessionsGood == Good(AppSessionsPanel)
  BY DEF Good, AppSessionsPanel, List, Button, RevokeAppSession, OpNames

LEMMA AllGood == \A k \in DOMAIN Component : Good(Component[k])
<1> SUFFICES ASSUME NEW k \in DOMAIN Component PROVE Good(Component[k])
  OBVIOUS
<1> HIDE DEF Component
<1>1. Component[k] \in {RoutesTable, TokensTable, TenantCard, GrantsTable, ProtectedAppsTable, SessionsTable,
        PlatformUsersTable, PlatformOrgsTable, PlatformAdminsTable, TeamMembersTable, PendingInvitesList,
        OrgIPRulesTable, OIDCOrgMappings, TenantUpstreams, RouteUpstreams, AppTokensPanel, AppSessionsPanel}
  BY DEF Component
<1> QED BY <1>1, RoutesGood, TokensGood, TenantsGood, GrantsGood, AppsGood, SessionsGood, UsersGood, OrgsGood,
      AdminsGood, MembersGood, InvitesGood, IPRulesGood, MappingsGood, TenantUpstreamsGood, RouteUpstreamsGood,
      AppTokensGood, AppSessionsGood

(***************************************************************************)
(* The inductive invariant.                                                *)
(***************************************************************************)
OnPage == L.rows = "page"
Loaded == L.rows = "fetched" /\ "change" \in DOMAIN L.buttons
Edited == L.rows = "given" \/ (L.rows = "fetched" /\ "change" \notin DOMAIN L.buttons)

Types ==
    /\ kind \in Lists /\ failed \in BOOLEAN
    /\ server \in [Rows -> Status] /\ list \in [Rows -> Status]
    /\ matching \subseteq Rows /\ ticked \subseteq Rows /\ slot \in Rows \cup {None}
    /\ calls \subseteq CallType /\ secrets \subseteq CallType
    /\ loads \subseteq LoadType
    /\ refresh \in [at : {"none", "asked", "read"}, by : SUBSET Nat, seen : [Rows -> Status]]
    /\ tally \in TallyType

Chosen ==
    /\ tally.unviewed = {} /\ ticked \subseteq tally.viewed
    /\ \A c \in calls : c.unviewed = {}

WellFormed(c) ==
    /\ c.op \in DOMAIN L.buttons
    /\ c.bulk => c.op \in L.ticks
    /\ ~c.bulk => c.row \in Rows /\ c.todo \cup c.ok \subseteq {c.row}
    /\ IF c.op \in Adding THEN c.new \in Rows ELSE c.new = None
    /\ c.op = "add" => c.row = c.new
    /\ c.ok \cap c.todo = {}

Formed == (\A c \in calls : WellFormed(c)) /\ (\A c \in secrets : c.op = "rotate" /\ WellFormed(c))

\* Rows put aside for a request are not there before it is served; those it is about are.
Concerns(c, r) == r \in c.todo \cup c.ok \cup {c.row}
Reserved ==
    /\ \A c \in calls : c.todo # {} /\ c.new # None => server[c.new] = "absent"
    /\ \A c \in calls : c.op # "add" => \A r \in Rows : Concerns(c, r) => server[r] # "absent"
    /\ \A c, d \in calls : c.new = d.new /\ c.new # None => c = d
    /\ \A r \in ticked : server[r] # "absent"

\* A request has a number of its own, and a rotation's has asked for no refresh yet.
Ids ==
    /\ \A c \in calls \cup secrets : c.id \in 1..tally.sent
    /\ \A c, d \in calls : c.id = d.id => c = d
    /\ \A c \in calls, d \in secrets : c.id # d.id
    /\ \A c, d \in secrets : c.id = d.id => c = d
    /\ refresh.by \subseteq 0..tally.sent
    /\ \A c \in calls : c.op = "rotate" => c.id \notin refresh.by
    /\ \A c \in secrets : c.id \notin refresh.by
    /\ \A x \in tally.lost : x.by # {x.id}

\* A rotation whose secret is shown, or will be, has its button on the screen.
Shown ==
    /\ \A c \in secrets : c.mounted
    /\ \A c \in calls \cup secrets : c.op = "rotate" /\ c.mounted => HasButton(c.row, "rotate")

\* No row's status comes back.
Precedes(a, b) == a = b \/ a = "absent" \/ b = "gone" \/ (a = "live" /\ b # "absent")
Older(rows, later) == \A r \in Rows : Precedes(rows[r], later[r])
Ages ==
    /\ Older(list, server)
    /\ \A r \in Rows : server[r] # IF "change" \in DOMAIN L.buttons THEN "off" ELSE "changed"
    /\ refresh.at = "read" => Older(list, refresh.seen) /\ Older(refresh.seen, server)
    /\ \A l \in loads : l.at = "read" => Older(l.seen, server)

\* A row may differ from the server's while who changed it is still to say so, or never will.
Owes(c) == IF c.broken \/ c.ok = {} THEN {} ELSE c.ok \cup ({c.new} \ {None})
Excused(r) ==
    \/ r \in tally.untold
    \/ \E c \in calls : r \in Owes(c)
    \/ \E c \in secrets : r \in {c.row, c.new}
Agrees(rows) == \A r \in Rows : rows[r] # server[r] => Excused(r)
\* Or it is missing from the list, since a read that failed.
ListAgrees == \A r \in Rows : list[r] # server[r] => Excused(r) \/ Missing(r)

PageAgrees ==
    IF OnPage
    THEN /\ loads = {}
         /\ refresh.at = "none" => ListAgrees
         /\ refresh.at = "read" => Agrees(refresh.seen)
    ELSE refresh.at = "none" /\ ticked = {} /\ secrets = {}

\* The newest load is out, or it is the newest that has come.
LoadAgrees ==
    /\ tally.latest <= tally.loads /\ \A l \in loads : l.n <= tally.loads
    /\ Loaded =>
              /\ \A l, m \in loads : l.n = m.n => l = m
              /\ \/ \E l \in loads : l.n = tally.loads /\ (l.at = "read" => Agrees(l.seen))
                 \/ /\ \A l \in loads : l.n < tally.loads
                    /\ failed \/ (tally.latest = tally.loads /\ (tally.crossed \/ Agrees(list)))

\* A list that its own answers are worked into.
Uncrossed ==
    /\ loads = {} => ListAgrees
    /\ \A l \in loads : l.at = "read" => Agrees(l.seen)
    /\ loads # {} => list = Unread
EditAgrees ==
    Edited =>
        /\ ~tally.crossed => Uncrossed
        /\ \A c \in calls : c.ok # {} =>
              server[c.row] = Effect(c.op) \/ (server[c.row] = "gone" /\ c.row \in tally.untold)
        /\ \A c, d \in calls : c.op = "add" /\ d.op # "add" => d.row # c.new
        /\ \A l, m \in loads : l = m
        /\ L.rows = "given" => loads = {} /\ \A c \in calls : c.op = "add" => list[c.new] = "absent"

IInv == /\ Types /\ Chosen /\ Formed /\ Reserved /\ Ids /\ Shown
        /\ Ages /\ PageAgrees /\ LoadAgrees /\ EditAgrees

LEMMA LGood ==
  ASSUME Types
  PROVE  Good(L)
  BY TablesAssumption, AllGood DEF Types, L

LEMMA Precedence ==
  /\ \A a, b, c \in Status : Precedes(a, b) /\ Precedes(b, c) => Precedes(a, c)
  /\ \A a, b \in Status : Precedes(a, b) /\ Precedes(b, a) => a = b
  BY DEF Precedes, Status, There

LEMMA InitIInv == Init => IInv
<1> SUFFICES ASSUME Init PROVE IInv
  OBVIOUS
<1> USE DEF Init
<1>1. server \in [Rows -> Status] /\ list \in [Rows -> Status] /\ list \in {server, Unread} /\ failed \in BOOLEAN
  BY DEF Unread, Status, There, Rows
<1>2. CASE L.rows = "fetched"
  <2>1. loads = {[n |-> 1, at |-> "sent", seen |-> Unread]} /\ list = Unread
    BY <1>2
  <2>2. Cardinality(loads) = 1
    BY <2>1, FS_Singleton
  <2>3. tally = [sent |-> 0, others |-> 0, loads |-> 1, latest |-> 0, crossed |-> FALSE,
                 viewed |-> {}, unviewed |-> {}, untold |-> {}, lost |-> {}]
    BY <2>2
  <2>4. Unread \in [Rows -> Status] /\ loads \subseteq LoadType
    BY <2>1 DEF Unread, Status, LoadType
  <2>5. Types
    BY <1>1, <2>3, <2>4 DEF Types, Quiet, TallyType
  <2>6. Chosen /\ Formed /\ Reserved /\ Shown
    BY <2>3 DEF Chosen, Formed, Reserved, Shown
  <2>7. Ids
    BY <2>3 DEF Ids, Quiet
  <2>8. Ages
    BY <1>1, <2>1 DEF Ages, Older, Precedes, Quiet, Unread
  <2>9. PageAgrees
    BY <1>2 DEF PageAgrees, OnPage, Quiet
  <2>10. EditAgrees
    <3> DEFINE first == [n |-> 1, at |-> "sent", seen |-> Unread]
    <3>1. loads # {} /\ \A l \in loads : l.at # "read"
      <4>1. loads = {first} /\ first.at = "sent"
        BY <2>1
      <4> HIDE DEF first, Init
      <4> QED BY <4>1
    <3>2. Uncrossed
      BY <2>1, <3>1 DEF Uncrossed
    <3>3. \A l, m \in loads : l = m
      BY <2>1
    <3> QED BY <1>2, <3>2, <3>3 DEF EditAgrees
  <2>11. LoadAgrees
    <3> DEFINE first == [n |-> 1, at |-> "sent", seen |-> Unread]
    <3>1. loads = {first} /\ first.n = 1 /\ first.at = "sent" /\ tally.loads = 1 /\ tally.latest = 0
      BY <2>1, <2>3
    <3> HIDE DEF first, Init
    <3> QED BY <3>1 DEF LoadAgrees
  <2> QED BY <2>5, <2>6, <2>7, <2>8, <2>9, <2>10, <2>11 DEF IInv
<1>3. CASE L.rows # "fetched"
  <2>1. loads = {} /\ list = (IF failed THEN Unread ELSE server)
    BY <1>3
  <2>2. Cardinality(loads) = 0
    BY <2>1, FS_EmptySet
  <2>3. tally = [sent |-> 0, others |-> 0, loads |-> 0, latest |-> 0, crossed |-> FALSE,
                 viewed |-> {}, unviewed |-> {}, untold |-> {}, lost |-> {}]
    BY <2>2
  <2>4. Unread \in [Rows -> Status]
    BY DEF Unread, Status
  <2>5. Types
    BY <1>1, <2>1, <2>3, <2>4 DEF Types, Quiet, TallyType
  <2>6. Chosen /\ Formed /\ Reserved /\ Shown
    BY <2>3 DEF Chosen, Formed, Reserved, Shown
  <2>7. Ids
    BY <2>3 DEF Ids, Quiet
  <2>8. Ages
    BY <1>1, <2>1 DEF Ages, Older, Precedes, Quiet, Unread
  <2>9. ListAgrees
    BY <2>1 DEF ListAgrees, Missing, Unread
  <2>10. PageAgrees /\ LoadAgrees /\ EditAgrees
    BY <1>3, <2>1, <2>3, <2>9 DEF PageAgrees, LoadAgrees, EditAgrees, OnPage, Loaded, Edited, Quiet, Uncrossed
  <2> QED BY <2>5, <2>6, <2>7, <2>8, <2>10 DEF IInv
<1> QED BY <1>2, <1>3

(***************************************************************************)
(* Steps that leave what is shown and what is on its way as they are: a    *)
(* row that the server changes is excused from then on.                    *)
(***************************************************************************)
Keeps == \A r \in Rows : Excused(r) => Excused(r)'

Onward ==
    /\ server' \in [Rows -> Status]
    /\ Older(server, server')
    /\ \A r \in Rows : server'[r] # IF "change" \in DOMAIN L.buttons THEN "off" ELSE "changed"
    /\ \A r \in Rows : server'[r] = server[r] \/ Excused(r)'

LEMMA StillOnward ==
  ASSUME IInv, UNCHANGED server
  PROVE  Onward
  BY DEF IInv, Types, Ages, Onward, Older, Precedes

LEMMA AgreesOnward ==
  ASSUME Keeps, Onward, NEW rows, Agrees(rows)
  PROVE  \A r \in Rows : rows[r] # server'[r] => Excused(r)'
  BY DEF Keeps, Onward, Agrees

LEMMA OlderOnward ==
  ASSUME Types, Onward, NEW rows \in [Rows -> Status], Older(rows, server)
  PROVE  Older(rows, server')
  BY Precedence DEF Onward, Older, Types

LEMMA Carried ==
  ASSUME IInv, Onward, Keeps, UNCHANGED <<kind, list, failed, loads, refresh>>,
         tally'.loads = tally.loads, tally'.latest = tally.latest, tally'.crossed = tally.crossed,
         ~OnPage => ticked' = {} /\ secrets' = {}
  PROVE  /\ Ages' /\ PageAgrees' /\ LoadAgrees'
         /\ Edited /\ ~tally'.crossed => Uncrossed'
<1> USE DEF IInv
<1>1. L' = L /\ OnPage' = OnPage /\ Loaded' = Loaded /\ Edited' = Edited
  BY DEF L, OnPage, Loaded, Edited
<1>2. refresh.seen \in [Rows -> Status] /\ list \in [Rows -> Status] /\ \A l \in loads : l.seen \in [Rows -> Status]
  BY DEF Types, LoadType
<1>3. Ages'
  <2>1. Older(list, server')
    BY <1>2, OlderOnward DEF Ages
  <2>2. refresh.at = "read" => Older(refresh.seen, server')
    BY <1>2, OlderOnward DEF Ages
  <2>3. ASSUME NEW l \in loads, l.at = "read" PROVE Older(l.seen, server')
    BY <1>2, <2>3, OlderOnward DEF Ages
  <2> QED BY <1>1, <2>1, <2>2, <2>3 DEF Ages, Onward
<1>4. ASSUME NEW rows, Agrees(rows) PROVE \A r \in Rows : rows[r] # server'[r] => Excused(r)'
  BY <1>4, AgreesOnward
<1>0. ASSUME ListAgrees PROVE ListAgrees'
  <2>1. ASSUME NEW r \in Rows, list[r] # server'[r] PROVE Excused(r)' \/ Missing(r)'
    BY <1>0, <1>1, <2>1 DEF Keeps, Onward, ListAgrees, Missing
  <2> QED BY <1>1, <2>1 DEF ListAgrees
<1>5. PageAgrees'
  <2>1. CASE OnPage
    <3>1. refresh.at = "none" => ListAgrees'
      BY <1>0, <2>1 DEF PageAgrees
    <3>2. refresh.at = "read" => \A r \in Rows : refresh.seen[r] # server'[r] => Excused(r)'
      BY <1>4, <2>1 DEF PageAgrees
    <3> QED BY <1>1, <2>1, <3>1, <3>2 DEF PageAgrees, Agrees
  <2>2. CASE ~OnPage
    BY <1>1, <2>2 DEF PageAgrees
  <2> QED BY <2>1, <2>2
<1>6. LoadAgrees'
  <2>1. SUFFICES ASSUME Loaded PROVE LoadAgrees'
    BY <1>1 DEF LoadAgrees
  <2>2. CASE \E l \in loads : l.n = tally.loads /\ (l.at = "read" => Agrees(l.seen))
    <3>1. PICK l \in loads : l.n = tally.loads /\ (l.at = "read" => Agrees(l.seen))
      BY <2>2
    <3>2. l.at = "read" => \A r \in Rows : l.seen[r] # server'[r] => Excused(r)'
      BY <1>4, <3>1
    <3>3. l.at = "read" => Agrees(l.seen)'
      BY <3>2 DEF Agrees
    <3> QED BY <1>1, <2>1, <3>1, <3>3 DEF LoadAgrees
  <2>3. CASE /\ \A l \in loads : l.n < tally.loads
             /\ failed \/ (tally.latest = tally.loads /\ (tally.crossed \/ Agrees(list)))
    <3>1. failed \/ tally.crossed \/ Agrees(list)'
      BY <1>4, <2>3 DEF Agrees
    <3> QED BY <1>1, <2>1, <2>3, <3>1 DEF LoadAgrees
  <2> QED BY <2>1, <2>2, <2>3 DEF LoadAgrees
<1>7. ASSUME Edited, ~tally'.crossed PROVE Uncrossed'
  <2>1. Uncrossed
    BY <1>7 DEF EditAgrees
  <2>2. loads = {} => ListAgrees'
    BY <1>0, <2>1 DEF Uncrossed
  <2>3. ASSUME NEW l \in loads, l.at = "read" PROVE Agrees(l.seen)'
    BY <1>4, <2>1, <2>3 DEF Uncrossed, Agrees
  <2> QED BY <2>1, <2>2, <2>3 DEF Uncrossed, Unread
<1> QED BY <1>3, <1>5, <1>6, <1>7

(***************************************************************************)
(* The operator ticks rows, and sends requests.                            *)
(***************************************************************************)
Ticked(v) ==
    /\ tally' = [tally EXCEPT !.viewed = v] /\ ticked' \subseteq v
    /\ \A r \in ticked' : r \in ticked \/ r \in Visible

LEMMA TickSteps ==
  ASSUME IInv, ToggleSelectAll \/ \E r \in Rows : ToggleSelect(r)
  PROVE  IInv'
<1> USE DEF IInv
<1>1. \E v \in SUBSET Rows : Ticked(v)
  <2>1. CASE ToggleSelectAll
    <3>1. ticked' \in {{}, Visible} /\ tally' = [tally EXCEPT !.viewed = (tally.viewed \cup Visible) \cap ticked']
      BY <2>1 DEF ToggleSelectAll, AllToggled
    <3> DEFINE v == (tally.viewed \cup Visible) \cap ticked'
    <3>2. v \in SUBSET Rows /\ ticked' \subseteq v
      BY <3>1 DEF Types, TallyType, Visible
    <3>3. \A r \in ticked' : r \in ticked \/ r \in Visible
      BY <3>1
    <3>4. Ticked(v)
      BY <3>1, <3>2, <3>3 DEF Ticked
    <3> QED BY <3>2, <3>4
  <2>2. ASSUME NEW r \in Rows, ToggleSelect(r) PROVE \E v \in SUBSET Rows : Ticked(v)
    <3> DEFINE v == (tally.viewed \cup {r}) \cap ticked'
    <3>1. ticked' \in {ticked \ {r}, ticked \cup {r}} /\ r \in Visible /\ tally' = [tally EXCEPT !.viewed = v]
      BY <2>2 DEF ToggleSelect
    <3>2. ticked' \subseteq v /\ v \in SUBSET Rows
      BY <3>1 DEF Chosen, Types, TallyType
    <3>3. Ticked(v)
      BY <3>1, <3>2 DEF Ticked
    <3> QED BY <3>2, <3>3
  <2> QED BY <2>1, <2>2
<1>2. PICK v \in SUBSET Rows : Ticked(v)
  BY <1>1
<1>3. UNCHANGED <<kind, server, list, failed, matching, slot, secrets, calls, loads, refresh>> /\ L.ticks # {}
  BY DEF ToggleSelectAll, ToggleSelect, Toolbar
<1>4. L' = L /\ OnPage
  BY <1>3, LGood DEF L, Good, OnPage
<1>5. tally' \in TallyType /\ tally'.viewed = v /\ tally'.unviewed = tally.unviewed /\ tally'.untold = tally.untold
      /\ tally'.sent = tally.sent /\ tally'.loads = tally.loads /\ tally'.latest = tally.latest
      /\ tally'.crossed = tally.crossed /\ tally'.lost = tally.lost
  BY <1>2 DEF Ticked, Types, TallyType
<1>6. Types'
  BY <1>2, <1>3, <1>5 DEF Types, Ticked
<1>7. Chosen'
  BY <1>2, <1>3, <1>5 DEF Chosen, Ticked
<1>8. Formed' /\ Shown'
  BY <1>3, <1>4 DEF Formed, WellFormed, Shown, HasButton, ButtonIn
<1>9. Reserved'
  <2>1. \A r \in ticked' : server[r] # "absent"
    BY <1>2 DEF Ticked, Visible, Reserved, Ages, Older, Precedes, There, Types
  <2> QED BY <1>3, <2>1 DEF Reserved, Concerns
<1>10. Ids'
  BY <1>3, <1>5 DEF Ids
<1>11. Keeps
  BY <1>3, <1>5 DEF Keeps, Excused, Owes
<1>12. Ages' /\ PageAgrees' /\ LoadAgrees'
  BY <1>3, <1>4, <1>5, <1>11, StillOnward, Carried
<1>13. EditAgrees'
  BY <1>3, <1>4 DEF EditAgrees, OnPage, Edited
<1> QED BY <1>6, <1>7, <1>8, <1>9, <1>10, <1>12, <1>13

\* A request k that is sent.
Sends(k) ==
    /\ k \in CallType /\ k.id = tally.sent + 1 /\ WellFormed(k)
    /\ k.ok = {} /\ ~k.broken /\ k.unviewed = {}
    /\ k.new # None => server[k.new] = "absent" /\ \A c \in calls : c.new # k.new
    /\ k.op # "add" => \A r \in Rows : Concerns(k, r) => server[r] # "absent"
    /\ Edited => \A c \in calls : c.op = "add" /\ k.op # "add" => k.row # c.new
    /\ k.op = "rotate" => HasButton(k.row, "rotate")
    /\ calls' = calls \cup {k}
    /\ slot' \in Rows \cup {None}
    /\ tally' = [tally EXCEPT !.sent = @ + 1]
    /\ UNCHANGED <<kind, server, list, failed, matching, ticked, secrets, loads, refresh>>

LEMMA SendStep ==
  ASSUME IInv, NEW k, Sends(k)
  PROVE  IInv'
<1> USE DEF IInv, Sends
<1>1. L' = L
  BY DEF L
<1>2. /\ tally' \in TallyType /\ tally'.viewed = tally.viewed /\ tally'.unviewed = tally.unviewed
      /\ tally'.untold = tally.untold /\ tally'.sent = tally.sent + 1 /\ tally'.loads = tally.loads
      /\ tally'.latest = tally.latest /\ tally'.crossed = tally.crossed /\ tally'.lost = tally.lost
      /\ tally.sent \in Nat
  BY DEF Types, TallyType
<1>3. Types'
  BY <1>2 DEF Types
<1>4. Chosen'
  BY <1>2 DEF Chosen
<1>5. Formed' /\ Shown'
  BY <1>1 DEF Formed, WellFormed, Shown, HasButton, ButtonIn
<1>6. Reserved'
  BY DEF Reserved, Concerns
<1>7. Ids'
  <2>1. \A c \in calls \cup secrets : c.id \in 1..tally.sent' /\ c.id # k.id
    BY <1>2 DEF Ids
  <2>2. refresh.by \subseteq 0..tally.sent' /\ k.id \notin refresh.by /\ k.id \in 1..tally.sent'
    BY <1>2 DEF Ids
  <2> QED BY <1>2, <2>1, <2>2 DEF Ids
<1>8. Keeps
  BY <1>2 DEF Keeps, Excused, Owes
<1>9. Ages' /\ PageAgrees' /\ LoadAgrees' /\ (Edited /\ ~tally'.crossed => Uncrossed')
  <2>1. ~OnPage => ticked' = {} /\ secrets' = {}
    BY DEF PageAgrees
  <2> QED BY <1>2, <1>8, <2>1, StillOnward, Carried
<1>10. EditAgrees'
  <2> SUFFICES ASSUME Edited PROVE EditAgrees'
    BY <1>1 DEF EditAgrees, Edited
  <2>1. \A c \in calls' : c.ok # {} =>
              server'[c.row] = Effect(c.op) \/ (server'[c.row] = "gone" /\ c.row \in tally'.untold)
    BY <1>2 DEF EditAgrees
  <2>2. ASSUME NEW d \in calls, d.op # "add", k.op = "add" PROVE d.row # k.new
    <3>1. d.row \in Rows => server[d.row] # "absent"
      BY <2>2 DEF Reserved, Concerns
    <3>2. k.new \in Rows /\ server[k.new] = "absent"
      BY <2>2, TablesAssumption DEF WellFormed, Adding
    <3> QED BY <3>1, <3>2
  <2>3. \A c, d \in calls' : c.op = "add" /\ d.op # "add" => d.row # c.new
    BY <2>2 DEF EditAgrees
  <2>4. k.op = "add" => list[k.new] = "absent"
    <3>1. SUFFICES ASSUME k.op = "add" PROVE list[k.new] = "absent"
      OBVIOUS
    <3>2. k.new \in Rows /\ server[k.new] = "absent" /\ Precedes(list[k.new], server[k.new])
      BY <3>1, TablesAssumption DEF WellFormed, Adding, Ages, Older
    <3> QED BY <3>2 DEF Precedes
  <2>5. L.rows = "given" => loads' = {} /\ \A c \in calls' : c.op = "add" => list'[c.new] = "absent"
    BY <2>4 DEF EditAgrees
  <2> QED BY <1>1, <1>2, <1>9, <2>1, <2>3, <2>5 DEF EditAgrees
<1> QED BY <1>3, <1>4, <1>5, <1>6, <1>7, <1>9, <1>10

LEMMA CallIs ==
  ASSUME NEW op, NEW r, NEW new
  PROVE  Call(op, {r}, new, FALSE) =
            [id |-> tally.sent + 1, op |-> op, row |-> r, todo |-> {r}, new |-> new, bulk |-> FALSE,
             mounted |-> TRUE, ok |-> {}, broken |-> FALSE, unviewed |-> {}]
<1>1. (CHOOSE x \in {r} : TRUE) = r
  OBVIOUS
<1> QED BY <1>1 DEF Call

LEMMA PressStep ==
  ASSUME IInv, NEW r \in Rows, NEW op, Press(r, op)
  PROVE  IInv'
<1> USE DEF IInv
<1>1. PICK new \in New(op) : Send(op, {r}, new, FALSE)
  BY DEF Press
<1> DEFINE k == Call(op, {r}, new, FALSE)
<1>2. k = [id |-> tally.sent + 1, op |-> op, row |-> r, todo |-> {r}, new |-> new, bulk |-> FALSE,
           mounted |-> TRUE, ok |-> {}, broken |-> FALSE, unviewed |-> {}]
  BY CallIs
<1>3. calls' = calls \cup {k}
  BY <1>1 DEF Send
<1> HIDE DEF k
<1>4. Good(L) /\ op \in DOMAIN L.buttons \ {"add"} /\ op \in OpNames /\ list[r] \in There
  BY LGood DEF Press, HasButton, ButtonIn, Good
<1>5. IF op \in Adding THEN new \in Unused ELSE new = None
  BY <1>1, <1>4 DEF New, Adding, OpNames, Good
<1>6. new \in Rows \cup {None} /\ (new # None => server[new] = "absent" /\ \A c \in calls : c.new # new)
  BY <1>5 DEF Unused, Rows
<1>7. server[r] # "absent"
  BY <1>4 DEF Ages, Older, Precedes, There
<1>8. k \in CallType /\ k.id = tally.sent + 1 /\ k.ok = {} /\ ~k.broken /\ k.unviewed = {}
  BY <1>2, <1>4, <1>6 DEF CallType, Types, TallyType
<1>9. WellFormed(k)
  BY <1>2, <1>4, <1>5 DEF WellFormed, Unused, Rows
<1>10. \A s \in Rows : Concerns(k, s) => server[s] # "absent"
  BY <1>2, <1>7 DEF Concerns
<1>11. ASSUME Edited, NEW c \in calls, c.op = "add" PROVE r # c.new
  <2>1. CASE L.rows = "given"
    <3>1. list[c.new] = "absent"
      BY <1>11, <2>1 DEF EditAgrees
    <3> QED BY <1>4, <3>1 DEF There
  <2>2. CASE L.rows = "fetched" /\ "change" \notin DOMAIN L.buttons
    <3>1. "add" \in DOMAIN L.buttons
      BY <1>11 DEF Formed, WellFormed
    <3>2. op = "delete"
      BY <1>4, <2>2, <3>1 DEF Good, OpNames
    <3>3. L.buttons[op].disabledBy = "any"
      BY <1>4, <2>2, <3>2 DEF Good
    <3> QED BY <1>11, <3>3 DEF Press, Busy
  <2> QED BY <1>11, <2>1, <2>2 DEF Edited
<1>12. HasButton(r, op) /\ slot' \in Rows \cup {None}
  BY DEF Press, Types
<1>13. Sends(k)
  BY <1>2, <1>3, <1>6, <1>8, <1>9, <1>10, <1>11, <1>12 DEF Sends, Press
<1> QED BY <1>13, SendStep

LEMMA AddStep ==
  ASSUME IInv, Add
  PROVE  IInv'
<1> USE DEF IInv
<1>1. PICK new \in Unused : Send("add", {new}, new, FALSE)
  BY DEF Add
<1> DEFINE k == Call("add", {new}, new, FALSE)
<1>2. k = [id |-> tally.sent + 1, op |-> "add", row |-> new, todo |-> {new}, new |-> new, bulk |-> FALSE,
           mounted |-> TRUE, ok |-> {}, broken |-> FALSE, unviewed |-> {}]
  BY CallIs
<1>3. calls' = calls \cup {k}
  BY <1>1 DEF Send
<1> HIDE DEF k
<1>4. "add" \in DOMAIN L.buttons /\ new \in Rows /\ server[new] = "absent" /\ \A c \in calls : c.new # new
  BY <1>1 DEF Add, Unused, Rows
<1>5. k \in CallType /\ k.id = tally.sent + 1 /\ k.ok = {} /\ ~k.broken /\ k.unviewed = {}
  BY <1>2, <1>4 DEF CallType, Types, TallyType, OpNames
<1>6. WellFormed(k)
  BY <1>2, <1>4 DEF WellFormed, Adding
<1>7. Sends(k)
  BY <1>2, <1>3, <1>4, <1>5, <1>6 DEF Sends, Add, browser, Types
<1> QED BY <1>7, SendStep

LEMMA BulkStep ==
  ASSUME IInv, NEW op, HandleBulk(op)
  PROVE  IInv'
<1> USE DEF IInv
<1> DEFINE k == Call(op, ticked, None, TRUE)
<1>1. k = [id |-> tally.sent + 1, op |-> op, row |-> None, todo |-> ticked, new |-> None, bulk |-> TRUE,
           mounted |-> TRUE, ok |-> {}, broken |-> FALSE, unviewed |-> ticked \ tally.viewed]
  BY DEF Call
<1>2. calls' = calls \cup {k}
  BY DEF HandleBulk, Send
<1> HIDE DEF k
<1>3. op \in DOMAIN L.buttons /\ op \in {"delete", "revoke"} /\ op \in L.ticks /\ L.rows = "page"
  BY LGood DEF HandleBulk, Good
<1>4. k \in CallType /\ k.id = tally.sent + 1 /\ k.ok = {} /\ ~k.broken /\ k.unviewed = {}
  BY <1>1, <1>3 DEF CallType, Types, TallyType, OpNames, Chosen
<1>5. WellFormed(k)
  BY <1>1, <1>3 DEF WellFormed, Adding
<1>6. \A s \in Rows : Concerns(k, s) => server[s] # "absent"
  BY <1>1, TablesAssumption DEF Concerns, Reserved
<1>7. Sends(k)
  BY <1>1, <1>2, <1>3, <1>4, <1>5, <1>6 DEF Sends, HandleBulk, browser, Edited, Types
<1> QED BY <1>7, SendStep

(***************************************************************************)
(* Steps in which requests only go on or go: the half of the invariant     *)
(* that is about requests is kept.                                         *)
(***************************************************************************)
Same(c, d) ==
    /\ d \in CallType
    /\ d.id = c.id /\ d.op = c.op /\ d.row = c.row /\ d.new = c.new /\ d.bulk = c.bulk /\ d.unviewed = c.unviewed
    /\ d.mounted => c.mounted
    /\ d.todo \subseteq c.todo /\ d.ok \subseteq c.ok \cup c.todo /\ d.ok \cap d.todo = {}

Descends ==
    /\ \A d \in calls' : \E c \in calls : Same(c, d)
    /\ \A c, d \in calls' : c.id = d.id => c = d

\* No refresh is asked for by a rotation before its secret is put away.
Patient ==
    /\ refresh'.by \subseteq 0..tally.sent
    /\ \A c \in calls' \cup secrets' : c.op = "rotate" => c.id \notin refresh'.by
    /\ \A x \in tally'.lost : x.by # {x.id}
    /\ \A c \in secrets' : \/ c \in secrets
                           \/ c \in calls /\ c.op = "rotate" /\ c.mounted /\ (\A d \in calls' : d.id # c.id)

\* A list whose tokens are rotated comes with the page, and says itself whose button is gone.
Showing ==
    \/ ~OnPage \/ UNCHANGED <<list, matching>>
    \/ \A c \in calls' \cup secrets' :
            c.op = "rotate" /\ c.mounted => ButtonIn(list', matching', c.row, "rotate")

LEMMA Requests ==
  ASSUME IInv, Descends, Patient, Showing, Onward, UNCHANGED kind, slot' \in Rows \cup {None},
         list' \in [Rows -> Status], failed' \in BOOLEAN, matching' \subseteq Rows, loads' \subseteq LoadType,
         refresh' \in [at : {"none", "asked", "read"}, by : SUBSET Nat, seen : [Rows -> Status]],
         tally' \in TallyType, tally'.sent = tally.sent, tally'.unviewed = {},
         ticked' \subseteq ticked \cap tally'.viewed,
         \A c \in calls' : c.todo # {} /\ c.new # None => server'[c.new] = "absent"
  PROVE  Types' /\ Chosen' /\ Formed' /\ Reserved' /\ Ids' /\ Shown'
<1> USE DEF IInv
<1>1. L' = L
  BY DEF L
<1>2. calls' \subseteq CallType /\ secrets' \subseteq CallType
  BY DEF Descends, Patient, Same, Types
<1>3. Types'
  BY <1>2 DEF Types, Onward
<1>4. Chosen'
  BY DEF Chosen, Descends, Same
<1>5. \A d \in calls' : WellFormed(d)
  <2> SUFFICES ASSUME NEW d \in calls' PROVE WellFormed(d)
    OBVIOUS
  <2>1. PICK c \in calls : Same(c, d)
    BY DEF Descends
  <2>2. WellFormed(c)
    BY DEF Formed
  <2> QED BY <2>1, <2>2 DEF WellFormed, Same
<1>6. \A c \in secrets' : c.op = "rotate" /\ WellFormed(c)
  BY DEF Formed, Patient
<1>7. Formed'
  BY <1>1, <1>5, <1>6 DEF Formed, WellFormed
<1>8. Reserved'
  <2>1. \A r \in Rows : server[r] # "absent" => server'[r] # "absent"
    BY DEF Onward, Older, Precedes
  <2>2. ASSUME NEW d \in calls', d.op # "add", NEW r \in Rows, Concerns(d, r) PROVE server'[r] # "absent"
    <3>1. PICK c \in calls : Same(c, d)
      BY DEF Descends
    <3>2. Concerns(c, r) /\ c.op # "add"
      BY <2>2, <3>1 DEF Concerns, Same
    <3> QED BY <2>1, <3>2 DEF Reserved
  <2>3. ASSUME NEW c \in calls', NEW d \in calls', c.new = d.new, c.new # None PROVE c = d
    <3>1. PICK a \in calls : Same(a, c)
      BY DEF Descends
    <3>2. PICK b \in calls : Same(b, d)
      BY DEF Descends
    <3>3. a.new = b.new /\ a.new # None
      BY <2>3, <3>1, <3>2 DEF Same
    <3>4. a = b
      BY <3>3 DEF Reserved
    <3> QED BY <3>1, <3>2, <3>4 DEF Descends, Same
  <2>4. \A r \in ticked' : server'[r] # "absent"
    BY <2>1 DEF Reserved, Types
  <2> QED BY <2>2, <2>3, <2>4 DEF Reserved, Concerns
<1>9. Ids'
  <2>1. \A d \in calls' : \E c \in calls : d.id = c.id
    BY DEF Descends, Same
  <2>2. \A c \in calls' \cup secrets' : c.id \in 1..tally'.sent
    BY <2>1 DEF Ids, Patient
  <2>3. \A c \in calls', d \in secrets' : c.id # d.id
    BY <2>1 DEF Ids, Patient
  <2>4. \A c, d \in secrets' : c.id = d.id => c = d
    BY DEF Ids, Patient
  <2>5. \A c \in secrets' : c.op = "rotate"
    BY <1>6
  <2> QED BY <2>2, <2>3, <2>4, <2>5 DEF Ids, Patient, Descends
<1>10. Shown'
  <2>1. \A c \in secrets' : c.mounted
    BY DEF Shown, Patient
  <2>2. ASSUME NEW d \in calls' \cup secrets', d.op = "rotate", d.mounted
        PROVE  ButtonIn(list', matching', d.row, "rotate")
    <3>1. \E c \in calls \cup secrets : c.op = d.op /\ c.row = d.row /\ c.mounted
      BY <2>2 DEF Descends, Same, Patient, Shown
    <3>2. OnPage
      BY <3>1, <2>2, LGood DEF Formed, WellFormed, Good, OnPage
    <3>3. HasButton(d.row, "rotate")
      BY <2>2, <3>1 DEF Shown
    <3> QED BY <2>2, <3>2, <3>3 DEF Showing, HasButton
  <2> QED BY <1>1, <2>1, <2>2 DEF Shown, HasButton, ButtonIn
<1> QED BY <1>3, <1>4, <1>7, <1>8, <1>9, <1>10

\* Steps at the server, and of connections that break.
LEMMA ServerStep ==
  ASSUME IInv, Descends, Onward, Keeps,
         UNCHANGED <<kind, list, failed, matching, ticked, secrets, loads, refresh>>,
         slot' \in Rows \cup {None}, tally' \in TallyType,
         tally'.sent = tally.sent, tally'.viewed = tally.viewed, tally'.unviewed = {}, tally'.lost = tally.lost,
         tally'.loads = tally.loads, tally'.latest = tally.latest, tally'.crossed = tally.crossed,
         \A c \in calls' : c.todo # {} /\ c.new # None => server'[c.new] = "absent",
         Edited => \A c \in calls' : c.ok # {} =>
              server'[c.row] = Effect(c.op) \/ (server'[c.row] = "gone" /\ c.row \in tally'.untold)
  PROVE  IInv'
<1> USE DEF IInv
<1>1. L' = L /\ (Edited' <=> Edited)
  BY DEF L, Edited
<1>2. Patient
  <2>1. ASSUME NEW d \in calls', d.op = "rotate" PROVE d.id \notin refresh.by
    <3>1. PICK c \in calls : Same(c, d)
      BY DEF Descends
    <3> QED BY <2>1, <3>1 DEF Same, Ids
  <2> QED BY <2>1 DEF Patient, Ids
<1>3. Types' /\ Chosen' /\ Formed' /\ Reserved' /\ Ids' /\ Shown'
  BY <1>2, Requests DEF Types, Chosen, Showing
<1>4. ~OnPage => ticked' = {} /\ secrets' = {}
  BY DEF PageAgrees
<1>5. Ages' /\ PageAgrees' /\ LoadAgrees' /\ (Edited /\ ~tally'.crossed => Uncrossed')
  BY <1>4, Carried
<1>6. EditAgrees'
  <2>1. \A c, d \in calls' : Edited /\ c.op = "add" /\ d.op # "add" => d.row # c.new
    <3> SUFFICES ASSUME NEW c \in calls', NEW d \in calls', Edited, c.op = "add", d.op # "add"
                 PROVE  d.row # c.new
      OBVIOUS
    <3>1. PICK a \in calls : Same(a, c)
      BY DEF Descends
    <3>2. PICK b \in calls : Same(b, d)
      BY DEF Descends
    <3> QED BY <3>1, <3>2 DEF Same, EditAgrees
  <2>2. L.rows = "given" => loads' = {} /\ \A c \in calls' : c.op = "add" => list'[c.new] = "absent"
    <3> SUFFICES ASSUME L.rows = "given", NEW d \in calls', d.op = "add" PROVE list[d.new] = "absent"
      BY DEF EditAgrees, Edited
    <3>1. PICK c \in calls : Same(c, d)
      BY DEF Descends
    <3> QED BY <3>1 DEF Same, EditAgrees, Edited
  <2> QED BY <1>1, <1>5, <2>1, <2>2 DEF EditAgrees
<1> QED BY <1>3, <1>5, <1>6

LEMMA MovedDescends ==
  ASSUME IInv, NEW c \in calls, NEW d, Same(c, d), calls' = Moved(c, d)
  PROVE  Descends
<1> USE DEF IInv
<1>1. \A e \in calls : Same(e, e)
  BY DEF Same, Formed, WellFormed, Types
<1>2. \A e \in calls' : e = d \/ (e \in calls /\ e # c)
  BY DEF Moved
<1>3. \A e \in calls' : \E b \in calls : Same(b, e)
  BY <1>1, <1>2
<1>4. \A e, f \in calls' : e.id = f.id => e = f
  BY <1>2 DEF Same, Ids
<1> QED BY <1>3, <1>4 DEF Descends

LEMMA RefuseStep ==
  ASSUME IInv, NEW c \in calls, NEW r, Refuse(c, r)
  PROVE  IInv'
<1> USE DEF IInv
<1> DEFINE d == [c EXCEPT !.todo = @ \ {r}]
<1>1. c \in CallType /\ c.ok \cap c.todo = {}
  BY DEF Types, Formed, WellFormed
<1>2. /\ d \in CallType /\ d.id = c.id /\ d.op = c.op /\ d.row = c.row /\ d.new = c.new /\ d.bulk = c.bulk
      /\ d.unviewed = c.unviewed /\ d.mounted = c.mounted /\ d.ok = c.ok /\ d.broken = c.broken /\ d.todo = c.todo \ {r}
  BY <1>1 DEF CallType
<1>3. calls' = Moved(c, d) /\ r \in c.todo
  BY DEF Refuse
<1> HIDE DEF d
<1>4. Same(c, d)
  BY <1>1, <1>2 DEF Same
<1>5. Descends
  BY <1>3, <1>4, MovedDescends
<1>6. UNCHANGED <<kind, server, list, failed, matching, ticked, secrets, loads, refresh, tally>>
  BY DEF Refuse, browser
<1>7. \A e \in calls' : e = d \/ (e \in calls /\ e # c)
  BY <1>3 DEF Moved
<1>8. Keeps
  <2>1. Owes(d) = Owes(c) /\ \A e \in calls : e = c \/ e \in calls'
    BY <1>2, <1>3 DEF Owes, Moved
  <2> QED BY <1>3, <1>6, <2>1 DEF Keeps, Excused, Moved
<1>9. \A e \in calls' : e.todo # {} /\ e.new # None => server'[e.new] = "absent"
  BY <1>2, <1>3, <1>6, <1>7 DEF Reserved
<1>10. Edited => \A e \in calls' : e.ok # {} =>
              server'[e.row] = Effect(e.op) \/ (server'[e.row] = "gone" /\ e.row \in tally'.untold)
  BY <1>2, <1>6, <1>7 DEF EditAgrees
<1>11. tally \in TallyType /\ tally.unviewed = {} /\ slot' \in Rows \cup {None}
  BY DEF Types, Chosen, Refuse, Forgotten, browser
<1> QED BY <1>5, <1>6, <1>8, <1>9, <1>10, <1>11, StillOnward, ServerStep

LEMMA BreakStep ==
  ASSUME IInv, NEW c \in calls, Break(c)
  PROVE  IInv'
<1> USE DEF IInv
<1> DEFINE d == [c EXCEPT !.broken = TRUE]
<1>1. c \in CallType /\ c.ok \cap c.todo = {}
  BY DEF Types, Formed, WellFormed
<1>2. /\ d \in CallType /\ d.id = c.id /\ d.op = c.op /\ d.row = c.row /\ d.new = c.new /\ d.bulk = c.bulk
      /\ d.unviewed = c.unviewed /\ d.mounted = c.mounted /\ d.ok = c.ok /\ d.broken /\ d.todo = c.todo
  BY <1>1 DEF CallType
<1>3. calls' = Moved(c, d)
  BY DEF Break
<1> HIDE DEF d
<1>4. Same(c, d)
  BY <1>1, <1>2 DEF Same
<1>5. Descends
  BY <1>3, <1>4, MovedDescends
<1>6. UNCHANGED <<kind, server, list, failed, matching, ticked, secrets, loads, refresh>>
  BY DEF Break
<1>7. /\ tally' \in TallyType /\ tally'.sent = tally.sent /\ tally'.viewed = tally.viewed
      /\ tally'.unviewed = tally.unviewed /\ tally'.lost = tally.lost /\ tally'.loads = tally.loads
      /\ tally'.latest = tally.latest /\ tally'.crossed = tally.crossed
      /\ tally'.untold = tally.untold \cup c.ok \cup ({c.new} \ {None})
  BY <1>1 DEF Break, Types, TallyType, CallType
<1>8. \A e \in calls' : e = d \/ (e \in calls /\ e # c)
  BY <1>3 DEF Moved
<1>9. Keeps
  <2>1. Owes(c) \subseteq tally'.untold
    BY <1>7 DEF Owes
  <2>2. \A e \in calls : e = c \/ e \in calls'
    BY <1>3 DEF Moved
  <2> QED BY <1>6, <1>7, <2>1, <2>2 DEF Keeps, Excused
<1>10. \A e \in calls' : e.todo # {} /\ e.new # None => server'[e.new] = "absent"
  BY <1>2, <1>6, <1>8 DEF Reserved
<1>11. Edited => \A e \in calls' : e.ok # {} =>
              server'[e.row] = Effect(e.op) \/ (server'[e.row] = "gone" /\ e.row \in tally'.untold)
  BY <1>2, <1>6, <1>7, <1>8 DEF EditAgrees
<1>12. tally'.unviewed = {} /\ slot' \in Rows \cup {None}
  BY <1>7 DEF Chosen, Break, Types
<1> QED BY <1>5, <1>6, <1>7, <1>9, <1>10, <1>11, <1>12, StillOnward, ServerStep

LEMMA ForgottenStep ==
  ASSUME IInv, NEW c \in calls, Forgotten(c)
  PROVE  IInv'
<1> USE DEF IInv
<1>1. calls' = calls \ {c} /\ c.broken
  BY DEF Forgotten
<1>2. UNCHANGED <<kind, server, list, failed, matching, ticked, secrets, loads, refresh, tally>>
  BY DEF Forgotten, browser
<1>3. Descends
  BY <1>1 DEF Descends, Same, Formed, WellFormed, Types, Ids
<1>4. Keeps
  BY <1>1, <1>2 DEF Keeps, Excused, Owes
<1>5. \A e \in calls' : e.todo # {} /\ e.new # None => server'[e.new] = "absent"
  BY <1>1, <1>2 DEF Reserved
<1>6. Edited => \A e \in calls' : e.ok # {} =>
              server'[e.row] = Effect(e.op) \/ (server'[e.row] = "gone" /\ e.row \in tally'.untold)
  BY <1>1, <1>2 DEF EditAgrees
<1>7. tally \in TallyType /\ tally.unviewed = {} /\ slot' \in Rows \cup {None}
  BY DEF Types, Chosen, Refuse, Forgotten, browser
<1> QED BY <1>2, <1>3, <1>4, <1>5, <1>6, <1>7, StillOnward, ServerStep

LEMMA OtherWritesStep ==
  ASSUME IInv, NEW r \in Rows, OtherWrites(r)
  PROVE  IInv'
<1> USE DEF IInv
<1>1. server' = [server EXCEPT ![r] = "gone"] /\ server[r] \in There
  BY DEF OtherWrites
<1>2. UNCHANGED <<kind, list, failed, matching, ticked, secrets, calls, loads, refresh>>
  BY DEF OtherWrites, browser
<1>3. /\ tally' \in TallyType /\ tally'.sent = tally.sent /\ tally'.viewed = tally.viewed
      /\ tally'.unviewed = tally.unviewed /\ tally'.lost = tally.lost /\ tally'.loads = tally.loads
      /\ tally'.latest = tally.latest /\ tally'.crossed = tally.crossed
      /\ tally'.untold = tally.untold \cup {r}
  <2>1. tally' = [tally EXCEPT !.others = tally.others + 1, !.untold = tally.untold \cup {r}]
    BY DEF OtherWrites
  <2>2. tally.others + 1 \in Nat /\ tally.untold \cup {r} \in SUBSET Rows
    BY DEF Types, TallyType
  <2>3. tally \in TallyType
    BY DEF Types
  <2> HIDE DEF IInv
  <2> QED BY <2>1, <2>2, <2>3 DEF TallyType
<1>4. server' \in [Rows -> Status] /\ \A s \in Rows : server'[s] = IF s = r THEN "gone" ELSE server[s]
  BY <1>1 DEF Types, Status
<1>5. Onward
  BY <1>3, <1>4 DEF Onward, Older, Precedes, Excused, Ages
<1>6. Descends
  BY <1>2 DEF Descends, Same, Formed, WellFormed, Types, Ids
<1>7. Keeps
  BY <1>2, <1>3 DEF Keeps, Excused, Owes
<1>8. ASSUME NEW e \in calls, e.todo # {}, e.new # None PROVE server'[e.new] = "absent"
  BY <1>1, <1>4, <1>8 DEF Reserved, There, Types, CallType
<1>9. ASSUME Edited, NEW e \in calls, e.ok # {}
      PROVE  server'[e.row] = Effect(e.op) \/ (server'[e.row] = "gone" /\ e.row \in tally'.untold)
  <2>1. ~e.bulk /\ e.row \in Rows
    BY <1>9, LGood DEF Formed, WellFormed, Good, Edited
  <2> QED BY <1>3, <1>4, <1>9, <2>1 DEF EditAgrees
<1>10. tally'.unviewed = {} /\ slot' \in Rows \cup {None}
  BY <1>3 DEF Chosen, OtherWrites, browser, Types
<1> QED BY <1>2, <1>3, <1>5, <1>6, <1>7, <1>8, <1>9, <1>10, ServerStep

LEMMA EffectOf ==
  /\ \A op \in OpNames : Effect(op) \in Status \ {"absent"}
  /\ Effect("delete") = "gone" /\ Effect("revoke") = "off" /\ Effect("rotate") = "off"
  /\ Effect("change") = "changed" /\ Effect("add") = "live" /\ Effect("duplicate") = "live"
  BY DEF Effect, Status, There, OpNames

\* A row that is served moves onward, and so does the row put aside for the request.
LEMMA ServedOnward ==
  ASSUME IInv, NEW c \in calls, NEW r, Serve(c, r)
  PROVE  /\ server' \in [Rows -> Status] /\ Older(server, server') /\ r \in Rows /\ c.op \in OpNames
         /\ \A s \in Rows : server'[s] # IF "change" \in DOMAIN L.buttons THEN "off" ELSE "changed"
         /\ \A s \in Rows : server'[s] = server[s] \/ s = c.new \/ (s = r /\ server'[s] = Effect(c.op))
         /\ c.new # None => server[c.new] = "absent" /\ server'[c.new] = "live"
         /\ c.op \in {"add", "delete", "revoke"} => server'[r] = Effect(c.op)
<1> USE DEF IInv
<1>1. c \in CallType /\ WellFormed(c) /\ Good(L) /\ r \in c.todo /\ r \in Rows /\ c.op \in OpNames
  BY LGood DEF Types, CallType, Formed, Serve
<1>2. \A s \in Rows : server'[s] = IF s = c.new THEN "live"
                                   ELSE IF s = r /\ c.op # "duplicate" THEN Effect(c.op) ELSE server[s]
  BY DEF Serve, After
<1>3. server' \in [Rows -> Status]
  <2>1. server' = [s \in Rows |-> IF s = c.new THEN "live"
                                  ELSE IF s = r /\ c.op # "duplicate" THEN Effect(c.op) ELSE server[s]]
    BY DEF Serve, After
  <2>2. Effect(c.op) \in Status /\ "live" \in Status /\ server \in [Rows -> Status]
    BY <1>1, EffectOf DEF Status, There, Types
  <2> QED BY <2>1, <2>2
<1>4. c.new # None => server[c.new] = "absent" /\ c.new \in Rows
  BY <1>1 DEF Reserved, CallType
<1>5. c.op # "add" => server[r] \in There
  BY DEF Serve, Acceptable
<1>6. c.op = "add" => r = c.new
  BY <1>1, LGood DEF WellFormed, Good
<1>7. \A s \in Rows : server[s] # IF "change" \in DOMAIN L.buttons THEN "off" ELSE "changed"
  BY DEF Ages
<1>8. ASSUME r # c.new, c.op # "duplicate"
      PROVE  /\ Precedes(server[r], Effect(c.op))
             /\ Effect(c.op) # IF "change" \in DOMAIN L.buttons THEN "off" ELSE "changed"
  <2>1. c.op \in DOMAIN L.buttons /\ c.op \in {"change", "delete", "revoke", "rotate"} /\ server[r] \in There
    BY <1>1, <1>5, <1>6, <1>8 DEF OpNames, WellFormed
  <2>2. CASE c.op = "delete"
    BY <2>2, EffectOf DEF Precedes
  <2>3. CASE c.op \in {"revoke", "rotate"}
    <3>1. "change" \notin DOMAIN L.buttons /\ Effect(c.op) = "off"
      BY <1>1, <2>1, <2>3, EffectOf DEF Good
    <3>2. server[r] \in {"live", "off"}
      BY <1>1, <1>7, <2>1, <3>1 DEF There
    <3> QED BY <3>1, <3>2 DEF Precedes
  <2>4. CASE c.op = "change"
    <3>1. "change" \in DOMAIN L.buttons /\ Effect(c.op) = "changed"
      BY <2>1, <2>4, EffectOf
    <3>2. server[r] \in {"live", "changed"}
      BY <1>1, <1>7, <2>1, <3>1 DEF There
    <3> QED BY <3>1, <3>2 DEF Precedes
  <2> QED BY <2>1, <2>2, <2>3, <2>4
<1>9. Older(server, server')
  <2> SUFFICES ASSUME NEW s \in Rows PROVE Precedes(server[s], server'[s])
    BY DEF Older
  <2>1. CASE s = c.new
    BY <1>4, <2>1, TablesAssumption DEF Precedes
  <2>2. CASE s # c.new /\ s = r /\ c.op # "duplicate"
    <3>1. server'[s] = Effect(c.op)
      BY <1>2, <2>2
    <3> QED BY <1>8, <2>2, <3>1
  <2>3. CASE s # c.new /\ ~(s = r /\ c.op # "duplicate")
    <3>1. server'[s] = server[s]
      BY <1>2, <2>3
    <3> QED BY <3>1 DEF Precedes
  <2> QED BY <2>1, <2>2, <2>3
<1>10. \A s \in Rows : server'[s] # IF "change" \in DOMAIN L.buttons THEN "off" ELSE "changed"
  BY <1>2, <1>7, <1>8
<1>11. \A s \in Rows : server'[s] = server[s] \/ s = c.new \/ (s = r /\ server'[s] = Effect(c.op))
  BY <1>2
<1>12. c.op \in {"add", "delete", "revoke"} => server'[r] = Effect(c.op)
  <2>1. c.op \in {"delete", "revoke"} => c.new = None
    BY <1>1 DEF WellFormed, Adding
  <2> QED BY <1>1, <1>2, <1>6, <2>1, EffectOf, TablesAssumption
<1>13. c.new # None => server'[c.new] = "live"
  BY <1>2, <1>4
<1> QED BY <1>1, <1>3, <1>4, <1>9, <1>10, <1>11, <1>12, <1>13

LEMMA ServeStep ==
  ASSUME IInv, NEW c \in calls, NEW r, Serve(c, r)
  PROVE  IInv'
<1> USE DEF IInv
<1> DEFINE d == [c EXCEPT !.todo = @ \ {r}, !.ok = @ \cup {r}]
<1>1. c \in CallType /\ c.ok \cap c.todo = {} /\ WellFormed(c) /\ r \in c.todo /\ r \in Rows
  BY ServedOnward DEF Types, Formed, WellFormed, Serve
<1>2. /\ d \in CallType /\ d.id = c.id /\ d.op = c.op /\ d.row = c.row /\ d.new = c.new /\ d.bulk = c.bulk
      /\ d.unviewed = c.unviewed /\ d.mounted = c.mounted /\ d.ok = c.ok \cup {r} /\ d.broken = c.broken /\ d.todo = c.todo \ {r}
  BY <1>1 DEF CallType
<1>3. calls' = Moved(c, d)
  BY DEF Serve
<1> HIDE DEF d
<1>4. Same(c, d)
  BY <1>1, <1>2 DEF Same
<1>5. Descends
  BY <1>3, <1>4, MovedDescends
<1>6. UNCHANGED <<kind, list, failed, matching, ticked, secrets, loads, refresh>>
  BY DEF Serve, browser
<1>7. /\ tally' \in TallyType /\ tally'.sent = tally.sent /\ tally'.viewed = tally.viewed
      /\ tally'.unviewed = {} /\ tally'.lost = tally.lost /\ tally'.loads = tally.loads
      /\ tally'.latest = tally.latest /\ tally'.crossed = tally.crossed
      /\ tally'.untold = IF c.broken THEN tally.untold \cup ({r, c.new} \ {None}) ELSE tally.untold
  <2> DEFINE u == IF c.broken THEN tally.untold \cup ({r, c.new} \ {None}) ELSE tally.untold
  <2>1. c.unviewed = {} /\ tally.unviewed = {} /\ tally \in TallyType
    BY DEF Chosen, Types
  <2>2. tally' = [tally EXCEPT !.unviewed = {}, !.untold = u]
    BY <2>1 DEF Serve
  <2>3. u \in SUBSET Rows
    BY <1>1 DEF Types, TallyType, CallType
  <2> HIDE DEF u, IInv
  <2>4. /\ tally' \in TallyType /\ tally'.sent = tally.sent /\ tally'.viewed = tally.viewed
        /\ tally'.unviewed = {} /\ tally'.lost = tally.lost /\ tally'.loads = tally.loads
        /\ tally'.latest = tally.latest /\ tally'.crossed = tally.crossed /\ tally'.untold = u
    BY <2>1, <2>2, <2>3 DEF TallyType
  <2> QED BY <2>4 DEF u
<1>8. \A e \in calls' : e = d \/ (e \in calls /\ e # c)
  BY <1>3 DEF Moved
<1>9. d \in calls' /\ \A e \in calls : e = c \/ e \in calls'
  BY <1>3 DEF Moved
<1>10. \A s \in ({r, c.new} \cup Owes(c)) \ {None} : s \in Owes(d) \/ s \in tally'.untold
  BY <1>2, <1>7 DEF Owes
<1>11. Keeps
  <2>1. None \notin Rows
    BY TablesAssumption
  <2> QED BY <1>6, <1>7, <1>9, <1>10, <2>1 DEF Keeps, Excused
<1>12. Onward
  <2>1. \A s \in Rows : server'[s] = server[s] \/ Excused(s)'
    BY <1>9, <1>10, ServedOnward, TablesAssumption DEF Excused
  <2> QED BY <2>1, ServedOnward DEF Onward
<1>13. ASSUME NEW e \in calls', e.todo # {}, e.new # None PROVE server'[e.new] = "absent"
  <2>1. CASE e = d
    <3>1. ~c.bulk
      BY <1>1, <1>2, <1>13, <2>1, LGood DEF WellFormed, Good, Adding
    <3>2. c.todo \subseteq {r}
      BY <1>1, <3>1 DEF WellFormed
    <3> QED BY <1>2, <1>13, <2>1, <3>2
  <2>2. CASE e \in calls /\ e # c
    <3>1. server[e.new] = "absent" /\ e.new \in Rows /\ e.new # c.new
      BY <1>13, <2>2 DEF Reserved, Types, CallType
    <3>2. e.new # r
      <4>1. c.op = "add" => r = c.new
        BY <1>1, LGood DEF WellFormed, Good
      <4>2. c.op # "add" => server[r] # "absent"
        BY DEF Serve, Acceptable, There
      <4> QED BY <3>1, <4>1, <4>2
    <3> QED BY <3>1, <3>2, ServedOnward
  <2> QED BY <1>8, <2>1, <2>2
<1>14. ASSUME Edited, NEW e \in calls', e.ok # {}
       PROVE  server'[e.row] = Effect(e.op) \/ (server'[e.row] = "gone" /\ e.row \in tally'.untold)
  <2>1. L.ticks = {} /\ DOMAIN L.buttons \subseteq OpNames /\ DOMAIN L.buttons \cap {"change", "duplicate", "rotate"} = {}
        /\ ("revoke" \in DOMAIN L.buttons => DOMAIN L.buttons = {"revoke"})
    BY <1>14, LGood DEF Good, Edited
  <2>2. ~c.bulk /\ r = c.row /\ c.op \in {"add", "delete", "revoke"} /\ c.op \in DOMAIN L.buttons
    BY <1>1, <2>1 DEF WellFormed, OpNames
  <2>3. CASE e = d
    BY <1>2, <2>2, <2>3, ServedOnward
  <2>4. CASE e \in calls /\ e # c
    <3>1. e.op \in {"add", "delete", "revoke"} /\ e.op \in DOMAIN L.buttons /\ e.row \in Rows
      BY <2>1, <2>4 DEF Formed, WellFormed, OpNames
    <3>2. server[e.row] = Effect(e.op) \/ (server[e.row] = "gone" /\ e.row \in tally.untold)
      BY <1>14, <2>4 DEF EditAgrees
    <3>3. server[e.row] # "absent"
      BY <3>1, <3>2, EffectOf DEF OpNames
    <3>4. e.row # c.new
      BY <3>1, <3>3, ServedOnward, TablesAssumption
    <3>5. tally.untold \subseteq tally'.untold
      BY <1>7
    <3>6. CASE server'[e.row] = server[e.row]
      BY <3>2, <3>5, <3>6
    <3>7. CASE server'[e.row] # server[e.row]
      <4>1. e.row = c.row /\ server'[e.row] = Effect(c.op)
        BY <2>2, <3>1, <3>4, <3>7, ServedOnward
      <4>2. c.op # "add"
        BY <1>1, <3>4, <4>1 DEF WellFormed
      <4>3. e.op # "add"
        BY <1>14, <2>4, <4>1, <4>2, <3>1 DEF EditAgrees, Formed, WellFormed
      <4>4. e.op = c.op
        BY <2>1, <2>2, <3>1, <4>2, <4>3
      <4> QED BY <4>1, <4>4
    <3> QED BY <3>6, <3>7
  <2> QED BY <1>8, <2>3, <2>4
<1>15. slot' \in Rows \cup {None}
  BY DEF Serve, browser, Types
<1> QED BY <1>5, <1>6, <1>7, <1>11, <1>12, <1>13, <1>14, <1>15, ServerStep

(***************************************************************************)
(* Refreshes and loads.                                                    *)
(***************************************************************************)
LEMMA DescendsSelf ==
  ASSUME IInv, calls' \subseteq calls
  PROVE  Descends
  BY DEF IInv, Descends, Same, Formed, WellFormed, Types, Ids

LEMMA ElsewhereStep ==
  ASSUME IInv, Elsewhere
  PROVE  IInv'
<1> USE DEF IInv
<1>1. UNCHANGED <<kind, server, list, failed, matching, ticked, slot, secrets, calls, loads, tally>> /\ OnPage
  BY DEF Elsewhere, browser, OnPage
<1>2. refresh' = [at |-> "asked", by |-> refresh.by \cup {0}, seen |-> Unread]
  BY DEF Elsewhere, Asked
<1>3. refresh' \in [at : {"none", "asked", "read"}, by : SUBSET Nat, seen : [Rows -> Status]]
  BY <1>2 DEF Types, Unread, Status
<1>4. Patient
  BY <1>1, <1>2 DEF Patient, Ids, Formed, Types, TallyType
<1>5. Types' /\ Chosen' /\ Formed' /\ Reserved' /\ Ids' /\ Shown'
  BY <1>1, <1>3, <1>4, DescendsSelf, StillOnward, Requests DEF Types, Chosen, Showing, Reserved
<1>6. L' = L
  BY <1>1 DEF L
<1>7. Ages' /\ PageAgrees' /\ LoadAgrees' /\ EditAgrees'
  BY <1>1, <1>2, <1>6 DEF Ages, PageAgrees, LoadAgrees, EditAgrees, OnPage, Loaded, Edited
<1> QED BY <1>5, <1>7

LEMMA ReadStep ==
  ASSUME IInv, Read
  PROVE  IInv'
<1> USE DEF IInv
<1>1. UNCHANGED <<kind, server, list, failed, matching, ticked, slot, secrets, calls, loads, tally>> /\ OnPage
  BY DEF Read, browser, PageAgrees
<1>2. /\ refresh' \in [at : {"none", "asked", "read"}, by : SUBSET Nat, seen : [Rows -> Status]]
      /\ refresh'.at = "read" /\ refresh'.by = refresh.by /\ refresh'.seen = server
  BY DEF Read, Types
<1>3. Patient
  BY <1>1, <1>2 DEF Patient, Ids, Formed
<1>4. Types' /\ Chosen' /\ Formed' /\ Reserved' /\ Ids' /\ Shown'
  BY <1>1, <1>2, <1>3, DescendsSelf, StillOnward, Requests DEF Types, Chosen, Showing, Reserved
<1>5. L' = L
  BY <1>1 DEF L
<1>6. Ages'
  BY <1>1, <1>2, <1>5 DEF Ages, Older, Precedes
<1>7. PageAgrees'
  BY <1>1, <1>2, <1>5 DEF PageAgrees, OnPage, Agrees
<1>8. LoadAgrees' /\ EditAgrees'
  BY <1>1, <1>5 DEF LoadAgrees, EditAgrees, OnPage, Loaded, Edited
<1> QED BY <1>4, <1>6, <1>7, <1>8

\* A load is read.
LEMMA ServeLoadStep ==
  ASSUME IInv, NEW l \in loads, ServeLoad(l)
  PROVE  IInv'
<1> USE DEF IInv
<1> DEFINE m == [l EXCEPT !.at = "read", !.seen = server]
<1>1. UNCHANGED <<kind, server, list, failed, matching, ticked, slot, secrets, calls, refresh, tally>>
  BY DEF ServeLoad, browser
<1>2. m \in LoadType /\ m.n = l.n /\ m.at = "read" /\ m.seen = server
  BY DEF Types, LoadType
<1>3. loads' = (loads \ {l}) \cup {m} /\ l.at = "sent"
  BY DEF ServeLoad
<1> HIDE DEF m
<1>4. Patient
  BY <1>1 DEF Patient, Ids, Formed
<1>5. Types' /\ Chosen' /\ Formed' /\ Reserved' /\ Ids' /\ Shown'
  BY <1>1, <1>2, <1>3, <1>4, DescendsSelf, StillOnward, Requests DEF Types, Chosen, Showing, Reserved
<1>6. L' = L /\ ~OnPage /\ L.rows # "given"
  BY <1>1 DEF L, PageAgrees, EditAgrees, Edited
<1>7. Ages'
  BY <1>1, <1>2, <1>3, <1>6 DEF Ages, Older, Precedes
<1>8. PageAgrees'
  BY <1>1, <1>6 DEF PageAgrees, OnPage
<1>9. \A r \in Rows : Excused(r)' <=> Excused(r)
  BY <1>1 DEF Excused, Owes
<1>10. LoadAgrees'
  <2>1. tally'.latest <= tally'.loads /\ \A x \in loads' : x.n <= tally'.loads
    BY <1>1, <1>2, <1>3 DEF LoadAgrees
  <2>2. SUFFICES ASSUME Loaded PROVE LoadAgrees'
    BY <1>6, <2>1 DEF LoadAgrees, Loaded
  <2>3. \A x, y \in loads' : x.n = y.n => x = y
    BY <1>2, <1>3, <2>2 DEF LoadAgrees
  <2>4. CASE \E x \in loads : x.n = tally.loads /\ (x.at = "read" => Agrees(x.seen))
    <3>1. PICK x \in loads : x.n = tally.loads /\ (x.at = "read" => Agrees(x.seen))
      BY <2>4
    <3>2. CASE x = l
      BY <1>1, <1>2, <1>3, <1>6, <2>1, <2>2, <2>3, <3>1, <3>2 DEF LoadAgrees, Loaded, Agrees
    <3>3. CASE x # l
      BY <1>1, <1>3, <1>6, <1>9, <2>1, <2>2, <2>3, <3>1, <3>3 DEF LoadAgrees, Loaded, Agrees
    <3> QED BY <3>2, <3>3
  <2>5. CASE /\ \A x \in loads : x.n < tally.loads
             /\ failed \/ (tally.latest = tally.loads /\ (tally.crossed \/ Agrees(list)))
    <3>1. \A x \in loads' : x.n < tally.loads
      BY <1>2, <1>3, <2>5
    <3>2. failed \/ tally.crossed \/ Agrees(list)'
      BY <1>1, <1>9, <2>5 DEF Agrees
    <3> QED BY <1>1, <1>6, <2>1, <2>3, <2>5, <3>1, <3>2 DEF LoadAgrees, Loaded
  <2> QED BY <2>2, <2>4, <2>5 DEF LoadAgrees
<1>11. EditAgrees'
  <2> SUFFICES ASSUME Edited PROVE EditAgrees'
    BY <1>6 DEF EditAgrees, Edited
  <2>1. ~tally'.crossed => Uncrossed'
    BY <1>1, <1>2, <1>3, <1>9 DEF EditAgrees, Uncrossed, Unread, Agrees
  <2>2. \A x, y \in loads' : x = y
    BY <1>3 DEF EditAgrees
  <2> QED BY <1>1, <1>6, <2>1, <2>2 DEF EditAgrees, Edited
<1> QED BY <1>5, <1>7, <1>8, <1>10, <1>11

LEMMA LoadArrivesStep ==
  ASSUME IInv, NEW l \in loads, LoadArrives(l)
  PROVE  IInv'
<1> USE DEF IInv
<1>1. UNCHANGED <<kind, server, failed, matching, ticked, slot, secrets, calls, refresh>>
  BY DEF LoadArrives
<1>2. l.at = "read" /\ list' = l.seen /\ loads' = loads \ {l} /\ l \in LoadType
  BY DEF LoadArrives, Types
<1>3. L' = L /\ L.rows = "fetched" /\ Good(L)
  BY <1>1, LGood DEF L, PageAgrees, EditAgrees, Edited, OnPage, Good
<1>4. /\ tally' \in TallyType /\ tally'.sent = tally.sent /\ tally'.viewed = tally.viewed
      /\ tally'.unviewed = tally.unviewed /\ tally'.lost = tally.lost /\ tally'.loads = tally.loads
      /\ tally'.untold = tally.untold /\ tally'.latest = (IF l.n > tally.latest THEN l.n ELSE tally.latest)
      /\ tally'.crossed = (IF "change" \in DOMAIN L.buttons THEN l.n < tally.latest ELSE tally.crossed)
  <2> DEFINE a == IF l.n > tally.latest THEN l.n ELSE tally.latest
             b == IF "change" \in DOMAIN L.buttons THEN l.n < tally.latest ELSE tally.crossed
  <2>1. tally' = [tally EXCEPT !.latest = a, !.crossed = b] /\ tally \in TallyType
    BY DEF LoadArrives, Types
  <2>2. a \in Nat /\ b \in BOOLEAN
    <3>1. l.n \in Nat /\ tally.latest \in Nat /\ tally.crossed \in BOOLEAN
      BY <1>2 DEF Types, TallyType, LoadType
    <3>2. a \in Nat
      BY <3>1
    <3>3. (l.n < tally.latest) \in BOOLEAN
      BY <3>1
    <3>4. b \in BOOLEAN
      BY <3>1, <3>3, Zenon
    <3> QED BY <3>2, <3>4
  <2> HIDE DEF a, b, IInv
  <2>3. /\ tally' \in TallyType /\ tally'.sent = tally.sent /\ tally'.viewed = tally.viewed
        /\ tally'.unviewed = tally.unviewed /\ tally'.lost = tally.lost /\ tally'.loads = tally.loads
        /\ tally'.untold = tally.untold /\ tally'.latest = a /\ tally'.crossed = b
    BY <2>1, <2>2 DEF TallyType
  <2> QED BY <2>3 DEF a, b
<1>5. Patient
  BY <1>1, <1>4 DEF Patient, Ids, Formed
<1>6. Types' /\ Chosen' /\ Formed' /\ Reserved' /\ Ids' /\ Shown'
  <2>1. list' \in [Rows -> Status] /\ loads' \subseteq LoadType /\ ~OnPage
    BY <1>2, <1>3 DEF LoadType, Types, OnPage
  <2> QED BY <1>1, <1>4, <1>5, <2>1, DescendsSelf, StillOnward, Requests DEF Types, Chosen, Showing, Reserved
<1>7. Ages'
  BY <1>1, <1>2, <1>3 DEF Ages, PageAgrees, OnPage
<1>8. PageAgrees'
  BY <1>1, <1>3 DEF PageAgrees, OnPage
<1>9. \A r \in Rows : Excused(r)' <=> Excused(r)
  BY <1>1, <1>4 DEF Excused, Owes
<1>10. LoadAgrees'
  <2>0. l.n \in Nat /\ tally.latest \in Nat /\ tally.loads \in Nat /\ \A x \in loads : x.n \in Nat
    BY <1>2 DEF Types, TallyType, LoadType
  <2>1. tally'.latest <= tally'.loads /\ \A x \in loads' : x.n <= tally'.loads
    BY <1>2, <1>4, <2>0 DEF LoadAgrees
  <2>2. SUFFICES ASSUME Loaded PROVE LoadAgrees'
    BY <1>3, <2>1 DEF LoadAgrees, Loaded
  <2>3. \A x, y \in loads' : x.n = y.n => x = y
    BY <1>2, <2>2 DEF LoadAgrees
  <2>4. CASE \E x \in loads : x.n = tally.loads /\ (x.at = "read" => Agrees(x.seen))
    <3>1. PICK x \in loads : x.n = tally.loads /\ (x.at = "read" => Agrees(x.seen))
      BY <2>4
    <3>2. CASE x = l
      <4>1. Agrees(list)'
        BY <1>1, <1>2, <1>9, <3>1, <3>2 DEF Agrees
      <4>2. tally'.latest = tally'.loads
        BY <1>4, <2>0, <3>1, <3>2 DEF LoadAgrees
      <4>3. \A y \in loads' : y.n < tally'.loads
        BY <1>2, <1>4, <2>0, <2>2, <3>1, <3>2 DEF LoadAgrees
      <4> QED BY <1>3, <2>1, <2>3, <4>1, <4>2, <4>3 DEF LoadAgrees
    <3>3. CASE x # l
      BY <1>2, <1>4, <1>9, <1>1, <2>1, <2>3, <3>1, <3>3 DEF LoadAgrees, Agrees
    <3> QED BY <3>2, <3>3
  <2>5. CASE (\A x \in loads : x.n < tally.loads) /\ failed
    BY <1>1, <1>2, <1>4, <2>1, <2>3, <2>5 DEF LoadAgrees
  <2>6. CASE (\A x \in loads : x.n < tally.loads) /\ tally.latest = tally.loads
    <3>1. l.n < tally.latest /\ ~(l.n > tally.latest)
      BY <2>0, <2>6
    <3>2. tally'.latest = tally'.loads /\ tally'.crossed
      BY <1>4, <2>2, <2>6, <3>1 DEF Loaded
    <3> QED BY <1>2, <1>4, <2>1, <2>3, <2>6, <3>2 DEF LoadAgrees
  <2> QED BY <2>2, <2>4, <2>5, <2>6 DEF LoadAgrees
<1>11. EditAgrees'
  <2> SUFFICES ASSUME Edited PROVE EditAgrees'
    BY <1>3 DEF EditAgrees, Edited
  <2>1. tally'.crossed = tally.crossed
    BY <1>3, <1>4 DEF Edited
  <2>2. loads' = {}
    BY <1>2 DEF EditAgrees
  <2>3. ~tally.crossed => ListAgrees'
    BY <1>1, <1>2, <1>9 DEF EditAgrees, Uncrossed, Agrees, ListAgrees
  <2>4. ~tally'.crossed => Uncrossed'
    BY <2>1, <2>2, <2>3 DEF Uncrossed
  <2> QED BY <1>1, <1>3, <1>4, <2>2, <2>4 DEF EditAgrees, Edited
<1> QED BY <1>6, <1>7, <1>8, <1>10, <1>11

\* A load fails: rows are missing from then on.
LEMMA LoadFailsStep ==
  ASSUME IInv, NEW l \in loads, LoadFails(l)
  PROVE  IInv'
<1> USE DEF IInv
<1>1. /\ UNCHANGED <<kind, server, matching, ticked, slot, secrets, calls, refresh, tally>>
      /\ failed' = TRUE /\ loads' = loads \ {l} /\ list' = IF L.fails = "hides" THEN list ELSE Unread
  BY DEF LoadFails, browser
<1>2. L' = L /\ L.rows = "fetched" /\ Good(L)
  BY <1>1, LGood DEF L, PageAgrees, EditAgrees, Edited, OnPage, Good
<1>3. list' \in [Rows -> Status]
  BY <1>1 DEF Types, Unread, Status
<1>4. Patient
  BY <1>1 DEF Patient, Ids, Formed
<1>5. Types' /\ Chosen' /\ Formed' /\ Reserved' /\ Ids' /\ Shown'
  <2>1. loads' \subseteq LoadType /\ ~OnPage
    BY <1>1, <1>2 DEF Types, OnPage
  <2> QED BY <1>1, <1>3, <1>4, <2>1, DescendsSelf, StillOnward, Requests DEF Types, Chosen, Showing, Reserved
<1>6. Ages'
  <2>1. Older(list', server)
    BY <1>1 DEF Ages, Older, Precedes, Unread
  <2> QED BY <1>1, <1>2, <2>1 DEF Ages, PageAgrees, OnPage
<1>7. PageAgrees'
  BY <1>1, <1>2 DEF PageAgrees, OnPage
<1>8. \A r \in Rows : Excused(r)' <=> Excused(r)
  BY <1>1 DEF Excused, Owes
<1>9. LoadAgrees'
  <2>1. tally'.latest <= tally'.loads /\ \A x \in loads' : x.n <= tally'.loads
    BY <1>1 DEF LoadAgrees
  <2>2. SUFFICES ASSUME Loaded PROVE LoadAgrees'
    BY <1>2, <2>1 DEF LoadAgrees, Loaded
  <2>3. \A x, y \in loads' : x.n = y.n => x = y
    BY <1>1, <2>2 DEF LoadAgrees
  <2>4. CASE \E x \in loads : x.n = tally.loads /\ (x.at = "read" => Agrees(x.seen))
    <3>1. PICK x \in loads : x.n = tally.loads /\ (x.at = "read" => Agrees(x.seen))
      BY <2>4
    <3>2. CASE x = l
      <4>1. \A y \in loads' : y.n < tally.loads
        <5>1. \A y \in loads' : y.n # l.n /\ y.n <= tally.loads /\ y.n \in Nat
          BY <1>1, <2>2 DEF LoadAgrees, Types, LoadType
        <5>2. tally.loads \in Nat
          BY DEF Types, TallyType
        <5> QED BY <3>1, <3>2, <5>1, <5>2
      <4> QED BY <1>1, <2>1, <2>3, <4>1 DEF LoadAgrees
    <3>3. CASE x # l
      BY <1>1, <1>8, <2>1, <2>3, <3>1, <3>3 DEF LoadAgrees, Agrees
    <3> QED BY <3>2, <3>3
  <2>5. CASE \A x \in loads : x.n < tally.loads
    BY <1>1, <2>1, <2>3, <2>5 DEF LoadAgrees
  <2> QED BY <2>2, <2>4, <2>5 DEF LoadAgrees
<1>10. EditAgrees'
  <2> SUFFICES ASSUME Edited PROVE EditAgrees'
    BY <1>2 DEF EditAgrees, Edited
  <2>1. loads' = {} /\ L.rows # "given"
    BY <1>1, <1>2 DEF EditAgrees
  <2>2. list' = Unread
    BY <1>1, <1>2 DEF Good, Edited
  <2>3. ListAgrees'
    BY <1>1, <2>2 DEF ListAgrees, Missing, Unread
  <2>4. Uncrossed'
    BY <2>1, <2>3 DEF Uncrossed
  <2> QED BY <1>1, <1>2, <2>1, <2>4 DEF EditAgrees, Edited
<1> QED BY <1>5, <1>6, <1>7, <1>9, <1>10

(***************************************************************************)
(* Answers.  A page is asked for or a secret shown, unless nothing was     *)
(* done or nobody is told.                                                 *)
(***************************************************************************)
LEMMA AskedType ==
  ASSUME IInv, NEW id \in 0..tally.sent
  PROVE  /\ Asked(id) \in [at : {"none", "asked", "read"}, by : SUBSET Nat, seen : [Rows -> Status]]
         /\ Asked(id).at = "asked" /\ Asked(id).by = refresh.by \cup {id}
  BY DEF IInv, Types, TallyType, Asked, Unread, Status

\* On a page nothing needs to agree while a refresh is asked for.
LEMMA AskedAgrees ==
  ASSUME IInv, OnPage, UNCHANGED <<kind, server, list, failed, loads>>, refresh'.at = "asked",
         tally'.loads = tally.loads, tally'.latest = tally.latest
  PROVE  Ages' /\ PageAgrees' /\ LoadAgrees' /\ EditAgrees'
<1>1. L' = L
  BY DEF L
<1> QED BY <1>1 DEF IInv, Ages, PageAgrees, LoadAgrees, EditAgrees, OnPage, Loaded, Edited

LEMMA CloseSecretStep ==
  ASSUME IInv, NEW c \in secrets, CloseSecret(c)
  PROVE  IInv'
<1> USE DEF IInv
<1>1. /\ UNCHANGED <<kind, server, list, failed, matching, ticked, slot, calls, loads, tally>>
      /\ secrets' = secrets \ {c} /\ refresh' = Asked(c.id)
  BY DEF CloseSecret
<1>2. OnPage
  BY DEF PageAgrees
<1>3. c.id \in 0..tally.sent /\ c.id \in 1..tally.sent
  BY DEF Ids, Types, TallyType
<1>4. /\ refresh' \in [at : {"none", "asked", "read"}, by : SUBSET Nat, seen : [Rows -> Status]]
      /\ refresh'.at = "asked" /\ refresh'.by = refresh.by \cup {c.id}
  BY <1>1, <1>3, AskedType
<1>5. Patient
  BY <1>1, <1>3, <1>4 DEF Patient, Ids, Formed
<1>6. Types' /\ Chosen' /\ Formed' /\ Reserved' /\ Ids' /\ Shown'
  BY <1>1, <1>4, <1>5, DescendsSelf, StillOnward, Requests DEF Types, Chosen, Showing, Reserved
<1>7. Ages' /\ PageAgrees' /\ LoadAgrees' /\ EditAgrees'
  BY <1>1, <1>2, <1>4, AskedAgrees
<1> QED BY <1>6, <1>7

LEMMA AnswerBulkStep ==
  ASSUME IInv, NEW c \in calls, AnswerBulk(c)
  PROVE  IInv'
<1> USE DEF IInv
<1>1. /\ UNCHANGED <<kind, server, list, failed, matching, slot, secrets, loads>>
      /\ ticked' = {} /\ calls' = calls \ {c} /\ refresh' = Asked(c.id)
  BY DEF AnswerBulk, BulkDone
<1>2. OnPage /\ c.op \in {"delete", "revoke"}
  BY LGood DEF AnswerBulk, Good, Formed, WellFormed, OnPage
<1>3. c.id \in 0..tally.sent
  BY DEF Ids, Types, TallyType
<1>4. /\ refresh' \in [at : {"none", "asked", "read"}, by : SUBSET Nat, seen : [Rows -> Status]]
      /\ refresh'.at = "asked" /\ refresh'.by = refresh.by \cup {c.id}
  BY <1>1, <1>3, AskedType
<1>5. /\ tally' \in TallyType /\ tally'.sent = tally.sent /\ tally'.unviewed = {}
      /\ tally'.lost = tally.lost /\ tally'.loads = tally.loads /\ tally'.latest = tally.latest
  BY DEF AnswerBulk, Types, TallyType, Chosen
<1>6. Patient
  BY <1>1, <1>2, <1>3, <1>4, <1>5 DEF Patient, Ids, Formed
<1>7. Types' /\ Chosen' /\ Formed' /\ Reserved' /\ Ids' /\ Shown'
  BY <1>1, <1>4, <1>5, <1>6, DescendsSelf, StillOnward, Requests DEF Types, Chosen, Showing, Reserved
<1>8. Ages' /\ PageAgrees' /\ LoadAgrees' /\ EditAgrees'
  BY <1>1, <1>2, <1>4, <1>5, AskedAgrees
<1> QED BY <1>7, <1>8

LEMMA AnsweredFacts ==
  ASSUME IInv, NEW c \in calls, AnswerRow(c)
  PROVE  /\ c \in CallType /\ WellFormed(c) /\ Good(L) /\ c.row \in Rows /\ c.ok \subseteq {c.row} /\ L' = L
         /\ c.id \in 0..tally.sent /\ calls' = calls \ {c} /\ Descends
         /\ UNCHANGED <<kind, server, matching, ticked>> /\ slot' \in Rows \cup {None}
         /\ \A e \in calls' : e.todo # {} /\ e.new # None => server'[e.new] = "absent"
         /\ Owes(c) = IF c.ok = {} THEN {} ELSE c.ok \cup ({c.new} \ {None})
         /\ \A r \in Rows : Excused(r) =>
               r \in Owes(c) \/ r \in tally.untold \/ (\E e \in calls' : r \in Owes(e))
               \/ \E e \in secrets : r \in {e.row, e.new}
         /\ tally.untold \subseteq tally'.untold
<1> USE DEF IInv
<1>1. calls' = calls \ {c} /\ UNCHANGED <<kind, server, matching, ticked>> /\ slot' \in Rows \cup {None}
  BY DEF AnswerRow, Types
<1>2. c \in CallType /\ WellFormed(c) /\ c.row \in Rows /\ c.ok \subseteq {c.row}
  BY DEF AnswerRow, Single, WellFormed, Formed, Types
<1>3. L' = L
  BY <1>1 DEF L
<1>4. c.id \in 0..tally.sent
  BY DEF Ids, Types, TallyType
<1>5. Descends
  BY <1>1, DescendsSelf
<1>6. \A e \in calls' : e.todo # {} /\ e.new # None => server'[e.new] = "absent"
  BY <1>1 DEF Reserved
<1>7. Owes(c) = IF c.ok = {} THEN {} ELSE c.ok \cup ({c.new} \ {None})
  BY DEF Owes, AnswerRow
<1>8. \A r \in Rows : Excused(r) =>
               r \in Owes(c) \/ r \in tally.untold \/ (\E e \in calls' : r \in Owes(e))
               \/ \E e \in secrets : r \in {e.row, e.new}
  BY <1>1 DEF Excused
<1>9. tally.untold \subseteq tally'.untold
  <2>1. tally'.untold = IF Follows(c, "secret") /\ ~c.mounted THEN tally.untold \cup {c.row, c.new}
                        ELSE IF L.buttons[c.op].told THEN tally.untold ELSE tally.untold \cup c.ok
    BY DEF AnswerRow, Types, TallyType
  <2> QED BY <2>1
<1> QED BY <1>1, <1>2, <1>3, <1>4, <1>5, <1>6, <1>7, <1>8, <1>9, LGood

LEMMA AnswerOnPageStep ==
  ASSUME IInv, NEW c \in calls, AnswerRow(c), OnPage
  PROVE  IInv'
<1> USE DEF IInv
<1>1. /\ c \in CallType /\ WellFormed(c) /\ Good(L) /\ c.row \in Rows /\ c.ok \subseteq {c.row}
      /\ c.id \in 0..tally.sent /\ calls' = calls \ {c} /\ Descends
      /\ UNCHANGED <<kind, server, matching, ticked>> /\ slot' \in Rows \cup {None}
      /\ \A e \in calls' : e.todo # {} /\ e.new # None => server'[e.new] = "absent"
  BY AnsweredFacts
<1>2. L.rows = "page" /\ c.op \in DOMAIN L.buttons
  BY <1>1 DEF OnPage, WellFormed
<1>3. L.buttons[c.op].after = (IF c.op = "rotate" THEN "secret" ELSE "refresh") /\ c.op # "add"
  BY <1>1, <1>2 DEF Good
<1>4. ~Follows(c, "edit") /\ ~Follows(c, "load") /\ (Follows(c, "secret") <=> Succeeded(c) /\ c.op = "rotate")
      /\ (Follows(c, "refresh") <=> Succeeded(c) /\ c.op # "rotate")
  BY <1>3 DEF Follows
<1>5. list' = list /\ loads' = loads /\ loads = {} /\ failed' = failed
  BY <1>4 DEF AnswerRow, PageAgrees, Types
<1>6. Cardinality(loads' \ loads) = 0
  BY <1>5, FS_EmptySet
<1> DEFINE u == IF Follows(c, "secret") /\ ~c.mounted THEN tally.untold \cup {c.row, c.new}
                ELSE IF L.buttons[c.op].told THEN tally.untold ELSE tally.untold \cup c.ok
<1>7. /\ tally' \in TallyType /\ tally'.sent = tally.sent /\ tally'.viewed = tally.viewed
      /\ tally'.unviewed = tally.unviewed /\ tally'.lost = tally.lost /\ tally'.loads = tally.loads
      /\ tally'.latest = tally.latest /\ tally'.crossed = tally.crossed /\ tally'.untold = u
  <2> DEFINE x == tally.crossed \/ (list' # list /\ loads # {})
  <2>1. tally' = [tally EXCEPT !.loads = tally.loads + 0, !.crossed = x, !.untold = u]
    BY <1>6 DEF AnswerRow
  <2>2. tally \in TallyType /\ tally.loads + 0 = tally.loads /\ x = tally.crossed
    BY <1>5 DEF Types, TallyType
  <2>3. u \in SUBSET Rows
    BY <1>1, <1>4 DEF Types, TallyType, WellFormed, Adding
  <2> HIDE DEF u, x, IInv
  <2> QED BY <2>1, <2>2, <2>3 DEF TallyType
<1>8. \/ Follows(c, "refresh") /\ refresh' = Asked(c.id)
      \/ ~Follows(c, "refresh") /\ refresh' = refresh
  BY DEF AnswerRow, RefreshAfter
<1>9. secrets' = IF Follows(c, "secret") /\ c.mounted THEN secrets \cup {c} ELSE secrets
  BY DEF AnswerRow
<1>10. refresh' \in [at : {"none", "asked", "read"}, by : SUBSET Nat, seen : [Rows -> Status]]
       /\ (refresh'.by = refresh.by \/ (c.op # "rotate" /\ refresh'.by = refresh.by \cup {c.id}))
  BY <1>1, <1>4, <1>8, AskedType DEF Types
<1>11. Patient
  <2>1. \A e \in secrets' : e \in secrets \/ (e \in calls /\ e.op = "rotate" /\ e.mounted /\ \A d \in calls' : d.id # e.id)
    BY <1>1, <1>4, <1>9 DEF Ids
  <2>2. \A e \in calls' : e.id # c.id
    BY <1>1 DEF Ids
  <2>3. \A e \in secrets' : e.op = "rotate" => e.id \notin refresh'.by
    BY <1>4, <1>9, <1>10 DEF Ids
  <2> QED BY <1>1, <1>7, <1>10, <2>1, <2>2, <2>3 DEF Patient, Ids
<1>12. tally'.unviewed = {} /\ ticked' \subseteq ticked \cap tally'.viewed
  BY <1>1, <1>7 DEF Chosen
<1>13. Types' /\ Chosen' /\ Formed' /\ Reserved' /\ Ids' /\ Shown'
  BY <1>1, <1>5, <1>7, <1>10, <1>11, <1>12, StillOnward, Requests DEF Types, Showing
<1>14. Ages' /\ PageAgrees' /\ LoadAgrees' /\ EditAgrees'
  <2>1. CASE Follows(c, "refresh")
    <3>1. refresh'.at = "asked"
      BY <1>1, <1>8, <2>1, AskedType
    <3> QED BY <1>1, <1>5, <1>7, <3>1, AskedAgrees
  <2>2. CASE ~Follows(c, "refresh")
    <3>1. \A r \in Owes(c) : r \in u \/ \E e \in secrets' : r \in {e.row, e.new}
      <4>0. Owes(c) = IF c.ok = {} THEN {} ELSE c.ok \cup ({c.new} \ {None})
        BY AnsweredFacts
      <4>1. CASE c.ok = {}
        BY <4>0, <4>1
      <4>2. CASE c.ok # {} /\ c.op = "rotate"
        <5>1. Follows(c, "secret")
          BY <1>1, <1>2, <1>4, <4>2 DEF Succeeded, Good
        <5> QED BY <1>1, <1>9, <4>0, <4>2, <5>1
      <4>3. CASE c.ok # {} /\ c.op # "rotate"
        <5>1. ~L.buttons[c.op].told
          BY <1>4, <2>2, <4>3 DEF Succeeded
        <5>2. c.new = None
          BY <1>1, <1>2, <1>3, <4>3, <5>1 DEF Good, WellFormed, Adding
        <5> QED BY <1>4, <4>0, <4>3, <5>1, <5>2
      <4> QED BY <4>1, <4>2, <4>3
    <3>2. tally.untold \subseteq tally'.untold /\ secrets \subseteq secrets'
      BY <1>9, AnsweredFacts
    <3>3. Keeps
      <4> HIDE DEF u, IInv
      <4> SUFFICES ASSUME NEW r \in Rows, Excused(r) PROVE Excused(r)'
        BY DEF Keeps
      <4>1. r \in Owes(c) \/ r \in tally.untold \/ (\E e \in calls' : r \in Owes(e))
            \/ \E e \in secrets : r \in {e.row, e.new}
        BY AnsweredFacts
      <4>2. r \in Owes(c) => r \in tally'.untold \/ \E e \in secrets' : r \in {e.row, e.new}
        BY <1>7, <3>1
      <4> QED BY <3>2, <4>1, <4>2 DEF Excused, Owes
    <3>4. refresh' = refresh /\ (~OnPage => ticked' = {} /\ secrets' = {})
      BY <1>8, <2>2
    <3>5. Ages' /\ PageAgrees' /\ LoadAgrees'
      BY <1>1, <1>5, <1>7, <3>3, <3>4, StillOnward, Carried
    <3>6. ~Edited'
      BY <1>1, <1>2 DEF Edited, L
    <3> QED BY <3>5, <3>6 DEF EditAgrees
  <2> QED BY <2>1, <2>2
<1> QED BY <1>13, <1>14

LEMMA AnswerLoadedStep ==
  ASSUME IInv, NEW c \in calls, AnswerRow(c), Loaded
  PROVE  IInv'
<1> USE DEF IInv
<1>1. /\ c \in CallType /\ WellFormed(c) /\ Good(L) /\ c.row \in Rows /\ c.ok \subseteq {c.row} /\ L' = L
      /\ calls' = calls \ {c} /\ Descends
      /\ UNCHANGED <<kind, server, matching, ticked>> /\ slot' \in Rows \cup {None}
      /\ \A e \in calls' : e.todo # {} /\ e.new # None => server'[e.new] = "absent"
  BY AnsweredFacts
<1>2. /\ L.buttons[c.op].after = "load" /\ L.buttons[c.op].told /\ L.buttons[c.op].heeds
      /\ ~OnPage /\ ~Edited /\ c.op # "rotate"
  BY <1>1 DEF Good, WellFormed, Loaded, OnPage, Edited
<1>3. ~Follows(c, "edit") /\ ~Follows(c, "secret") /\ ~Follows(c, "refresh") /\ (Follows(c, "load") <=> c.ok # {})
  BY <1>2 DEF Follows, Succeeded
<1>4. UNCHANGED <<list, refresh, secrets>>
  BY <1>3 DEF AnswerRow, RefreshAfter
<1>5. /\ loads' = IF c.ok # {} THEN loads \cup Loading ELSE loads
      /\ failed' = (failed /\ c.ok = {}) /\ failed' \in BOOLEAN
  BY <1>3 DEF AnswerRow
<1>6. tally' = [tally EXCEPT !.loads = tally.loads + Cardinality(loads' \ loads),
                              !.crossed = tally.crossed \/ (list' # list /\ loads # {}), !.untold = tally.untold]
  BY <1>2, <1>3 DEF AnswerRow
<1>7. ASSUME tally'.sent = tally.sent, tally' \in TallyType, tally'.viewed = tally.viewed,
             tally'.unviewed = tally.unviewed, tally'.lost = tally.lost, loads' \subseteq LoadType
      PROVE  Types' /\ Chosen' /\ Formed' /\ Reserved' /\ Ids' /\ Shown'
  <2>1. Patient
    BY <1>1, <1>4, <1>7 DEF Patient, Ids, Formed
  <2>2. tally'.unviewed = {} /\ ticked' \subseteq ticked \cap tally'.viewed
    BY <1>1, <1>7 DEF Chosen
  <2> QED BY <1>1, <1>2, <1>4, <1>5, <1>7, <2>1, <2>2, StillOnward, Requests DEF Types, Showing
<1>8. CASE c.ok = {}
  <2>1. loads' = loads /\ Cardinality(loads' \ loads) = 0
    BY <1>5, <1>8, FS_EmptySet
  <2>2. tally' = tally
    <3> DEFINE x == tally.crossed \/ (list' # list /\ loads # {})
    <3>1. tally' = [tally EXCEPT !.loads = tally.loads + 0, !.crossed = x, !.untold = tally.untold]
      BY <1>6, <2>1
    <3>2. tally \in TallyType /\ tally.loads + 0 = tally.loads /\ x = tally.crossed
      BY <1>4 DEF Types, TallyType
    <3> HIDE DEF x, IInv
    <3> QED BY <3>1, <3>2 DEF TallyType
  <2>3. Keeps
    <3>1. Owes(c) = {}
      BY <1>8 DEF Owes
    <3> QED BY <1>1, <1>4, <2>2, <3>1 DEF Keeps, Excused, Owes
  <2>4. ~OnPage => ticked' = {} /\ secrets' = {}
    BY <1>1, <1>4 DEF PageAgrees
  <2>5. Ages' /\ PageAgrees' /\ LoadAgrees'
    BY <1>1, <1>4, <1>5, <1>8, <2>1, <2>2, <2>3, <2>4, StillOnward, Carried DEF Types
  <2>6. EditAgrees'
    BY <1>1, <1>2 DEF EditAgrees, Edited
  <2> QED BY <1>7, <2>1, <2>2, <2>5, <2>6 DEF Types
<1>9. CASE c.ok # {}
  <2> DEFINE m == [n |-> tally.loads + 1, at |-> "sent", seen |-> Unread]
  <2>1. loads' = loads \cup {m}
    BY <1>5, <1>9 DEF Loading
  <2>2. m \in LoadType /\ m.n = tally.loads + 1 /\ m.at = "sent"
    BY DEF Types, TallyType, LoadType, Unread, Status
  <2>3. tally.loads \in Nat /\ tally.latest \in Nat /\ tally.crossed \in BOOLEAN /\ tally \in TallyType
        /\ \A l \in loads : l.n \in Nat /\ l.n <= tally.loads
    BY DEF Types, TallyType, LoadType, LoadAgrees
  <2> HIDE DEF m
  <2>4. m \notin loads
    BY <2>2, <2>3
  <2>5. loads' \ loads = {m}
    BY <2>1, <2>4
  <2>6. Cardinality(loads' \ loads) = 1
    BY <2>5, FS_Singleton
  <2>7. tally' = [tally EXCEPT !.loads = tally.loads + 1]
    BY <1>4, <1>6, <2>3, <2>6 DEF TallyType
  <2>8. /\ tally' \in TallyType /\ tally'.sent = tally.sent /\ tally'.viewed = tally.viewed
        /\ tally'.unviewed = tally.unviewed /\ tally'.lost = tally.lost
        /\ tally'.loads = tally.loads + 1 /\ tally'.latest = tally.latest
    BY <2>3, <2>7 DEF TallyType
  <2>9. loads' \subseteq LoadType
    BY <2>1, <2>2 DEF Types
  <2>10. Ages'
    BY <1>1, <1>4, <2>1, <2>2 DEF Ages
  <2>11. PageAgrees' /\ EditAgrees'
    BY <1>1, <1>2, <1>4 DEF PageAgrees, EditAgrees, OnPage, Edited
  <2>12. LoadAgrees'
    <3>1. tally'.latest <= tally'.loads /\ \A l \in loads' : l.n <= tally'.loads
      BY <2>1, <2>2, <2>3, <2>8 DEF LoadAgrees
    <3>2. \A l, k \in loads' : l.n = k.n => l = k
      BY <2>1, <2>2, <2>3 DEF LoadAgrees
    <3>3. m \in loads' /\ m.n = tally'.loads /\ m.at # "read"
      BY <2>1, <2>2, <2>8
    <3> QED BY <1>1, <3>1, <3>2, <3>3 DEF LoadAgrees
  <2> QED BY <1>7, <2>8, <2>9, <2>10, <2>11, <2>12
<1> QED BY <1>8, <1>9

LEMMA AnswerEditedStep ==
  ASSUME IInv, NEW c \in calls, AnswerRow(c), Edited
  PROVE  IInv'
<1> USE DEF IInv
<1>1. /\ c \in CallType /\ WellFormed(c) /\ Good(L) /\ c.row \in Rows /\ c.ok \subseteq {c.row} /\ L' = L
      /\ calls' = calls \ {c} /\ Descends
      /\ UNCHANGED <<kind, server, matching, ticked>> /\ slot' \in Rows \cup {None}
      /\ \A e \in calls' : e.todo # {} /\ e.new # None => server'[e.new] = "absent"
  BY AnsweredFacts
<1>2. /\ L.buttons[c.op].after = "edit" /\ L.buttons[c.op].told /\ L.buttons[c.op].heeds
      /\ ~OnPage /\ ~Loaded /\ c.op \in {"add", "delete", "revoke"}
  BY <1>1 DEF Good, WellFormed, Loaded, OnPage, Edited, OpNames
<1>3. ~Follows(c, "load") /\ ~Follows(c, "secret") /\ ~Follows(c, "refresh") /\ (Follows(c, "edit") <=> c.ok # {})
  BY <1>2 DEF Follows, Succeeded
<1>4. UNCHANGED <<failed, loads, refresh, secrets>>
  BY <1>3 DEF AnswerRow, RefreshAfter, Types
<1>5. list' = IF c.ok # {} THEN After(c, c.row, list) ELSE list
  BY <1>3 DEF AnswerRow
<1> DEFINE x == tally.crossed \/ (list' # list /\ loads # {})
<1>6. /\ tally' \in TallyType /\ tally'.sent = tally.sent /\ tally'.viewed = tally.viewed
      /\ tally'.unviewed = tally.unviewed /\ tally'.lost = tally.lost /\ tally'.untold = tally.untold
      /\ tally'.loads = tally.loads /\ tally'.latest = tally.latest /\ tally'.crossed = x
  <2>1. Cardinality(loads' \ loads) = 0
    BY <1>4, FS_EmptySet
  <2>2. tally' = [tally EXCEPT !.loads = tally.loads + 0, !.crossed = x, !.untold = tally.untold]
    BY <1>2, <1>3, <2>1 DEF AnswerRow
  <2>3. tally \in TallyType /\ tally.loads + 0 = tally.loads
    BY DEF Types, TallyType
  <2>4. x \in BOOLEAN
    OBVIOUS
  <2> HIDE DEF x, IInv
  <2> QED BY <2>2, <2>3, <2>4 DEF TallyType
<1>7. Patient
  BY <1>1, <1>4, <1>6 DEF Patient, Ids, Formed
<1>8. tally'.unviewed = {} /\ ticked' \subseteq ticked \cap tally'.viewed
  BY <1>1, <1>6 DEF Chosen
<1>9. ASSUME list' \in [Rows -> Status]
      PROVE  Types' /\ Chosen' /\ Formed' /\ Reserved' /\ Ids' /\ Shown'
  BY <1>1, <1>2, <1>4, <1>6, <1>7, <1>8, <1>9, StillOnward, Requests DEF Types, Showing
<1>10. CASE c.ok = {}
  <2>1. list' = list /\ tally'.crossed = tally.crossed
    BY <1>5, <1>6, <1>10 DEF Types, TallyType
  <2>2. Keeps
    <3>1. Owes(c) = {}
      BY <1>10 DEF Owes
    <3> QED BY <1>1, <1>4, <1>6, <3>1 DEF Keeps, Excused, Owes
  <2>3. ~OnPage => ticked' = {} /\ secrets' = {}
    BY <1>1, <1>4 DEF PageAgrees
  <2>4. Ages' /\ PageAgrees' /\ LoadAgrees' /\ (~tally'.crossed => Uncrossed')
    BY <1>1, <1>4, <1>6, <2>1, <2>2, <2>3, StillOnward, Carried
  <2>5. EditAgrees'
    BY <1>1, <1>4, <1>6, <2>1, <2>4 DEF EditAgrees, Edited
  <2> QED BY <1>9, <2>1, <2>4, <2>5 DEF Types
<1>11. CASE c.ok # {}
  <2>1. ~c.bulk /\ c.ok = {c.row} /\ (c.op # "add" => c.new = None)
    BY <1>1, <1>2, <1>11 DEF WellFormed, Adding, AnswerRow, Single
  <2>2. \A r \in Rows : list'[r] = IF r = c.row THEN Effect(c.op) ELSE list[r]
    BY <1>1, <1>2, <1>5, <1>11, <2>1, EffectOf, TablesAssumption DEF After, WellFormed
  <2>3. list' \in [Rows -> Status] /\ Effect(c.op) # "absent"
    <3>1. list' = [s \in Rows |-> IF s = c.new THEN "live"
                                  ELSE IF s = c.row /\ c.op # "duplicate" THEN Effect(c.op) ELSE list[s]]
      BY <1>5, <1>11 DEF After
    <3>2. Effect(c.op) \in Status /\ Effect(c.op) # "absent" /\ "live" \in Status /\ list \in [Rows -> Status]
      BY <1>2, EffectOf DEF Status, There, Types, OpNames
    <3> QED BY <3>1, <3>2
  <2>4. server[c.row] = Effect(c.op) \/ (server[c.row] = "gone" /\ c.row \in tally.untold)
    BY <1>11 DEF EditAgrees
  <2>5. Ages'
    <3>1. Older(list', server)
      <4> SUFFICES ASSUME NEW r \in Rows PROVE Precedes(list'[r], server[r])
        BY DEF Older
      <4>1. CASE r = c.row
        BY <2>2, <2>4, <4>1 DEF Precedes
      <4>2. CASE r # c.row
        BY <2>2, <4>2 DEF Ages, Older
      <4> QED BY <4>1, <4>2
    <3> QED BY <1>1, <1>2, <1>4, <3>1 DEF Ages, PageAgrees
  <2>6. PageAgrees' /\ LoadAgrees'
    BY <1>1, <1>2, <1>4, <1>6 DEF PageAgrees, LoadAgrees, OnPage, Loaded
  <2>7. EditAgrees'
    <3>1. ASSUME ~tally'.crossed PROVE Uncrossed'
      <4>1. ~tally.crossed /\ (list' = list \/ loads = {}) /\ Uncrossed
        BY <1>6, <3>1 DEF EditAgrees
      <4>2. list' # Unread
        BY <1>1, <2>2, <2>3 DEF Unread
      <4>3. loads = {} /\ ListAgrees
        BY <4>1, <4>2 DEF Uncrossed
      <4>4. ASSUME NEW r \in Rows, list'[r] # server[r] PROVE Excused(r)' \/ Missing(r)'
        <5>1. CASE r = c.row
          BY <1>6, <2>2, <2>4, <4>4, <5>1 DEF Excused
        <5>2. CASE r # c.row
          <6>1. list[r] # server[r]
            BY <2>2, <4>4, <5>2
          <6>2. Excused(r) \/ Missing(r)'
            BY <1>1, <1>4, <2>2, <4>3, <5>2, <6>1 DEF ListAgrees, Missing
          <6>3. r \notin Owes(c)
            <7>1. c.new \in {None, c.row}
              BY <1>1, <2>1 DEF WellFormed
            <7> QED BY <2>1, <5>2, <7>1, TablesAssumption DEF Owes
          <6>4. Missing(r)' \/ r \in tally.untold \/ (\E e \in calls' : r \in Owes(e))
                \/ \E e \in secrets : r \in {e.row, e.new}
            BY <6>2, <6>3, AnsweredFacts
          <6> HIDE DEF IInv
          <6> QED BY <1>4, <1>6, <6>4 DEF Excused, Owes
        <5> QED BY <5>1, <5>2
      <4>5. ListAgrees'
        BY <1>1, <4>4 DEF ListAgrees
      <4> QED BY <1>4, <4>3, <4>5 DEF Uncrossed
    <3>2. L.rows = "given" => loads' = {} /\ \A e \in calls' : e.op = "add" => list'[e.new] = "absent"
      <4> SUFFICES ASSUME L.rows = "given", NEW e \in calls', e.op = "add" PROVE list'[e.new] = "absent"
        BY <1>4 DEF EditAgrees
      <4>1. list[e.new] = "absent" /\ e \in calls /\ e # c /\ e.new \in Rows
        BY <1>1 DEF EditAgrees, Formed, WellFormed, Adding
      <4>2. e.new # c.row
        BY <1>1, <4>1, TablesAssumption DEF EditAgrees, WellFormed, Reserved
      <4> QED BY <2>2, <4>1, <4>2
    <3>3. \A e \in calls' : e.ok # {} =>
              server'[e.row] = Effect(e.op) \/ (server'[e.row] = "gone" /\ e.row \in tally'.untold)
      BY <1>1, <1>6 DEF EditAgrees
    <3> HIDE DEF x
    <3> QED BY <1>1, <1>4, <3>1, <3>2, <3>3 DEF EditAgrees, Edited
  <2> QED BY <1>9, <2>3, <2>5, <2>6, <2>7
<1> QED BY <1>10, <1>11

LEMMA AnswerRowStep ==
  ASSUME IInv, NEW c \in calls, AnswerRow(c)
  PROVE  IInv'
<1>1. OnPage \/ Loaded \/ Edited
  BY LGood DEF IInv, OnPage, Loaded, Edited, Good
<1> QED BY <1>1, AnswerOnPageStep, AnswerLoadedStep, AnswerEditedStep

(***************************************************************************)
(* What a search or a new page takes off the screen.                       *)
(***************************************************************************)
LEMMA Unmounts ==
  ASSUME IInv, NEW rows \in [Rows -> Status], NEW match, NEW asker \in SUBSET (0..tally.sent),
         Unmounted(rows, match, asker),
         \A c \in calls \cup secrets : c.op = "rotate" => c.id \notin asker
  PROVE  /\ Descends /\ secrets' \subseteq secrets
         /\ \A c \in calls' : \E d \in calls : Owes(c) = Owes(d)
         /\ \A c \in calls' : c.todo # {} /\ c.new # None => server[c.new] = "absent"
         /\ \A c \in calls' \cup secrets' : c.op = "rotate" /\ c.mounted => ButtonIn(rows, match, c.row, "rotate")
         /\ \A c \in calls' : c.op = "rotate" => c.id \notin refresh.by
         /\ tally' \in TallyType /\ tally'.sent = tally.sent /\ tally'.viewed = tally.viewed
         /\ tally'.unviewed = tally.unviewed /\ tally'.loads = tally.loads
         /\ tally'.latest = tally.latest /\ tally'.crossed = tally.crossed
         /\ \A x \in tally'.lost : x.by # {x.id}
         /\ \A r \in Rows : Excused(r) => \/ r \in tally'.untold
                                          \/ \E c \in calls' : r \in Owes(c)
                                          \/ \E c \in secrets' : r \in {c.row, c.new}
                                          \/ rows[r] = server[r]
<1> USE DEF IInv
<1> DEFINE lostOf(cs) == {c \in cs : c.op = "rotate" /\ c.mounted /\ ~ButtonIn(rows, match, c.row, "rotate")}
           off(c) == IF c \in lostOf(calls) THEN [c EXCEPT !.mounted = FALSE] ELSE c
           lost == tally.lost \cup {[id |-> c.id, by |-> asker] : c \in lostOf(calls) \cup lostOf(secrets)}
           untold == {r \in tally.untold \cup UNION {{c.row, c.new} : c \in lostOf(secrets)} : rows[r] # server[r]}
<1>1. calls' = {off(c) : c \in calls} /\ secrets' = secrets \ lostOf(secrets)
      /\ tally' = [tally EXCEPT !.lost = lost, !.untold = untold]
  BY DEF Unmounted
<1>2. \A c \in calls \cup secrets : c \in CallType /\ WellFormed(c)
  BY DEF Types, Formed
<1>3. \A c \in calls : Same(c, off(c)) /\ Owes(off(c)) = Owes(c)
  <2> SUFFICES ASSUME NEW c \in calls PROVE Same(c, off(c)) /\ Owes(off(c)) = Owes(c)
    OBVIOUS
  <2>1. c \in CallType /\ c.ok \cap c.todo = {}
    BY <1>2 DEF WellFormed
  <2> DEFINE d == [c EXCEPT !.mounted = FALSE]
  <2>2. /\ d \in CallType /\ d.id = c.id /\ d.op = c.op /\ d.row = c.row /\ d.new = c.new /\ d.bulk = c.bulk
        /\ d.unviewed = c.unviewed /\ ~d.mounted /\ d.todo = c.todo /\ d.ok = c.ok /\ d.broken = c.broken
    BY <2>1 DEF CallType
  <2> HIDE DEF d
  <2>3. Same(c, d) /\ Owes(d) = Owes(c)
    BY <2>1, <2>2 DEF Same, Owes
  <2>4. Same(c, c)
    BY <2>1 DEF Same
  <2>5. off(c) \in {c, d}
    BY DEF d
  <2> QED BY <2>3, <2>4, <2>5
<1>4. \A c \in calls : off(c).op = "rotate" /\ off(c).mounted => ButtonIn(rows, match, off(c).row, "rotate")
  <2> SUFFICES ASSUME NEW c \in calls, off(c).op = "rotate", off(c).mounted
               PROVE  ButtonIn(rows, match, off(c).row, "rotate")
    OBVIOUS
  <2>1. off(c).op = c.op /\ off(c).row = c.row /\ (off(c).mounted => c.mounted)
    BY <1>3 DEF Same
  <2>2. c \in lostOf(calls) => ~off(c).mounted
    BY <1>2 DEF CallType
  <2> QED BY <2>1, <2>2
<1>5. \A c \in secrets' : c.op = "rotate" /\ c.mounted => ButtonIn(rows, match, c.row, "rotate")
  BY <1>1
<1>6. lost \in SUBSET [id : Nat, by : SUBSET Nat] /\ \A x \in lost : x.by # {x.id}
  <2>1. asker \in SUBSET Nat /\ tally.lost \in SUBSET [id : Nat, by : SUBSET Nat]
    BY DEF Types, TallyType
  <2>2. \A c \in calls \cup secrets : c.id \in Nat
    BY <1>2 DEF CallType
  <2>3. \A c \in lostOf(calls) \cup lostOf(secrets) : c \in calls \cup secrets /\ c.op = "rotate" /\ c.id \notin asker
    OBVIOUS
  <2>4. \A x \in tally.lost : x.by # {x.id}
    BY DEF Ids
  <2> HIDE DEF lostOf, IInv
  <2>5. \A x \in lost : x \in tally.lost
                        \/ \E c \in lostOf(calls) \cup lostOf(secrets) : x = [id |-> c.id, by |-> asker]
    OBVIOUS
  <2>6. \A x \in lost : x \in [id : Nat, by : SUBSET Nat]
    BY <2>1, <2>2, <2>3, <2>5
  <2>7. \A x \in lost : x.by # {x.id}
    BY <2>3, <2>4, <2>5
  <2> QED BY <2>6, <2>7
<1>7. untold \in SUBSET Rows
  <2>1. \A c \in secrets : c.row \in Rows /\ c.new \in Rows
    BY <1>2, LGood DEF Formed, WellFormed, Adding, Good
  <2>2. tally.untold \subseteq Rows
    BY DEF Types, TallyType
  <2> QED BY <2>1, <2>2
<1>8. \A r \in Rows : Excused(r) => r \in untold \/ (\E c \in calls : r \in Owes(c))
                                    \/ (\E c \in secrets' : r \in {c.row, c.new}) \/ rows[r] = server[r]
  <2> SUFFICES ASSUME NEW r \in Rows, Excused(r), rows[r] # server[r], r \notin untold
               PROVE  (\E c \in calls : r \in Owes(c)) \/ \E c \in secrets' : r \in {c.row, c.new}
    OBVIOUS
  <2>1. r \notin tally.untold /\ \A c \in lostOf(secrets) : r \notin {c.row, c.new}
    OBVIOUS
  <2> QED BY <1>1, <2>1 DEF Excused
<1> HIDE DEF lost, untold, lostOf
<1>9. /\ tally' \in TallyType /\ tally'.sent = tally.sent /\ tally'.viewed = tally.viewed
      /\ tally'.unviewed = tally.unviewed /\ tally'.loads = tally.loads
      /\ tally'.latest = tally.latest /\ tally'.crossed = tally.crossed
      /\ tally'.lost = lost /\ tally'.untold = untold
  <2>1. tally \in TallyType
    BY DEF Types
  <2> HIDE DEF IInv
  <2> QED BY <1>1, <1>6, <1>7, <2>1 DEF TallyType
<1> HIDE DEF off
<1>10. Descends
  <2>1. \A d \in calls' : \E c \in calls : Same(c, d)
    BY <1>1, <1>3
  <2>2. \A c, d \in calls' : c.id = d.id => c = d
    <3> SUFFICES ASSUME NEW a \in calls, NEW b \in calls, off(a).id = off(b).id PROVE off(a) = off(b)
      BY <1>1
    <3>1. a.id = b.id
      BY <1>3 DEF Same
    <3> QED BY <3>1 DEF Ids
  <2> QED BY <2>1, <2>2 DEF Descends
<1>11. \A c \in calls' : c.todo # {} /\ c.new # None => server[c.new] = "absent"
  BY <1>1, <1>3 DEF Same, Reserved
<1>12. \A c \in calls' : c.op = "rotate" => c.id \notin refresh.by
  BY <1>1, <1>3 DEF Same, Ids
<1>13. \A r \in Rows : Excused(r) => \/ r \in tally'.untold
                                     \/ \E c \in calls' : r \in Owes(c)
                                     \/ \E c \in secrets' : r \in {c.row, c.new}
                                     \/ rows[r] = server[r]
  <2>1. \A c \in calls : \E d \in calls' : Owes(d) = Owes(c)
    BY <1>1, <1>3
  <2> QED BY <1>8, <1>9, <2>1
<1>14. \A c \in calls' : \E d \in calls : Owes(c) = Owes(d)
  BY <1>1, <1>3
<1>15. secrets' \subseteq secrets
  BY <1>1
<1>16. \A c \in calls' : c.op = "rotate" /\ c.mounted => ButtonIn(rows, match, c.row, "rotate")
  BY <1>1, <1>4
<1> QED BY <1>5, <1>6, <1>9, <1>10, <1>11, <1>12, <1>13, <1>14, <1>15, <1>16

LEMMA SearchStep ==
  ASSUME IInv, NEW m \in SUBSET Rows, Search(m)
  PROVE  IInv'
<1> USE DEF IInv
<1>1. UNCHANGED <<kind, server, list, failed, ticked, slot, loads, refresh>> /\ matching' = m
      /\ Unmounted(list, m, {0}) /\ L.ticks # {}
  BY DEF Search, Toolbar
<1>2. {0} \in SUBSET (0..tally.sent) /\ list \in [Rows -> Status]
      /\ \A c \in calls \cup secrets : c.op = "rotate" => c.id \notin {0}
  BY DEF Ids, Types, TallyType
<1>3. /\ Descends /\ secrets' \subseteq secrets
      /\ \A c \in calls' : c.todo # {} /\ c.new # None => server[c.new] = "absent"
      /\ \A c \in calls' \cup secrets' : c.op = "rotate" /\ c.mounted => ButtonIn(list, m, c.row, "rotate")
      /\ \A c \in calls' : c.op = "rotate" => c.id \notin refresh.by
      /\ tally' \in TallyType /\ tally'.sent = tally.sent /\ tally'.viewed = tally.viewed
      /\ tally'.unviewed = tally.unviewed /\ tally'.loads = tally.loads
      /\ tally'.latest = tally.latest /\ tally'.crossed = tally.crossed
      /\ \A x \in tally'.lost : x.by # {x.id}
  BY <1>1, <1>2, Unmounts
<1>4. \A r \in Rows : Excused(r) => Excused(r)' \/ list[r] = server[r]
  <2>1. \A r \in Rows : Excused(r) => \/ r \in tally'.untold
                                      \/ \E c \in calls' : r \in Owes(c)
                                      \/ \E c \in secrets' : r \in {c.row, c.new}
                                      \/ list[r] = server[r]
    BY <1>1, <1>2, Unmounts
  <2> HIDE DEF IInv
  <2> QED BY <2>1 DEF Excused, Owes
<1>5. Patient
  BY <1>1, <1>3 DEF Patient, Ids, Formed
<1>6. Types' /\ Chosen' /\ Formed' /\ Reserved' /\ Ids' /\ Shown'
  <2>1. Showing
    BY <1>1, <1>3 DEF Showing
  <2> QED BY <1>1, <1>3, <1>5, <2>1, StillOnward, Requests DEF Types, Chosen
<1>7. L' = L /\ OnPage /\ ~Loaded /\ ~Edited
  BY <1>1, LGood DEF L, Good, OnPage, Loaded, Edited
<1>8. Ages'
  BY <1>1, <1>7 DEF Ages
<1>9. PageAgrees'
  <2>1. refresh.at = "none" => ListAgrees'
    BY <1>1, <1>4, <1>7 DEF PageAgrees, ListAgrees, Missing
  <2>2. ASSUME refresh.at = "read", NEW r \in Rows, refresh.seen[r] # server[r] PROVE Excused(r)'
    <3>1. Precedes(list[r], refresh.seen[r]) /\ Precedes(refresh.seen[r], server[r])
      BY <2>2 DEF Ages, Older
    <3>2. list[r] \in Status /\ refresh.seen[r] \in Status /\ server[r] \in Status
      BY DEF Types
    <3>3. list[r] # server[r]
      BY <2>2, <3>1, <3>2, Precedence
    <3> QED BY <1>4, <1>7, <2>2, <3>3 DEF PageAgrees, Agrees
  <2> QED BY <1>1, <1>7, <2>1, <2>2 DEF PageAgrees, OnPage, Agrees
<1>10. LoadAgrees' /\ EditAgrees'
  BY <1>1, <1>3, <1>7 DEF LoadAgrees, EditAgrees, OnPage, Loaded, Edited
<1> QED BY <1>6, <1>8, <1>9, <1>10

LEMMA ArriveStep ==
  ASSUME IInv, Arrive
  PROVE  IInv'
<1> USE DEF IInv
<1>1. OnPage /\ refresh.at = "read"
  BY DEF Arrive, PageAgrees
<1>2. /\ UNCHANGED <<kind, server, matching, ticked, slot, loads>> /\ list' = refresh.seen /\ refresh' = Quiet
      /\ failed' = FALSE
      /\ Unmounted(refresh.seen, matching, refresh.by)
  BY <1>1 DEF Arrive, OnPage
<1>3. refresh.by \in SUBSET (0..tally.sent) /\ refresh.seen \in [Rows -> Status]
      /\ \A c \in calls \cup secrets : c.op = "rotate" => c.id \notin refresh.by
  BY DEF Ids, Types
<1>4. /\ Descends /\ secrets' \subseteq secrets
      /\ \A c \in calls' : c.todo # {} /\ c.new # None => server[c.new] = "absent"
      /\ \A c \in calls' \cup secrets' :
            c.op = "rotate" /\ c.mounted => ButtonIn(refresh.seen, matching, c.row, "rotate")
      /\ tally' \in TallyType /\ tally'.sent = tally.sent /\ tally'.viewed = tally.viewed
      /\ tally'.unviewed = tally.unviewed /\ tally'.loads = tally.loads
      /\ tally'.latest = tally.latest /\ tally'.crossed = tally.crossed
      /\ \A x \in tally'.lost : x.by # {x.id}
  BY <1>2, <1>3, Unmounts
<1>5. \A r \in Rows : Excused(r) => Excused(r)' \/ refresh.seen[r] = server[r]
  <2>1. \A r \in Rows : Excused(r) => \/ r \in tally'.untold
                                      \/ \E c \in calls' : r \in Owes(c)
                                      \/ \E c \in secrets' : r \in {c.row, c.new}
                                      \/ refresh.seen[r] = server[r]
    BY <1>2, <1>3, Unmounts
  <2> HIDE DEF IInv
  <2> QED BY <2>1 DEF Excused, Owes
<1>6. refresh'.by = {} /\ refresh'.at = "none"
      /\ refresh' \in [at : {"none", "asked", "read"}, by : SUBSET Nat, seen : [Rows -> Status]]
  BY <1>2 DEF Quiet, Unread, Status
<1>7. Patient
  BY <1>4, <1>6 DEF Patient
<1>8. Types' /\ Chosen' /\ Formed' /\ Reserved' /\ Ids' /\ Shown'
  <2>1. Showing
    BY <1>2, <1>4 DEF Showing
  <2> QED BY <1>2, <1>3, <1>4, <1>6, <1>7, <2>1, StillOnward, Requests DEF Types, Chosen
<1>9. L' = L /\ ~Loaded /\ ~Edited
  BY <1>1, <1>2 DEF L, OnPage, Loaded, Edited
<1>10. Ages'
  BY <1>1, <1>2, <1>6, <1>9 DEF Ages
<1>11. PageAgrees'
  <2>1. \A r \in Rows : refresh.seen[r] # server[r] => Excused(r)'
    BY <1>1, <1>5 DEF PageAgrees, Agrees
  <2> QED BY <1>1, <1>2, <1>6, <1>9, <2>1 DEF PageAgrees, OnPage, Agrees, ListAgrees
<1>12. LoadAgrees' /\ EditAgrees'
  BY <1>1, <1>2, <1>4, <1>9 DEF LoadAgrees, EditAgrees, OnPage, Loaded, Edited
<1> QED BY <1>8, <1>10, <1>11, <1>12

\* No rows come with a page whose read failed.
LEMMA FallbackStep ==
  ASSUME IInv, Fallback
  PROVE  IInv'
<1> USE DEF IInv
<1>1. OnPage /\ Unread \in [Rows -> Status]
  BY DEF Fallback, PageAgrees, Unread, Status
<1>2. /\ UNCHANGED <<kind, server, matching, ticked, slot, loads>> /\ list' = Unread /\ refresh' = Quiet
      /\ failed' = TRUE
      /\ Unmounted(Unread, matching, refresh.by)
  BY <1>1 DEF Fallback, OnPage
<1>3. refresh.by \in SUBSET (0..tally.sent)
      /\ \A c \in calls \cup secrets : c.op = "rotate" => c.id \notin refresh.by
  BY DEF Ids, Types
<1>4. /\ Descends /\ secrets' \subseteq secrets
      /\ \A c \in calls' : c.todo # {} /\ c.new # None => server[c.new] = "absent"
      /\ \A c \in calls' \cup secrets' :
            c.op = "rotate" /\ c.mounted => ButtonIn(Unread, matching, c.row, "rotate")
      /\ tally' \in TallyType /\ tally'.sent = tally.sent /\ tally'.viewed = tally.viewed
      /\ tally'.unviewed = tally.unviewed /\ tally'.loads = tally.loads
      /\ tally'.latest = tally.latest /\ tally'.crossed = tally.crossed
      /\ \A x \in tally'.lost : x.by # {x.id}
  BY <1>1, <1>2, <1>3, Unmounts
<1>6. refresh'.by = {} /\ refresh'.at = "none"
      /\ refresh' \in [at : {"none", "asked", "read"}, by : SUBSET Nat, seen : [Rows -> Status]]
  BY <1>2 DEF Quiet, Unread, Status
<1>7. Patient
  BY <1>4, <1>6 DEF Patient
<1>8. Types' /\ Chosen' /\ Formed' /\ Reserved' /\ Ids' /\ Shown'
  <2>1. Showing
    BY <1>2, <1>4 DEF Showing
  <2> QED BY <1>1, <1>2, <1>3, <1>4, <1>6, <1>7, <2>1, StillOnward, Requests DEF Types, Chosen
<1>9. L' = L /\ ~Loaded /\ ~Edited
  BY <1>1, <1>2 DEF L, OnPage, Loaded, Edited
<1>10. Ages'
  <2>1. Older(Unread, server)
    BY DEF Older, Precedes, Unread
  <2> QED BY <1>1, <1>2, <1>6, <1>9, <2>1 DEF Ages, PageAgrees
<1>11. PageAgrees'
  <2>1. ListAgrees'
    BY <1>2 DEF ListAgrees, Missing, Unread
  <2> QED BY <1>1, <1>2, <1>6, <1>9, <2>1 DEF PageAgrees, OnPage
<1>12. LoadAgrees' /\ EditAgrees'
  BY <1>1, <1>2, <1>4, <1>9 DEF LoadAgrees, EditAgrees, OnPage, Loaded, Edited
<1> QED BY <1>8, <1>10, <1>11, <1>12

(***************************************************************************)
(* The invariant, and what it says.                                        *)
(***************************************************************************)
LEMMA NextIInv == IInv /\ [Next]_vars => IInv'
<1> SUFFICES ASSUME IInv, [Next]_vars PROVE IInv'
  OBVIOUS
<1>1. CASE Operator
  <2>1. ASSUME NEW r \in Present, Search(Rows) \/ Search(Rows \ {r}) PROVE IInv'
    BY <2>1, SearchStep
  <2>2. ASSUME NEW r \in Rows, ToggleSelect(r) PROVE IInv'
    BY <2>2, TickSteps
  <2>3. CASE ToggleSelectAll
    BY <2>3, TickSteps
  <2>4. CASE Add
    BY <2>4, AddStep
  <2>5. ASSUME NEW r \in Rows, NEW op \in Ops, Press(r, op) PROVE IInv'
    BY <2>5, PressStep
  <2>6. ASSUME NEW c \in secrets, CloseSecret(c) PROVE IInv'
    BY <2>6, CloseSecretStep
  <2>7. ASSUME NEW op \in L.ticks, HandleBulk(op) PROVE IInv'
    BY <2>7, BulkStep
  <2> QED BY <1>1, <2>1, <2>2, <2>3, <2>4, <2>5, <2>6, <2>7 DEF Operator
<1>2. CASE Server
  <2>1. ASSUME NEW c \in calls, NEW r \in c.todo, Serve(c, r) PROVE IInv'
    BY <2>1, ServeStep
  <2>2. ASSUME NEW c \in calls, NEW r \in c.todo, Refuse(c, r) PROVE IInv'
    BY <2>2, RefuseStep
  <2>3. ASSUME NEW c \in calls, Break(c) PROVE IInv'
    BY <2>3, BreakStep
  <2>4. ASSUME NEW c \in calls, AnswerRow(c) PROVE IInv'
    BY <2>4, AnswerRowStep
  <2>5. ASSUME NEW c \in calls, AnswerBulk(c) PROVE IInv'
    BY <2>5, AnswerBulkStep
  <2>6. ASSUME NEW c \in calls, Forgotten(c) PROVE IInv'
    BY <2>6, ForgottenStep
  <2>7. ASSUME NEW l \in loads, ServeLoad(l) PROVE IInv'
    BY <2>7, ServeLoadStep
  <2>8. ASSUME NEW l \in loads, LoadArrives(l) PROVE IInv'
    BY <2>8, LoadArrivesStep
  <2>9. ASSUME NEW l \in loads, LoadFails(l) PROVE IInv'
    BY <2>9, LoadFailsStep
  <2> QED BY <1>2, <2>1, <2>2, <2>3, <2>4, <2>5, <2>6, <2>7, <2>8, <2>9, ReadStep, ArriveStep, FallbackStep DEF Server
<1>3. CASE \E r \in Rows : OtherWrites(r)
  BY <1>3, OtherWritesStep
<1>4. CASE UNCHANGED vars
  BY <1>4 DEF vars, IInv, Types, Chosen, Formed, WellFormed, Reserved, Concerns, Ids, Shown, HasButton, ButtonIn,
       Ages, PageAgrees, LoadAgrees, EditAgrees, OnPage, Loaded, Edited, Uncrossed, Agrees, ListAgrees, Missing,
       Excused, Owes, L
<1> QED BY <1>1, <1>2, <1>3, <1>4, ElsewhereStep DEF Next

\* Every change of a row is followed from the server, through the answer, refresh or load that
\* carries it, to the list; and every request, selection and secret is about rows of its kind.
THEOREM SpecIInv == Spec => []IInv
<1> QED BY InitIInv, NextIInv, PTL DEF Spec

\* TypeOK: the lists, their requests and what is on the screen keep their types.
THEOREM TableTypes == Spec => []TypeOK
<1>1. IInv => TypeOK
  <2> SUFFICES ASSUME IInv PROVE TypeOK
    OBVIOUS
  <2> USE DEF IInv
  <2>1. \A c \in secrets : c.op = "rotate" /\ HasButton(c.row, "rotate")
    BY DEF Formed, Shown
  <2>2. \A c \in calls : c.todo \cup c.ok \subseteq Rows /\ c.ok \cap c.todo = {}
    BY DEF Formed, WellFormed, Types, CallType
  <2> QED BY <2>1, <2>2 DEF Types, Status, LoadAgrees, TypeOK
<1> QED BY <1>1, SpecIInv, PTL

\* ActsOnChosen: a request for the rows ticked is about rows that were on the screen when they
\* were ticked, whatever was searched, ticked and refreshed since (handleBulkRevoke, handleBulkDelete).
THEOREM BulkActsOnChosen == Spec => []ActsOnChosen
<1>1. IInv => ActsOnChosen
  BY DEF IInv, Chosen, ActsOnChosen
<1> QED BY <1>1, SpecIInv, PTL

\* QuietListIsTrue: a change of the server that the list does not show is owed to it by a request,
\* a secret, a refresh or a load; when none of them is left, somebody else made the change, or
\* nobody said whether it was made.
THEOREM ListsSettle == Spec => []QuietListIsTrue
<1>1. IInv => QuietListIsTrue
  <2> SUFFICES ASSUME IInv, calls = {}, loads = {}, refresh.at = "none", secrets = {}, ~tally.crossed
               PROVE  \A r \in Rows : list[r] # server[r] => r \in tally.untold \/ Missing(r)
    BY DEF QuietListIsTrue
  <2>1. ListAgrees
    <3>1. Good(L)
      BY LGood DEF IInv
    <3>2. OnPage \/ Loaded \/ Edited
      BY <3>1 DEF OnPage, Loaded, Edited, Good
    <3>3. Loaded => ListAgrees
      <4>1. Loaded => L.fails = "hides" /\ (failed \/ Agrees(list))
        BY <3>1 DEF IInv, LoadAgrees, Good, Loaded
      <4> QED BY <4>1 DEF ListAgrees, Agrees, Missing
    <3> QED BY <3>2, <3>3 DEF IInv, PageAgrees, EditAgrees, Uncrossed
  <2> QED BY <2>1 DEF ListAgrees, Excused
<1> QED BY <1>1, SpecIInv, PTL

\* SecretOutlivesRotation: the refresh a rotation asks for waits until its secret was put away, so
\* a page that takes the secret from the screen was asked for by somebody else.
THEOREM SecretsOutlive == Spec => []SecretOutlivesRotation
<1>1. IInv => SecretOutlivesRotation
  BY DEF IInv, Ids, SecretOutlivesRotation
<1> QED BY <1>1, SpecIInv, PTL

-------------------------------------------------------------------------------
(***************************************************************************)
(* The console's agreement about its organisation, and what its views      *)
(* show, for any number of organisations, questions and calls.             *)
(*                                                                         *)
(* Two invariants.  The organisation's follows a change of the cookie      *)
(* until it is on the page: either a refresh that will carry it waits, or  *)
(* the one under way carries it, or the page has it, or the change was one *)
(* that asks for none; and likewise from the operator's choice through the *)
(* session call to the cookie, and from there to the header.  The views'   *)
(* follows the last question: it is of the view's subject and out, or it   *)
(* was answered last, or the history says that it lapsed.  No step of a    *)
(* view touches the organisation, so the first carries over as it is.      *)
(***************************************************************************)

(***************************************************************************)
(* The organisation.                                                       *)
(***************************************************************************)
Flags ==
    /\ seen \in [picks : Nat, others : Nat, reads : Nat, writes : Nat, astray : BOOLEAN, lost : BOOLEAN]

\* The organisation the page has, or has when the refresh under way arrives.
Coming == IF pageRefresh.sent THEN pageRefresh.org ELSE page.org

PageFollows ==
    /\ ~pageRefresh.sent => pageRefresh.org = NoOrg
    /\ ~seen.astray /\ ~pageRefresh.asked => Coming = cookie

HeaderFollows == named # cookie => \E c \in sessionCalls : c.kind \in {"read", "notice"}

ChoiceFollows ==
    ~seen.lost =>
        /\ cookie = wish \/ Updating
        /\ \A c \in sessionCalls : c.kind \in Updates => c.org = wish

FormsKept ==
    /\ \A w \in writes \cup made : w.to # w.shown => w.crossed
    /\ \A w \in made : w.kind = "free" \/ w.to = w.shown

ViewsInv == OrgTypeOK /\ Flags /\ PageFollows /\ HeaderFollows /\ ChoiceFollows /\ FormsKept

LEMMA RenderedType ==
  ASSUME NEW o \in Orgs \cup {NoOrg}
  PROVE  Rendered(o) \in [org : Orgs \cup {NoOrg}, source : {"backend", "fallback"}] /\ Rendered(o).org = o
  BY DEF Rendered

LEMMA Counted ==
  ASSUME Flags, NEW b \in BOOLEAN, seen' = [seen EXCEPT !.picks = @ + 1, !.lost = b]
  PROVE  Flags' /\ seen'.lost = b /\ seen'.astray = seen.astray
<1>1. seen.picks + 1 \in Nat
  BY DEF Flags
<1> QED BY <1>1 DEF Flags

LEMMA InitViewsInv == OrgInit => ViewsInv
<1> SUFFICES ASSUME OrgInit PROVE ViewsInv
  OBVIOUS
<1> USE DEF OrgInit
<1>1. cookie \in Orgs \cup {NoOrg}
  OBVIOUS
<1>2. page \in [org : Orgs \cup {NoOrg}, source : {"backend", "fallback"}] /\ page.org = cookie
  BY <1>1, RenderedType
<1>3. OrgTypeOK
  BY <1>1, <1>2 DEF OrgTypeOK, Idle
<1>4. Flags
  BY DEF Flags
<1>5. PageFollows
  BY <1>2 DEF PageFollows, Coming, Idle
<1>6. HeaderFollows /\ ChoiceFollows /\ FormsKept
  BY DEF HeaderFollows, ChoiceFollows, FormsKept
<1> QED BY <1>3, <1>4, <1>5, <1>6 DEF ViewsInv

LEMMA UpdateStep ==
  ASSUME ViewsInv, NEW o \in Orgs, NEW purpose \in Updates, Update(purpose, o),
         UNCHANGED <<screen, cookie, named, page, writes, made>>,
         members' \subseteq Orgs, listed' \subseteq Orgs, busy' \in BOOLEAN, picking' \in BOOLEAN
  PROVE  ViewsInv'
<1> USE DEF ViewsInv, OrgTypeOK, Updates
<1>1. CASE Updating
  <2>1. OrgTypeOK'
    BY <1>1 DEF Update, RefreshAsked
  <2>2. seen' = [seen EXCEPT !.picks = @ + 1, !.lost = TRUE]
    BY <1>1 DEF Update
  <2>3. Flags' /\ seen'.lost /\ seen'.astray = seen.astray
    BY <2>2, Counted
  <2>4. PageFollows'
    BY <1>1, <2>3 DEF Update, RefreshAsked, PageFollows, Coming
  <2>5. HeaderFollows' /\ ChoiceFollows' /\ FormsKept'
    BY <1>1, <2>3 DEF Update, HeaderFollows, ChoiceFollows, FormsKept
  <2> QED BY <2>1, <2>3, <2>4, <2>5
<1>2. CASE ~Updating
  <2>1. OrgTypeOK'
    BY <1>2 DEF Update, Updating
  <2>2. seen' = [seen EXCEPT !.picks = @ + 1, !.lost = FALSE]
    BY <1>2 DEF Update
  <2>3. Flags' /\ ~seen'.lost /\ seen'.astray = seen.astray
    BY <2>2, Counted
  <2>4. PageFollows'
    BY <1>2, <2>3 DEF Update, PageFollows, Coming
  <2>5. HeaderFollows' /\ FormsKept'
    BY <1>2 DEF Update, HeaderFollows, FormsKept
  <2>6. wish' = o /\ sessionCalls' = sessionCalls \cup {[kind |-> purpose, org |-> o]} /\ \A c \in sessionCalls : c.kind \notin Updates
    BY <1>2 DEF Update, Updating
  <2> DEFINE new == [kind |-> purpose, org |-> o]
  <2>7. new \in sessionCalls' /\ new.kind \in Updates /\ new.org = o
    BY <2>6
  <2>8. Updating'
    BY <2>7 DEF Updating
  <2>9. ASSUME NEW c \in sessionCalls', c.kind \in Updates PROVE c.org = wish'
    BY <2>6, <2>7, <2>9
  <2>10. ChoiceFollows'
    BY <2>8, <2>9 DEF ChoiceFollows
  <2> QED BY <2>1, <2>3, <2>4, <2>5, <2>10
<1> QED BY <1>1, <1>2

LEMMA ChoosingSteps ==
  ASSUME ViewsInv, NEW o \in Orgs,
         SwitchOrg(o) \/ EnterOrg(o, "created") \/ EnterOrg(o, "joined")
  PROVE  ViewsInv'
<1>1. CASE SwitchOrg(o)
  <2>1. (busy \/ Updating) \in BOOLEAN
    BY DEF ViewsInv, OrgTypeOK
  <2> QED BY <1>1, <2>1, UpdateStep DEF SwitchOrg, ViewsInv, OrgTypeOK, Updates
<1>2. CASE \E how \in {"created", "joined"} : EnterOrg(o, how)
  BY <1>2, UpdateStep DEF EnterOrg, ViewsInv, OrgTypeOK, Updates
<1> QED BY <1>1, <1>2

LEMMA UpdateEnds ==
  ASSUME ViewsInv, NEW c \in sessionCalls, UpdateAnswered(c) \/ UpdateFails(c)
  PROVE  ViewsInv'
<1> USE DEF ViewsInv, OrgTypeOK
<1>1. c.kind \in Updates /\ sessionCalls' = sessionCalls \ {c} /\ c.org \in Orgs \cup {NoOrg} /\ pageRefresh' = RefreshAsked
  BY DEF UpdateAnswered, UpdateFails, AfterUpdate
<1>2. \A d \in sessionCalls' : d.kind \notin Updates
  BY <1>1
<1>3. pageRefresh'.asked /\ pageRefresh'.sent = pageRefresh.sent /\ pageRefresh'.org = pageRefresh.org
  BY <1>1 DEF RefreshAsked
<1>4. PageFollows'
  BY <1>3 DEF PageFollows
<1>7. busy' \in BOOLEAN /\ picking' \in BOOLEAN
  <2>1. Locked(c)
    BY DEF UpdateAnswered, UpdateFails
  <2>2. (seen.picks < Budget[screen].picks) \in BOOLEAN
    OBVIOUS
  <2>3. CASE c.kind = "switch" /\ ~busy
    BY <2>1, <2>2, <2>3 DEF Locked
  <2>4. CASE ~(c.kind = "switch" /\ ~busy)
    BY <2>1, <2>4 DEF Locked
  <2> QED BY <2>3, <2>4
<1>5. CASE UpdateAnswered(c)
  <2>1. OrgTypeOK'
    BY <1>1, <1>5, <1>7 DEF UpdateAnswered, RefreshAsked
  <2>2. HeaderFollows' /\ Flags' /\ FormsKept'
    BY <1>5 DEF UpdateAnswered, HeaderFollows, Flags, FormsKept
  <2>3. ChoiceFollows'
    BY <1>1, <1>2, <1>5 DEF UpdateAnswered, ChoiceFollows
  <2> QED BY <1>4, <2>1, <2>2, <2>3
<1>6. CASE UpdateFails(c)
  <2>1. OrgTypeOK'
    BY <1>1, <1>6, <1>7 DEF UpdateFails, RefreshAsked
  <2>2. seen' = [seen EXCEPT !.lost = TRUE] /\ UNCHANGED <<cookie, named, writes, made>>
    BY <1>6 DEF UpdateFails
  <2>3. Flags' /\ FormsKept'
    BY <2>2 DEF Flags, FormsKept
  <2>4. seen'.lost
    BY <2>2 DEF Flags
  <2>5. HeaderFollows'
    BY <1>1, <2>2 DEF HeaderFollows, Updates
  <2>6. ChoiceFollows'
    BY <2>4 DEF ChoiceFollows
  <2> QED BY <1>4, <2>1, <2>3, <2>5, <2>6
<1> QED BY <1>5, <1>6

LEMMA SessionSteps ==
  ASSUME ViewsInv, NEW c \in sessionCalls, SessionRead(c) \/ Notice(c)
  PROVE  ViewsInv'
<1> USE DEF ViewsInv, OrgTypeOK, Updates
<1>1. CASE SessionRead(c)
  <2>1. c.org \in Orgs \cup {NoOrg} /\ c.kind = "read" /\ sessionCalls' = sessionCalls \ {c} /\ cookie' = c.org /\ named' = c.org
    BY <1>1 DEF SessionRead
  <2>2. OrgTypeOK'
    BY <1>1, <2>1 DEF SessionRead
  <2>3. seen' = [seen EXCEPT !.astray = @ \/ c.org # cookie, !.lost = @ \/ c.org # cookie]
    BY <1>1 DEF SessionRead
  <2>4. Flags' /\ seen'.astray = (seen.astray \/ c.org # cookie) /\ seen'.lost = (seen.lost \/ c.org # cookie)
    BY <2>3 DEF Flags
  <2>5. HeaderFollows' /\ FormsKept'
    BY <1>1 DEF SessionRead, HeaderFollows, FormsKept
  <2>6. PageFollows'
    BY <1>1, <2>4 DEF SessionRead, PageFollows, Coming
  <2>7. ~seen'.lost => ~seen.lost /\ cookie' = cookie /\ wish' = wish
    BY <1>1, <2>1, <2>4 DEF SessionRead
  <2>8. Updating => Updating'
    BY <2>1 DEF Updating
  <2>9. ChoiceFollows'
    BY <2>1, <2>7, <2>8 DEF ChoiceFollows
  <2> QED BY <2>2, <2>4, <2>5, <2>6, <2>9
<1>2. CASE Notice(c)
  <2> DEFINE read == [kind |-> "read", org |-> cookie]
  <2>1. sessionCalls' = (sessionCalls \ {c}) \cup {read} /\ c.kind = "notice" /\ read.kind = "read"
    BY <1>2 DEF Notice, Noticed
  <2>2. OrgTypeOK'
    BY <1>2, <2>1 DEF Notice
  <2>3. Flags' /\ FormsKept' /\ PageFollows'
    BY <1>2 DEF Notice, Flags, FormsKept, PageFollows, Coming
  <2>4. HeaderFollows'
    BY <2>1 DEF HeaderFollows
  <2>5. Updating => Updating'
    BY <2>1 DEF Updating
  <2>6. \A d \in sessionCalls' : d.kind \in Updates => d \in sessionCalls
    BY <2>1
  <2>7. ChoiceFollows'
    BY <1>2, <2>5, <2>6 DEF Notice, ChoiceFollows
  <2> QED BY <2>2, <2>3, <2>4, <2>7
<1> QED BY <1>1, <1>2

LEMMA ElsewhereSteps ==
  ASSUME ViewsInv, ReadSession \/ (\E o \in Orgs : OtherTab(o) \/ Removed(o))
  PROVE  ViewsInv'
<1> USE DEF ViewsInv, OrgTypeOK, Updates
<1>1. CASE ReadSession
  <2> DEFINE read == [kind |-> "read", org |-> cookie]
  <2>1. sessionCalls' = sessionCalls \cup {read} /\ read.kind = "read" /\ seen' = [seen EXCEPT !.reads = @ + 1]
    BY <1>1 DEF ReadSession
  <2>2. seen.reads + 1 \in Nat
    BY DEF Flags
  <2>3. Flags' /\ seen'.lost = seen.lost /\ seen'.astray = seen.astray
    BY <2>1, <2>2 DEF Flags
  <2>4. OrgTypeOK'
    BY <1>1, <2>1 DEF ReadSession
  <2>5. FormsKept' /\ PageFollows' /\ HeaderFollows'
    BY <1>1, <2>3 DEF ReadSession, FormsKept, PageFollows, Coming, HeaderFollows
  <2>6. Updating => Updating'
    BY <2>1 DEF Updating
  <2>7. \A d \in sessionCalls' : d.kind \in Updates => d \in sessionCalls
    BY <2>1
  <2>8. ChoiceFollows'
    BY <1>1, <2>3, <2>6, <2>7 DEF ReadSession, ChoiceFollows
  <2> QED BY <2>3, <2>4, <2>5, <2>8
<1>2. CASE \E o \in Orgs : OtherTab(o)
  <2>1. PICK o \in Orgs : OtherTab(o)
    BY <1>2
  <2> DEFINE notice == [kind |-> "notice", org |-> NoOrg]
  <2>2. sessionCalls' = sessionCalls \cup {notice} /\ notice.kind = "notice"
    BY <2>1 DEF OtherTab
  <2>3. seen' = [seen EXCEPT !.others = @ + 1, !.astray = TRUE, !.lost = TRUE]
    BY <2>1 DEF OtherTab
  <2>4. seen.others + 1 \in Nat
    BY DEF Flags
  <2>5. Flags' /\ seen'.lost /\ seen'.astray
    BY <2>3, <2>4 DEF Flags
  <2>6. OrgTypeOK'
    BY <2>1, <2>2 DEF OtherTab
  <2>7. FormsKept' /\ PageFollows' /\ ChoiceFollows'
    BY <2>1, <2>5 DEF OtherTab, FormsKept, PageFollows, ChoiceFollows
  <2>8. HeaderFollows'
    BY <2>2 DEF HeaderFollows
  <2> QED BY <2>5, <2>6, <2>7, <2>8
<1>3. CASE \E o \in Orgs : Removed(o)
  <2>1. PICK o \in Orgs : Removed(o)
    BY <1>3
  <2>2. seen' = [seen EXCEPT !.others = @ + 1] /\ seen.others + 1 \in Nat
    BY <2>1 DEF Removed, Flags
  <2>3. Flags' /\ seen'.lost = seen.lost /\ seen'.astray = seen.astray
    BY <2>2 DEF Flags
  <2>4. OrgTypeOK'
    BY <2>1 DEF Removed
  <2>5. FormsKept' /\ PageFollows' /\ HeaderFollows'
    BY <2>1, <2>3 DEF Removed, FormsKept, PageFollows, Coming, HeaderFollows
  <2>6. ChoiceFollows'
    BY <2>1, <2>3 DEF Removed, ChoiceFollows, Updating
  <2> QED BY <2>3, <2>4, <2>5, <2>6
<1> QED BY <1>1, <1>2, <1>3

LEMMA PageSteps ==
  ASSUME ViewsInv, RefreshSent \/ PageArrives \/ AuditPolls
  PROVE  ViewsInv'
<1> USE DEF ViewsInv, OrgTypeOK
<1>1. CASE RefreshSent
  <2>1. pageRefresh' = [asked |-> FALSE, sent |-> TRUE, org |-> cookie] /\ seen' = [seen EXCEPT !.astray = FALSE]
    BY <1>1 DEF RefreshSent
  <2>2. Flags' /\ seen'.lost = seen.lost
    BY <2>1 DEF Flags
  <2>3. OrgTypeOK' /\ FormsKept' /\ HeaderFollows'
    BY <1>1 DEF RefreshSent, FormsKept, HeaderFollows
  <2>4. PageFollows'
    BY <1>1, <2>1 DEF RefreshSent, PageFollows, Coming
  <2>5. ChoiceFollows'
    BY <1>1, <2>2 DEF RefreshSent, ChoiceFollows, Updating
  <2> QED BY <2>2, <2>3, <2>4, <2>5
<1>2. CASE PageArrives
  <2>1. page' = Rendered(pageRefresh.org) /\ pageRefresh' = [asked |-> pageRefresh.asked, sent |-> FALSE, org |-> NoOrg]
    BY <1>2 DEF PageArrives, Waiting, Idle
  <2>2. page' \in [org : Orgs \cup {NoOrg}, source : {"backend", "fallback"}] /\ page'.org = pageRefresh.org
    BY <2>1, RenderedType
  <2>7. (busy /\ pageRefresh.asked) \in BOOLEAN /\ (picking /\ busy') \in BOOLEAN
    OBVIOUS
  <2>3. OrgTypeOK'
    BY <1>2, <2>1, <2>2, <2>7 DEF PageArrives
  <2>4. Flags' /\ FormsKept' /\ HeaderFollows'
    BY <1>2 DEF PageArrives, Flags, FormsKept, HeaderFollows
  <2>5. PageFollows'
    <3>1. pageRefresh.sent /\ UNCHANGED <<seen, cookie>>
      BY <1>2 DEF PageArrives
    <3>2. Coming = pageRefresh.org /\ Coming' = pageRefresh.org
      BY <2>1, <2>2, <3>1 DEF Coming
    <3>3. ~pageRefresh'.sent /\ pageRefresh'.org = NoOrg /\ pageRefresh'.asked = pageRefresh.asked
      BY <2>1
    <3> QED BY <3>1, <3>2, <3>3 DEF PageFollows
  <2>6. ChoiceFollows'
    BY <1>2 DEF PageArrives, ChoiceFollows, Updating
  <2> QED BY <2>3, <2>4, <2>5, <2>6
<1>3. CASE AuditPolls
  <2>1. pageRefresh' = [pageRefresh EXCEPT !.asked = TRUE]
    BY <1>3 DEF AuditPolls, Polled, RefreshAsked
  <2>2. OrgTypeOK'
    BY <1>3, <2>1 DEF AuditPolls
  <2>5. Flags' /\ FormsKept' /\ HeaderFollows'
    BY <1>3, <2>1 DEF AuditPolls, Flags, FormsKept, HeaderFollows
  <2>3. PageFollows'
    BY <1>3, <2>1 DEF AuditPolls, PageFollows, Coming
  <2>4. ChoiceFollows'
    BY <1>3 DEF AuditPolls, ChoiceFollows, Updating
  <2> QED BY <2>2, <2>3, <2>4, <2>5
<1> QED BY <1>1, <1>2, <1>3

LEMMA FormSteps ==
  ASSUME ViewsInv, (\E purpose \in {"free", "bound"} : Submit(purpose)) \/ (\E w \in writes : Answered(w))
  PROVE  ViewsInv'
<1> USE DEF ViewsInv, OrgTypeOK
<1>1. CASE \E purpose \in {"free", "bound"} : Submit(purpose)
  <2>1. PICK purpose \in {"free", "bound"} : Submit(purpose)
    BY <1>1
  <2> DEFINE w == Form(purpose)
  <2>2. writes' = writes \cup {w} /\ seen' = [seen EXCEPT !.writes = @ + 1]
    BY <2>1 DEF Submit
  <2>3. PageMayChange \in BOOLEAN
    BY DEF PageMayChange, Flags
  <2>4. w \in [kind : {"free", "bound"}, to : Orgs \cup {NoOrg}, shown : Orgs \cup {NoOrg}, crossed : BOOLEAN]
    BY <2>3 DEF Form
  <2>5. w.to = cookie /\ w.shown = page.org /\ w.crossed = PageMayChange
    BY DEF Form
  <2>6. ~PageMayChange => page.org = cookie
    BY DEF PageMayChange, PageFollows, Coming, Idle
  <2>7. FormsKept'
    BY <2>1, <2>2, <2>5, <2>6 DEF Submit, FormsKept
  <2>8. seen.writes + 1 \in Nat
    BY DEF Flags
  <2>9. Flags' /\ seen'.lost = seen.lost /\ seen'.astray = seen.astray
    BY <2>2, <2>8 DEF Flags
  <2>10. OrgTypeOK'
    BY <2>1, <2>2, <2>4 DEF Submit
  <2>11. PageFollows' /\ HeaderFollows'
    BY <2>1, <2>9 DEF Submit, PageFollows, Coming, HeaderFollows
  <2>12. ChoiceFollows'
    BY <2>1, <2>9 DEF Submit, ChoiceFollows, Updating
  <2> QED BY <2>7, <2>9, <2>10, <2>11, <2>12
<1>2. CASE \E w \in writes : Answered(w)
  <2>1. PICK w \in writes : Answered(w)
    BY <1>2
  <2>2. pageRefresh' = pageRefresh \/ pageRefresh' = [pageRefresh EXCEPT !.asked = TRUE]
    BY <2>1 DEF Answered, RefreshAsked
  <2>3. writes' \cup made' \subseteq writes \cup made
    BY <2>1 DEF Answered
  <2>4. pageRefresh' \in [asked : BOOLEAN, sent : BOOLEAN, org : Orgs \cup {NoOrg}]
    BY <2>2
  <2>5. OrgTypeOK'
    BY <2>1, <2>3, <2>4 DEF Answered
  <2>6. Flags' /\ HeaderFollows'
    BY <2>1 DEF Answered, Flags, HeaderFollows
  <2>7. PageFollows'
    BY <2>1, <2>2 DEF Answered, PageFollows, Coming
  <2>8. ChoiceFollows'
    BY <2>1 DEF Answered, ChoiceFollows, Updating
  <2>9. FormsKept'
    BY <2>1 DEF Answered, Allowed, FormsKept
  <2> QED BY <2>5, <2>6, <2>7, <2>8, <2>9
<1> QED BY <1>1, <1>2

LEMMA StepIInv == ViewsInv /\ [OrgNext]_ovars => ViewsInv'
<1> SUFFICES ASSUME ViewsInv, [OrgNext]_ovars PROVE ViewsInv'
  OBVIOUS
<1>1. CASE \E o \in Orgs : SwitchOrg(o) \/ \E how \in {"created", "joined"} : EnterOrg(o, how)
  BY <1>1, ChoosingSteps
<1>2. CASE SessionAnswers
  BY <1>2, UpdateEnds, SessionSteps DEF SessionAnswers
<1>3. CASE ReadSession \/ \E o \in Orgs : OtherTab(o) \/ Removed(o)
  BY <1>3, ElsewhereSteps
<1>4. CASE RefreshSent \/ PageArrives \/ AuditPolls
  BY <1>4, PageSteps
<1>5. CASE (\E purpose \in {"free", "bound"} : Submit(purpose)) \/ \E w \in writes : Answered(w)
  BY <1>5, FormSteps
<1>6. CASE UNCHANGED ovars
  BY <1>6 DEF ovars, ViewsInv, OrgTypeOK, Flags, PageFollows, Coming, HeaderFollows, ChoiceFollows, Updating, FormsKept
<1> QED BY <1>1, <1>2, <1>3, <1>4, <1>5, <1>6 DEF OrgNext

LEMMA ScreenStays == OrgNext => screen' = screen
<1> SUFFICES ASSUME OrgNext PROVE screen' = screen
  OBVIOUS
<1>1. CASE \E o \in Orgs : SwitchOrg(o) \/ OtherTab(o) \/ Removed(o) \/ \E how \in {"created", "joined"} : EnterOrg(o, how)
  BY <1>1 DEF SwitchOrg, OtherTab, Removed, EnterOrg
<1>2. CASE ReadSession \/ SessionAnswers
  BY <1>2 DEF ReadSession, SessionAnswers, UpdateAnswered, UpdateFails, SessionRead, Notice
<1>3. CASE RefreshSent \/ PageArrives \/ AuditPolls
  BY <1>3 DEF RefreshSent, PageArrives, AuditPolls
<1>4. CASE (\E purpose \in {"free", "bound"} : Submit(purpose)) \/ \E w \in writes : Answered(w)
  BY <1>4 DEF Submit, Answered
<1> QED BY <1>1, <1>2, <1>3, <1>4 DEF OrgNext

(***************************************************************************)
(* Sequences of questions.                                                 *)
(***************************************************************************)
OrgOrNone == Orgs \cup {NoOrg}
Askable == Subjects \cup {Blank, NoOrg} \cup Openings
Questions == [n : 1..MaxAsks, subject : Askable, org : OrgOrNone, version : 0..MaxVersion]
Answers == [n : 0..MaxAsks, subject : Askable, org : OrgOrNone, version : Nat]

\* Taking the i-th element out of a sequence moves the later ones up.
LEMMA RemoveAtProperties ==
  ASSUME NEW S, NEW s \in Seq(S), NEW i \in 1..Len(s)
  PROVE  /\ RemoveAt(s, i) \in Seq(S) /\ Len(RemoveAt(s, i)) = Len(s) - 1
         /\ \A j \in 1..Len(s) - 1 : RemoveAt(s, i)[j] = IF j < i THEN s[j] ELSE s[j + 1]
<1> DEFINE a == SubSeq(s, 1, i - 1)  b == SubSeq(s, i + 1, Len(s))
<1>0. Len(s) \in Nat /\ \A j \in 1..Len(s) : s[j] \in S
  BY LenProperties, ElementOfSeq
<1>1. /\ a \in Seq(S) /\ Len(a) = i - 1
      /\ \A j \in 1..i - 1 : a[j] = s[j]
  <2>1. /\ a \in Seq(S) /\ Len(a) = IF 1 <= i - 1 THEN (i - 1) - 1 + 1 ELSE 0
        /\ \A j \in 1..(i - 1) - 1 + 1 : a[j] = s[1 + j - 1]
    BY <1>0, SubSeqProperties
  <2> HIDE DEF a
  <2> QED BY <2>1, <1>0
<1>2. /\ b \in Seq(S) /\ Len(b) = Len(s) - i
      /\ \A j \in 1..Len(s) - i : b[j] = s[i + j]
  <2>1. /\ b \in Seq(S) /\ Len(b) = IF i + 1 <= Len(s) THEN Len(s) - (i + 1) + 1 ELSE 0
        /\ \A j \in 1..Len(s) - (i + 1) + 1 : b[j] = s[(i + 1) + j - 1]
    BY <1>0, SubSeqProperties
  <2> HIDE DEF b
  <2> QED BY <2>1, <1>0
<1>3. RemoveAt(s, i) = a \o b
  BY DEF RemoveAt
<1> HIDE DEF a, b
<1>4. /\ a \o b \in Seq(S) /\ Len(a \o b) = Len(s) - 1
      /\ \A j \in 1..Len(s) - 1 : (a \o b)[j] = IF j <= i - 1 THEN a[j] ELSE b[j - (i - 1)]
  <2>1. /\ a \o b \in Seq(S) /\ Len(a \o b) = Len(a) + Len(b)
        /\ \A j \in 1..Len(a) + Len(b) : (a \o b)[j] = IF j <= Len(a) THEN a[j] ELSE b[j - Len(a)]
    BY <1>1, <1>2, ConcatProperties
  <2>2. Len(a) = i - 1 /\ Len(a) + Len(b) = Len(s) - 1
    BY <1>0, <1>1, <1>2
  <2> QED BY <2>1, <2>2
<1>5. ASSUME NEW j \in 1..Len(s) - 1
      PROVE  (a \o b)[j] = IF j < i THEN s[j] ELSE s[j + 1]
  <2>1. CASE j < i
    BY <2>1, <1>0, <1>1, <1>4
  <2>2. CASE ~ (j < i)
    <3>1. j - (i - 1) \in 1..Len(s) - i /\ i + (j - (i - 1)) = j + 1
      BY <2>2, <1>0
    <3>2. ~ (j <= i - 1)
      BY <2>2, <1>0
    <3>3. (a \o b)[j] = b[j - (i - 1)]
      BY <3>2, <1>4
    <3> QED BY <3>1, <3>3, <1>2, <2>2
  <2> QED BY <2>1, <2>2
<1> QED BY <1>3, <1>4, <1>5

\* What is left when the i-th is answered: all others, and nothing new.
LEMMA OthersStayOut ==
  ASSUME NEW S, NEW s \in Seq(S), NEW i \in 1..Len(s)
  PROVE  /\ RemoveAt(s, i) \in Seq(S) /\ Len(RemoveAt(s, i)) = Len(s) - 1
         /\ \A j \in 1..Len(RemoveAt(s, i)) : \E k \in 1..Len(s) : k # i /\ RemoveAt(s, i)[j] = s[k]
         /\ \A k \in 1..Len(s) : k # i => \E j \in 1..Len(RemoveAt(s, i)) : RemoveAt(s, i)[j] = s[k]
<1> DEFINE r == RemoveAt(s, i)
<1>1. /\ r \in Seq(S) /\ Len(r) = Len(s) - 1 /\ Len(s) \in Nat
      /\ \A j \in 1..Len(s) - 1 : r[j] = IF j < i THEN s[j] ELSE s[j + 1]
  BY RemoveAtProperties, LenProperties
<1> HIDE DEF r
<1>2. ASSUME NEW j \in 1..Len(r) PROVE \E k \in 1..Len(s) : k # i /\ r[j] = s[k]
  <2>1. CASE j < i
    BY <2>1, <1>1
  <2>2. CASE ~ (j < i)
    <3> j + 1 \in 1..Len(s) /\ j + 1 # i /\ r[j] = s[j + 1]
      BY <2>2, <1>1
    <3> QED OBVIOUS
  <2> QED BY <2>1, <2>2
<1>3. ASSUME NEW k \in 1..Len(s), k # i PROVE \E j \in 1..Len(r) : r[j] = s[k]
  <2>1. CASE k < i
    BY <2>1, <1>1
  <2>2. CASE ~ (k < i)
    <3>1. k - 1 \in 1..Len(r) /\ ~ (k - 1 < i) /\ (k - 1) + 1 = k
      BY <2>2, <1>1, <1>3
    <3>2. r[k - 1] = s[k]
      BY <3>1, <1>1
    <3> QED BY <3>1, <3>2
  <2> QED BY <2>1, <2>2
<1> QED BY <1>1, <1>2, <1>3 DEF r

(***************************************************************************)
(* The invariant.                                                          *)
(***************************************************************************)
Counts ==
    /\ passed \in [lapsed : BOOLEAN, lost : Nat]
    /\ screen # "charts" => \A i \in 1..Len(out) : out[i].n <= asks

\* Of a view that matches no answer: the last question is of the subject, and, unless it was
\* answered or cleared before an earlier one, it is out or what is shown answers it.
Latest ==
    screen \in {"panel", "search", "notices"} /\ ~passed.lapsed /\ ~due =>
        /\ \A i \in 1..Len(out) : out[i].n = asks => out[i].subject = subject
        /\ \/ \E i \in 1..Len(out) : out[i].n = asks
           \/ shown # Nothing => shown.subject = subject

\* The tester's lock.
OneTest ==
    screen = "tester" =>
        /\ ~loading => out = <<>>
        /\ Len(out) <= 1 /\ \A i \in 1..Len(out) : out[i].n = asks
        /\ shown # Nothing => shown.n = asks

QInv == ViewsTypeOK /\ Counts /\ Latest /\ OneTest

LEMMA TypesOfQuestions ==
  ASSUME ViewsTypeOK
  PROVE  /\ open \in BOOLEAN /\ due \in BOOLEAN /\ loading \in BOOLEAN
         /\ subject \in Askable /\ asks \in 0..MaxAsks /\ version \in 0..MaxVersion
         /\ out \in Seq(Questions) /\ cookie \in OrgOrNone
         /\ shown \in [n : 0..MaxAsks, subject : Askable, org : OrgOrNone, version : 0..version]
  BY DEF ViewsTypeOK, Askable, OrgOrNone, Questions, OrgTypeOK

LEMMA QuestionType ==
  ASSUME ViewsTypeOK, asks < MaxAsks, NEW s \in Askable
  PROVE  Question(s) \in Questions /\ Question(s).n = asks + 1 /\ Question(s).subject = s
<1>1. asks + 1 \in 1..MaxAsks
  BY TypesOfQuestions, QueryViewsAssumption
<1>2. cookie \in OrgOrNone /\ version \in 0..MaxVersion
  BY TypesOfQuestions
<1> QED BY <1>1, <1>2 DEF Question, Questions

\* A question is asked last, and is the latest.
LEMMA AskStep ==
  ASSUME QInv, screen # "charts", asks < MaxAsks, NEW s \in Askable, Ask(s)
  PROVE  /\ out' \in Seq(Questions) /\ Len(out') = Len(out) + 1 /\ Len(out) \in Nat
         /\ asks' = asks + 1 /\ asks' \in 0..MaxAsks
         /\ passed' \in [lapsed : BOOLEAN, lost : Nat]
         /\ out'[Len(out')].n = asks' /\ out'[Len(out')].subject = s
         /\ \A i \in 1..Len(out') : out'[i].n <= asks' /\ (out'[i].n = asks' => i = Len(out'))
<1> DEFINE q == Question(s)
<1>1. q \in Questions /\ q.n = asks + 1 /\ q.subject = s
  BY QuestionType DEF QInv
<1>2. out \in Seq(Questions) /\ asks \in 0..MaxAsks /\ out' = Append(out, q) /\ asks' = asks + 1
  BY TypesOfQuestions DEF QInv, Ask
<1>3. \A i \in 1..Len(out) : out[i].n <= asks /\ out[i].n \in 1..MaxAsks
  <2>1. \A i \in 1..Len(out) : out[i] \in Questions
    BY <1>2, ElementOfSeq
  <2>2. \A i \in 1..Len(out) : out[i].n \in 1..MaxAsks
    BY <2>1 DEF Questions
  <2> QED BY <2>2 DEF QInv, Counts
<1>4. passed' \in [lapsed : BOOLEAN, lost : Nat]
  BY DEF QInv, Counts, Ask
<1> HIDE DEF q
<1>5. /\ Append(out, q) \in Seq(Questions) /\ Len(Append(out, q)) = Len(out) + 1 /\ Len(out) \in Nat
      /\ \A i \in 1..Len(out) : Append(out, q)[i] = out[i]
      /\ Append(out, q)[Len(out) + 1] = q
  BY <1>1, <1>2, AppendProperties, LenProperties
<1>6. ASSUME NEW i \in 1..Len(out')
      PROVE  out'[i].n <= asks' /\ (out'[i].n = asks' => i = Len(out'))
  <2>1. CASE i \in 1..Len(out)
    <3>1. out'[i] = out[i] /\ out[i].n <= asks /\ out[i].n \in 1..MaxAsks
      BY <2>1, <1>2, <1>3, <1>5
    <3> QED BY <3>1, <1>2, QueryViewsAssumption
  <2>2. CASE i = Len(out) + 1
    BY <2>2, <1>1, <1>2, <1>5
  <2> QED BY <2>1, <2>2, <1>2, <1>5
<1>7. asks' \in 0..MaxAsks
  BY <1>2, QueryViewsAssumption
<1> QED BY <1>1, <1>2, <1>4, <1>5, <1>6, <1>7

LEMMA TypedAgain ==
  ASSUME QInv, UNCHANGED ovars, open' \in BOOLEAN, due' \in BOOLEAN, loading' \in BOOLEAN,
         subject' \in Askable, asks' \in 0..MaxAsks, version' \in 0..MaxVersion,
         out' \in Seq(Questions),
         shown' \in [n : 0..MaxAsks, subject : Askable, org : OrgOrNone, version : 0..version']
  PROVE  ViewsTypeOK'
<1>1. OrgTypeOK'
  BY DEF QInv, ViewsTypeOK, OrgTypeOK, ovars, Updates
<1> QED BY <1>1 DEF ViewsTypeOK, Askable, OrgOrNone, Questions

LEMMA Membership ==
  ASSUME NEW S, NEW x
  PROVE  (x \in S) \in BOOLEAN
  OBVIOUS

LEMMA InitQInv == ViewsInit => QInv
<1> SUFFICES ASSUME ViewsInit PROVE QInv
  OBVIOUS
<1> USE DEF ViewsInit
<1>1. OrgTypeOK
  BY InitViewsInv DEF ViewsInv
<1>2. shown \in [n : 0..MaxAsks, subject : Askable, org : OrgOrNone, version : 0..version]
  BY <1>1, QueryViewsAssumption DEF Nothing, Askable, OrgOrNone, OrgTypeOK
<1>3. subject \in Askable
  BY DEF Askable
<1>4. ViewsTypeOK
  <2>1. asks \in 0..MaxAsks /\ version \in 0..MaxVersion
    BY QueryViewsAssumption
  <2>2. out \in Seq(Questions)
    BY EmptySeq
  <2>3. due \in BOOLEAN /\ loading \in BOOLEAN
    OBVIOUS
  <2>4. open \in BOOLEAN
    BY Membership
  <2> QED BY <1>1, <1>2, <1>3, <2>1, <2>2, <2>3, <2>4 DEF ViewsTypeOK, Askable, OrgOrNone, Questions
<1>5. Counts
  BY DEF Counts
<1>6. Latest /\ OneTest
  BY DEF Latest, OneTest
<1> QED BY <1>4, <1>5, <1>6 DEF QInv

\* A step of the organisation leaves the view as it is.
LEMMA OrgStep ==
  ASSUME QInv, OrgTypeOK', screen' = screen, UNCHANGED qvars
  PROVE  QInv'
<1> USE DEF QInv, qvars
<1>1. ViewsTypeOK'
  BY DEF ViewsTypeOK
<1>2. Counts' /\ Latest' /\ OneTest'
  BY DEF Counts, Latest, OneTest
<1> QED BY <1>1, <1>2

\* Asking for what the view is to show.
LEMMA AskedFor ==
  ASSUME QInv, UNCHANGED <<ovars, version>>, screen # "charts", asks < MaxAsks,
         Ask(subject'), subject' \in Askable, shown' \in {shown, Nothing},
         open' \in BOOLEAN, due' \in BOOLEAN, loading' \in BOOLEAN, OneTest'
  PROVE  QInv'
<1>1. screen' = screen
  BY DEF ovars
<1>2. /\ version \in 0..MaxVersion
      /\ shown \in [n : 0..MaxAsks, subject : Askable, org : OrgOrNone, version : 0..version]
  BY TypesOfQuestions DEF QInv
<1>3. shown' \in [n : 0..MaxAsks, subject : Askable, org : OrgOrNone, version : 0..version']
  BY <1>2, QueryViewsAssumption DEF Nothing, Askable, OrgOrNone
<1>4. /\ out' \in Seq(Questions) /\ Len(out') = Len(out) + 1 /\ Len(out) \in Nat
      /\ asks' = asks + 1 /\ asks' \in 0..MaxAsks
      /\ passed' \in [lapsed : BOOLEAN, lost : Nat]
      /\ out'[Len(out')].n = asks' /\ out'[Len(out')].subject = subject'
      /\ \A i \in 1..Len(out') : out'[i].n <= asks' /\ (out'[i].n = asks' => i = Len(out'))
  BY AskStep
<1>5. ViewsTypeOK'
  BY <1>2, <1>3, <1>4, TypedAgain
<1>6. Counts' /\ Latest'
  <2>1. Len(out') \in 1..Len(out')
    BY <1>4
  <2> QED BY <1>1, <1>4, <2>1 DEF Counts, Latest
<1> QED BY <1>5, <1>6 DEF QInv

LEMMA AskingSteps ==
  ASSUME QInv, MountPanel \/ (\E s \in Subjects : TurnPanel(s)) \/ OpenNotices \/ Test
  PROVE  QInv'
<1> USE DEF Askable, ovars
<1>0. /\ open \in BOOLEAN /\ due \in BOOLEAN /\ loading \in BOOLEAN
      /\ subject \in Askable /\ asks \in 0..MaxAsks
  BY TypesOfQuestions DEF QInv
<1>1. CASE MountPanel
  BY <1>0, <1>1, AskedFor DEF MountPanel, OneTest
<1>2. ASSUME NEW s \in Subjects, TurnPanel(s) PROVE QInv'
  BY <1>0, <1>2, AskedFor DEF TurnPanel, OneTest
<1>3. CASE OpenNotices
  <2>1. asks + 1 \in Askable
    BY <1>0, <1>3, QueryViewsAssumption DEF OpenNotices, Openings
  <2> QED BY <1>0, <1>3, <2>1, AskedFor DEF OpenNotices, OneTest
<1>4. CASE Test
  <2>1. out = <<>> /\ loading' /\ shown' = Nothing /\ screen = "tester" /\ screen' = screen /\ subject' = subject
    BY <1>4 DEF Test, Unlocked, QInv, OneTest
  <2>2. /\ Len(out') = Len(out) + 1 /\ out'[Len(out')].n = asks'
    BY <1>0, <1>4, AskStep DEF Test
  <2>3. OneTest'
    BY <2>1, <2>2 DEF OneTest
  <2> QED BY <1>0, <1>4, <2>3, AskedFor DEF Test
<1> QED BY <1>1, <1>2, <1>3, <1>4

\* What the search and the panels do between their questions.
LEMMA QuietSteps ==
  ASSUME QInv,
         \/ UnmountPanel \/ OpenSearch \/ CloseSearch \/ (\E s \in Subjects : PickRoute(s))
         \/ (\E s \in Subjects \cup {Blank} : Type(s))
         \/ (\E how \in {"bell", "outside"} : CloseNotices(how)) \/ ToggleTester \/ Changes
  PROVE  QInv'
<1> USE DEF Askable
<1>0. /\ open \in BOOLEAN /\ due \in BOOLEAN /\ loading \in BOOLEAN
      /\ subject \in Askable /\ asks \in 0..MaxAsks /\ version \in 0..MaxVersion
      /\ out \in Seq(Questions) /\ passed \in [lapsed : BOOLEAN, lost : Nat]
      /\ shown \in [n : 0..MaxAsks, subject : Askable, org : OrgOrNone, version : 0..version]
  BY TypesOfQuestions DEF QInv, Counts
<1>1. Nothing \in [n : 0..MaxAsks, subject : Askable, org : OrgOrNone, version : 0..version]
  BY <1>0, QueryViewsAssumption DEF Nothing, OrgOrNone
<1> HIDE DEF Askable
<1>2. <<>> \in Seq(Questions) /\ Len(<<>>) = 0
  BY EmptySeq
<1>3. CASE UnmountPanel
  <2>1. ViewsTypeOK'
    BY <1>0, <1>1, <1>2, <1>3, TypedAgain DEF UnmountPanel
  <2>2. Counts' /\ Latest' /\ OneTest'
    BY <1>2, <1>3 DEF UnmountPanel, QInv, Counts, Latest, OneTest, ovars
  <2> QED BY <2>1, <2>2 DEF QInv
<1>4. CASE OpenSearch \/ \E how \in {"bell", "outside"} : CloseNotices(how)
  <2>1. ViewsTypeOK'
    BY <1>0, <1>4, TypedAgain DEF OpenSearch, CloseNotices
  <2>2. Counts' /\ Latest' /\ OneTest'
    BY <1>4 DEF OpenSearch, CloseNotices, QInv, Counts, Latest, OneTest, ovars
  <2> QED BY <2>1, <2>2 DEF QInv
<1>5. CASE CloseSearch
  <2>0. Blank \in Askable
    BY DEF Askable
  <2>1. ViewsTypeOK'
    BY <1>0, <1>1, <1>5, <2>0, TypedAgain DEF CloseSearch
  <2>2. Counts' /\ OneTest'
    BY <1>0, <1>5 DEF CloseSearch, Cleared, QInv, Counts, OneTest, ovars
  <2>3. Latest'
    <3>1. passed' = [passed EXCEPT !.lapsed = @ \/ out # <<>>] /\ shown' = Nothing /\ out' = out
      BY <1>5 DEF CloseSearch, Cleared
    <3>2. passed'.lapsed \/ out = <<>>
      BY <3>1, <1>0
    <3>3. CASE out = <<>>
      <4>1. \A i \in 1..Len(out') : FALSE
        BY <3>1, <3>3, <1>2
      <4> QED BY <4>1, <3>1 DEF Latest
    <3> QED BY <3>2, <3>3 DEF Latest
  <2> QED BY <2>1, <2>2, <2>3 DEF QInv
<1>6. ASSUME NEW s \in Subjects \cup {Blank}, PickRoute(s) \/ Type(s) PROVE QInv'
  <2>0. s \in Askable
    BY DEF Askable
  <2>1. ViewsTypeOK'
    BY <1>0, <1>6, <2>0, TypedAgain DEF PickRoute, Type
  <2>2. Counts' /\ Latest' /\ OneTest'
    BY <1>6 DEF PickRoute, Type, QInv, Counts, Latest, OneTest, ovars
  <2> QED BY <2>1, <2>2 DEF QInv
<1>7. CASE ToggleTester
  <2>1. ViewsTypeOK'
    BY <1>0, <1>1, <1>7, TypedAgain DEF ToggleTester
  <2>2. Counts' /\ Latest' /\ OneTest'
    BY <1>7 DEF ToggleTester, QInv, Counts, Latest, OneTest, ovars
  <2> QED BY <2>1, <2>2 DEF QInv
<1>8. CASE Changes
  <2>1. version + 1 \in 0..MaxVersion /\ 0..version \subseteq 0..version + 1
    BY <1>0, <1>8, QueryViewsAssumption DEF Changes
  <2>2. shown' \in [n : 0..MaxAsks, subject : Askable, org : OrgOrNone, version : 0..version']
    BY <1>0, <1>8, <2>1 DEF Changes
  <2>3. ViewsTypeOK'
    BY <1>0, <1>8, <2>1, <2>2, TypedAgain DEF Changes
  <2>4. Counts' /\ Latest' /\ OneTest'
    BY <1>8 DEF Changes, QInv, Counts, Latest, OneTest, ovars
  <2> QED BY <2>3, <2>4 DEF QInv
<1> QED BY <1>3, <1>4, <1>5, <1>6, <1>7, <1>8

LEMMA ViewSearchStep ==
  ASSUME QInv, SearchFires
  PROVE  QInv'
<1>0. /\ open \in BOOLEAN /\ due \in BOOLEAN /\ loading \in BOOLEAN
      /\ subject \in Askable /\ asks \in 0..MaxAsks /\ version \in 0..MaxVersion
      /\ out \in Seq(Questions) /\ passed \in [lapsed : BOOLEAN, lost : Nat]
      /\ shown \in [n : 0..MaxAsks, subject : Askable, org : OrgOrNone, version : 0..version]
  BY TypesOfQuestions DEF QInv, Counts
<1>1. Nothing \in [n : 0..MaxAsks, subject : Askable, org : OrgOrNone, version : 0..version]
  BY <1>0, QueryViewsAssumption DEF Nothing, OrgOrNone, Askable
<1>2. screen = "search" /\ screen' = screen /\ subject' = subject /\ due' = FALSE /\ open' = open
      /\ version' = version /\ UNCHANGED ovars
  BY DEF SearchFires, ovars
<1>3. CASE subject = Blank
  <2>1. shown' = Nothing /\ passed' = [passed EXCEPT !.lapsed = @ \/ out # <<>>]
        /\ loading' = loading /\ asks' = asks /\ out' = out
    BY <1>3 DEF SearchFires, AfterBlank, Cleared
  <2>2. ViewsTypeOK'
    BY <1>0, <1>1, <1>2, <2>1, TypedAgain
  <2>3. Counts' /\ OneTest'
    BY <1>0, <1>2, <2>1 DEF QInv, Counts, OneTest
  <2>4. passed'.lapsed \/ out = <<>>
    BY <1>0, <2>1
  <2>5. out = <<>> => \A i \in 1..Len(out') : FALSE
    BY <2>1, EmptySeq
  <2>6. Latest'
    BY <2>1, <2>4, <2>5 DEF Latest
  <2> QED BY <2>2, <2>3, <2>6 DEF QInv
<1>4. CASE subject # Blank
  BY <1>0, <1>2, <1>4, AskedFor DEF SearchFires, OneTest
<1> QED BY <1>3, <1>4

LEMMA PollStep ==
  ASSUME QInv, ChartsPoll
  PROVE  QInv'
<1> DEFINE q == [Question(subject) EXCEPT !.n = 1]
<1>0. /\ open \in BOOLEAN /\ due \in BOOLEAN /\ loading \in BOOLEAN
      /\ subject \in Askable /\ asks \in 0..MaxAsks /\ version \in 0..MaxVersion
      /\ out \in Seq(Questions) /\ cookie \in OrgOrNone
      /\ shown \in [n : 0..MaxAsks, subject : Askable, org : OrgOrNone, version : 0..version]
  BY TypesOfQuestions DEF QInv
<1>1. q \in Questions
  <2>1. q = [n |-> 1, subject |-> subject, org |-> cookie, version |-> version]
    BY DEF Question
  <2> HIDE DEF q
  <2> QED BY <1>0, <2>1, QueryViewsAssumption DEF Questions
<1>2. out' = Append(out, q) /\ screen = "charts" /\ screen' = screen
  BY DEF ChartsPoll, ovars
<1> HIDE DEF q
<1>3. out' \in Seq(Questions)
  BY <1>0, <1>1, <1>2, AppendProperties
<1>4. ViewsTypeOK'
  BY <1>0, <1>3, TypedAgain DEF ChartsPoll
<1>5. Counts' /\ Latest' /\ OneTest'
  BY <1>2 DEF ChartsPoll, QInv, Counts, Latest, OneTest
<1> QED BY <1>4, <1>5 DEF QInv

\* An answer is to the last question, or the last question stays out or had its answer.
LEMMA AnswerSteps ==
  ASSUME QInv, NEW i \in 1..Len(out), Answer(i) \/ AnswerLost(i)
  PROVE  QInv'
<1>0. /\ open \in BOOLEAN /\ due \in BOOLEAN /\ loading \in BOOLEAN
      /\ subject \in Askable /\ asks \in 0..MaxAsks /\ version \in 0..MaxVersion
      /\ out \in Seq(Questions) /\ passed \in [lapsed : BOOLEAN, lost : Nat]
      /\ shown \in [n : 0..MaxAsks, subject : Askable, org : OrgOrNone, version : 0..version]
  BY TypesOfQuestions DEF QInv, Counts
<1>1. /\ out' = RemoveAt(out, i) /\ loading' = FALSE /\ UNCHANGED <<open, subject, due, asks, version>>
      /\ UNCHANGED ovars /\ screen' = screen
  BY DEF Answer, AnswerLost, ovars
<1>2. /\ out' \in Seq(Questions) /\ Len(out') = Len(out) - 1
      /\ \A j \in 1..Len(out') : \E k \in 1..Len(out) : k # i /\ out'[j] = out[k]
      /\ \A k \in 1..Len(out) : k # i => \E j \in 1..Len(out') : out'[j] = out[k]
  <2> DEFINE r == RemoveAt(out, i)
  <2>1. /\ r \in Seq(Questions) /\ Len(r) = Len(out) - 1
        /\ \A j \in 1..Len(r) : \E k \in 1..Len(out) : k # i /\ r[j] = out[k]
        /\ \A k \in 1..Len(out) : k # i => \E j \in 1..Len(r) : r[j] = out[k]
    <3>1. out \in Seq(Questions)
      BY <1>0
    <3> QED BY <3>1, OthersStayOut, Zenon
  <2>2. out' = r
    BY <1>1
  <2> HIDE DEF r
  <2> QED BY <2>1, <2>2
<1>3. out[i] \in Questions
  BY <1>0, ElementOfSeq
<1>11. asks \in Nat /\ \A k \in 1..Len(out) : out[k].n \in Nat
  <2>1. \A k \in 1..Len(out) : out[k] \in Questions
    BY <1>0, ElementOfSeq
  <2> QED BY <1>0, <2>1, QueryViewsAssumption DEF Questions
<1>4. ASSUME NEW v \in 0..version
      PROVE  /\ Of(i, v) \in [n : 0..MaxAsks, subject : Askable, org : OrgOrNone, version : 0..version]
             /\ Of(i, v).n = out[i].n /\ Of(i, v).subject = out[i].subject
  <2>1. Of(i, v) = [n |-> out[i].n, subject |-> out[i].subject, org |-> out[i].org, version |-> v]
    BY <1>3 DEF Of, Questions
  <2>2. out[i].n \in 0..MaxAsks /\ out[i].subject \in Askable /\ out[i].org \in OrgOrNone
    BY <1>3 DEF Questions
  <2> QED BY <2>1, <2>2
<1>5. \/ \E v \in 0..version : shown' = Of(i, v)
      \/ shown' = shown /\ screen \notin {"notices", "tester"} /\ AnswerLost(i)
  <2>1. 0 \in 0..version /\ Computed(i) \subseteq 0..version
    BY <1>0, <1>3, QueryViewsAssumption DEF Computed, Questions
  <2> QED BY <2>1 DEF Answer, AnswerLost, Kept
<1>6. ViewsTypeOK'
  BY <1>0, <1>1, <1>2, <1>4, <1>5, TypedAgain
<1>7. passed' \in [lapsed : BOOLEAN, lost : Nat] /\ (passed.lapsed => passed'.lapsed)
      /\ (Answer(i) /\ Overtaken(i) => passed'.lapsed)
      /\ (AnswerLost(i) /\ out[i].n = asks => passed'.lapsed)
      /\ (AnswerLost(i) /\ screen = "notices" /\ Overtaken(i) => passed'.lapsed)
  <2> DEFINE a == Overtaken(i)
             b == out[i].n = asks \/ (screen = "notices" /\ Overtaken(i))
  <2>1. a \in BOOLEAN /\ b \in BOOLEAN
    BY SMT DEF Overtaken
  <2>2. (out[i].n = asks => b) /\ (screen = "notices" /\ Overtaken(i) => b)
    OBVIOUS
  <2>3. (Overtaken(i) => a) /\ (passed.lapsed \/ out[i].n = asks \/ (screen = "notices" /\ Overtaken(i)) <=> passed.lapsed \/ b)
    OBVIOUS
  <2>4. Answer(i) => passed' = [passed EXCEPT !.lapsed = @ \/ a]
    BY DEF Answer
  <2>5. AnswerLost(i) => passed' = [lapsed |-> passed.lapsed \/ b, lost |-> passed.lost + 1]
    BY DEF AnswerLost
  <2> HIDE DEF a, b
  <2>6. Answer(i) => passed' \in [lapsed : BOOLEAN, lost : Nat] /\ (passed.lapsed \/ a => passed'.lapsed)
    BY <1>0, <2>1, <2>4
  <2>7. AnswerLost(i) => passed' \in [lapsed : BOOLEAN, lost : Nat] /\ (passed.lapsed \/ b => passed'.lapsed)
    BY <1>0, <2>1, <2>5
  <2> QED BY <2>2, <2>3, <2>6, <2>7, Zenon
<1>8. Counts'
  BY <1>1, <1>2, <1>7 DEF QInv, Counts
<1>9. OneTest'
  <2> SUFFICES ASSUME screen = "tester" PROVE OneTest'
    BY <1>1 DEF OneTest
  <2>1. Len(out) <= 1 /\ out[i].n = asks /\ Len(out) \in Nat
    BY <1>0, LenProperties DEF QInv, OneTest
  <2>2. out' = <<>>
    BY <1>2, <2>1, EmptySeq
  <2>3. shown'.n = asks'
    BY <1>1, <1>4, <1>5, <2>1
  <2> QED BY <1>2, <2>1, <2>2, <2>3 DEF OneTest
<1>10. Latest'
  <2> SUFFICES ASSUME screen \in {"panel", "search", "notices"}, ~passed'.lapsed, ~due
               PROVE  Latest'
    BY <1>1 DEF Latest
  <2>1. ~passed.lapsed
    BY <1>0 DEF Answer, AnswerLost
  <2>2. \A k \in 1..Len(out) : out[k].n = asks => out[k].subject = subject
    BY <2>1 DEF QInv, Latest
  <2>3. ASSUME NEW j \in 1..Len(out'), out'[j].n = asks' PROVE out'[j].subject = subject'
    <3>1. PICK k \in 1..Len(out) : out'[j] = out[k]
      BY <1>2
    <3> QED BY <1>1, <2>2, <2>3, <3>1
  <2>4. (\E j \in 1..Len(out') : out'[j].n = asks') \/ (shown' # Nothing => shown'.subject = subject')
    <3>1. CASE \E k \in 1..Len(out) : k # i /\ out[k].n = asks
      <4>1. PICK k \in 1..Len(out) : k # i /\ out[k].n = asks
        BY <3>1
      <4>2. PICK j \in 1..Len(out') : out'[j] = out[k]
        BY <1>2, <4>1
      <4> QED BY <1>1, <4>1, <4>2
    <3>2. CASE ~ \E k \in 1..Len(out) : k # i /\ out[k].n = asks
      <4>1. CASE out[i].n = asks
        <5>1. ~ AnswerLost(i)
          BY <1>7, <4>1
        <5>2. \E v \in 0..version : shown' = Of(i, v)
          BY <1>5, <5>1
        <5> QED BY <5>2, <1>1, <1>4, <2>2, <4>1
      <4>2. CASE out[i].n # asks
        <5>1. ~ \E k \in 1..Len(out) : out[k].n = asks
          BY <3>2, <4>2
        <5>2. Overtaken(i)
          BY <5>1, <1>11 DEF QInv, Counts, Overtaken
        <5>3. screen # "notices" /\ AnswerLost(i)
          BY <5>2, <1>7
        <5>4. shown' = shown
          BY <5>3 DEF AnswerLost
        <5> QED BY <5>1, <5>4, <1>1, <2>1 DEF QInv, Latest
      <4> QED BY <4>1, <4>2
    <3> QED BY <3>1, <3>2
  <2> QED BY <2>3, <2>4 DEF Latest
<1> QED BY <1>6, <1>8, <1>9, <1>10 DEF QInv

LEMMA QueryStep == QInv /\ QueryNext => QInv'
  BY AskingSteps, QuietSteps, PollStep, ViewSearchStep, AnswerSteps DEF QueryNext

LEMMA QueryLeavesOrg == QueryNext => UNCHANGED ovars
<1> SUFFICES ASSUME QueryNext PROVE UNCHANGED ovars
  OBVIOUS
<1>1. CASE MountPanel \/ (\E s \in Subjects : TurnPanel(s)) \/ OpenNotices \/ Test
  BY <1>1 DEF MountPanel, TurnPanel, OpenNotices, Test
<1>2. CASE UnmountPanel \/ OpenSearch \/ CloseSearch \/ ToggleTester \/ Changes \/ ChartsPoll \/ SearchFires
  BY <1>2 DEF UnmountPanel, OpenSearch, CloseSearch, ToggleTester, Changes, ChartsPoll, SearchFires
<1>3. CASE \/ \E s \in Subjects : PickRoute(s)
           \/ \E s \in Subjects \cup {Blank} : Type(s)
           \/ \E how \in {"bell", "outside"} : CloseNotices(how)
  BY <1>3 DEF PickRoute, Type, CloseNotices
<1>4. CASE \E i \in 1..Len(out) : Answer(i) \/ AnswerLost(i)
  BY <1>4 DEF Answer, AnswerLost
<1> QED BY <1>1, <1>2, <1>3, <1>4 DEF QueryNext

(***************************************************************************)
(* The theorems.                                                           *)
(***************************************************************************)
LEMMA OrgInvariant == OrgInit /\ [][OrgNext]_ovars => []ViewsInv
<1> QED BY InitViewsInv, StepIInv, PTL

\* What the views ask and are answered is a stutter of ActiveOrg.
LEMMA ViewsLeaveTheOrganisation == ViewsSpec => OrgInit /\ [][OrgNext]_ovars
<1>1. ViewsInit => OrgInit
  BY DEF ViewsInit
<1>2. [ViewsNext]_viewsVars => [OrgNext]_ovars
  <2> SUFFICES ASSUME [ViewsNext]_viewsVars PROVE [OrgNext]_ovars
    OBVIOUS
  <2>1. CASE QueryNext
    BY <2>1, QueryLeavesOrg
  <2>2. CASE OrgNext /\ UNCHANGED qvars
    BY <2>2
  <2>3. CASE UNCHANGED viewsVars
    BY <2>3 DEF viewsVars
  <2> QED BY <2>1, <2>2, <2>3 DEF ViewsNext
<1> QED BY <1>1, <1>2, PTL DEF ViewsSpec

LEMMA ViewsInvariant == ViewsSpec => [](ViewsInv /\ QInv)
<1>1. QInv /\ ViewsInv' /\ [ViewsNext]_viewsVars => QInv'
  <2> SUFFICES ASSUME QInv, ViewsInv', [ViewsNext]_viewsVars PROVE QInv'
    OBVIOUS
  <2>1. CASE QueryNext
    BY <2>1, QueryStep
  <2>2. CASE OrgNext /\ UNCHANGED qvars
    BY <2>2, ScreenStays, OrgStep DEF ViewsInv
  <2>3. CASE UNCHANGED viewsVars
    BY <2>3, OrgStep DEF viewsVars, ovars, ViewsInv
  <2> QED BY <2>1, <2>2, <2>3 DEF ViewsNext
<1>2. ViewsSpec => []ViewsInv
  BY ViewsLeaveTheOrganisation, OrgInvariant, PTL
<1> QED BY InitQInv, <1>1, <1>2, PTL DEF ViewsSpec

(* The variables of the console's session, page, calls, forms and views keep      *)
(* their types, and next-auth's lock leaves one update out.                       *)
THEOREM SpecViewsTypeOK == ViewsSpec => []ViewsTypeOK
<1>1. QInv => ViewsTypeOK
  BY DEF QInv
<1> QED BY ViewsInvariant, <1>1, PTL

(* A console with nothing out agrees with the session about its organisation,     *)
(* whatever its views ask meanwhile (org-switcher.tsx:43-46).                     *)
THEOREM SpecQuietConsoleAgrees == ViewsSpec => []QuietConsoleAgrees
<1>1. ViewsInv => QuietConsoleAgrees
  BY DEF ViewsInv, QuietConsoleAgrees, PageFollows, Coming, HeaderFollows, ChoiceFollows, Updating, Idle
<1> QED BY ViewsInvariant, <1>1, PTL

(* What a form creates lands in the organisation its page showed, unless the page *)
(* was about to change (backend-server.ts:41-75).                                 *)
THEOREM SpecCreatedWhereShown == ViewsSpec => []CreatedWhereShown
<1>1. ViewsInv => CreatedWhereShown
  BY DEF ViewsInv, FormsKept, CreatedWhereShown
<1> QED BY ViewsInvariant, <1>1, PTL

(* A view with nothing out shows what it was last asked for, but for the cases    *)
(* named, however many questions were out at once and in whatever order they were *)
(* answered (global-search.tsx:17-64, route-tester.tsx:72-107).                   *)
THEOREM SpecViewShowsItsSubject == ViewsSpec => []ViewShowsItsSubject
<1>1. QInv => ViewShowsItsSubject
  <2> SUFFICES ASSUME QInv PROVE ViewShowsItsSubject
    OBVIOUS
  <2>1. out = <<>> => ~ \E i \in 1..Len(out) : out[i].n = asks
    BY EmptySeq
  <2> QED BY <2>1 DEF QInv, Latest, OneTest, ViewShowsItsSubject
<1> QED BY ViewsInvariant, <1>1, PTL
===============================================================================

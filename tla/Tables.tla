------------------------------- MODULE Tables -------------------------------
(***************************************************************************)
(* The console's lists: the tables of routes, tokens, grants, apps,        *)
(* members, sessions and the others, with the buttons on their rows, the   *)
(* selection of the two large tables and the dialogs that ask before a row *)
(* goes.                                                                   *)
(*                                                                         *)
(* A list is a record of what its component does: where its rows come      *)
(* from, which buttons a row has and when they are disabled, what may be   *)
(* done to all rows ticked, and what follows an answer.  One list is       *)
(* modelled; which, is chosen at the start.  Requests, answers, refreshes  *)
(* and loads take their time and the operator goes on meanwhile; another   *)
(* operator may change a row.                                              *)
(*                                                                         *)
(* Abstracted: what a row says (its status is enough), the order of rows,  *)
(* which rows a search text matches, toasts and error texts.  A connection *)
(* that breaks under a handler in a transition brings the error page; the  *)
(* fresh page after it is not followed.  A panel's rows are not hidden     *)
(* while it loads.                                                         *)
(***************************************************************************)
EXTENDS Naturals, FiniteSets

CONSTANTS
    Lists,      \* the lists explored
    Present,    \* rows there are at the start
    Fresh,      \* rows that can be added
    MaxCalls,   \* bound: requests sent by one press of a button
    MaxOthers,  \* bound: rows other operators remove
    None

Rows == Present \cup Fresh

(***************************************************************************)
(* Buttons.  What disables one: a request of its own ("own"), the table's  *)
(* last request while it is for this row ("slot"), any request of the list *)
(* ("any"), or a refresh that a request of the list asked for ("refresh"). *)
(* What follows its answer: a refresh of the page, a new load, the answer  *)
(* worked into the list, or a secret, and the refresh when that is closed. *)
(* A component may not look whether its request was refused ("heeds"), and *)
(* may be told of a refusal whatever the server did ("told").              *)
(***************************************************************************)
Button(disabledBy, after) == [disabledBy |-> disabledBy, after |-> after, heeds |-> TRUE, told |-> TRUE]

\* The console's handler cannot pass on a 204, which is the server's answer to these deletions:
\* it fails, and the table takes its 500 for a refusal and does nothing.
Unheard(button) == [button EXCEPT !.told = FALSE]

DeleteRouteButton == Button("own", "refresh")
DuplicateRoute == Button("slot", "refresh")
DeleteTenantButton == Button("own", "refresh")
DeleteTokenButton == Button("own", "refresh")
RevokeTokenButton == Button("own", "refresh")
RotateTokenButton == Button("own", "secret")
\* A refusal is not looked at: the page is refreshed all the same.
DeleteGrantButton == [Button("own", "refresh") EXCEPT !.heeds = FALSE]
DeleteAppButton == Button("own", "refresh")
RevokeSession == Button("slot", "refresh")
DeletePlatformUser == Unheard(Button("refresh", "refresh"))
DeletePlatformOrg == Unheard(Button("refresh", "refresh"))
RevokePlatformAdmin == Unheard(Button("refresh", "refresh"))
RemoveMember == Button("refresh", "refresh")
ChangeRole == Button("refresh", "refresh")
RevokeInvite == Button("refresh", "refresh")
DeleteIPRule == Button("refresh", "refresh")
DeleteMapping == Button("nothing", "edit")
AddMapping == Button("own", "edit")
AddUpstream == Button("own", "load")
EditUpstream == Button("own", "load")
DeleteUpstream == Button("nothing", "load")
AddRouteUpstream == Button("own", "load")
EditRouteUpstream == Button("own", "load")
DeleteRouteUpstream == Button("nothing", "load")
\* Enter in its field sends it, whatever is out.
CreateAppToken == Button("nothing", "edit")
DeleteAppToken == Button("any", "edit")
RevokeAppSession == Button("any", "edit")

\* Rows come with the page ("page"), once ("given"), or are fetched when the panel appears.  A
\* read that fails leaves no rows: the page gets the fallback of its query, a panel an empty list
\* ("empties"); or the panel keeps its rows and shows an error instead of them ("hides").
List(rows, buttons) == [rows |-> rows, buttons |-> buttons, ticks |-> {}, fails |-> "empties"]
Hiding(component) == [component EXCEPT !.fails = "hides"]

RoutesTable ==
    [List("page", [delete |-> DeleteRouteButton, duplicate |-> DuplicateRoute]) EXCEPT !.ticks = {"delete"}]
TokensTable ==
    [List("page", [delete |-> DeleteTokenButton, revoke |-> RevokeTokenButton, rotate |-> RotateTokenButton])
        EXCEPT !.ticks = {"delete", "revoke"}]
TenantCard == List("page", [delete |-> DeleteTenantButton])
GrantsTable == List("page", [delete |-> DeleteGrantButton])
ProtectedAppsTable == List("page", [delete |-> DeleteAppButton])
SessionsTable == List("page", [revoke |-> RevokeSession])
PlatformUsersTable == List("page", [delete |-> DeletePlatformUser])
PlatformOrgsTable == List("page", [delete |-> DeletePlatformOrg])
PlatformAdminsTable == List("page", [delete |-> RevokePlatformAdmin])
TeamMembersTable == List("page", [delete |-> RemoveMember, change |-> ChangeRole])
PendingInvitesList == List("page", [delete |-> RevokeInvite])
OrgIPRulesTable == List("page", [delete |-> DeleteIPRule])
OIDCOrgMappings == List("given", [delete |-> DeleteMapping, add |-> AddMapping])
TenantUpstreams ==
    Hiding(List("fetched", [add |-> AddUpstream, change |-> EditUpstream, delete |-> DeleteUpstream]))
RouteUpstreams ==
    Hiding(List("fetched", [add |-> AddRouteUpstream, change |-> EditRouteUpstream, delete |-> DeleteRouteUpstream]))
AppTokensPanel == List("fetched", [add |-> CreateAppToken, delete |-> DeleteAppToken])
AppSessionsPanel == List("fetched", [revoke |-> RevokeAppSession])

Component == [
    routes |-> RoutesTable, tokens |-> TokensTable, tenants |-> TenantCard, grants |-> GrantsTable,
    apps |-> ProtectedAppsTable, sessions |-> SessionsTable, users |-> PlatformUsersTable,
    orgs |-> PlatformOrgsTable, admins |-> PlatformAdminsTable, members |-> TeamMembersTable,
    invites |-> PendingInvitesList, ipRules |-> OrgIPRulesTable, mappings |-> OIDCOrgMappings,
    tenantUpstreams |-> TenantUpstreams, routeUpstreams |-> RouteUpstreams,
    appTokens |-> AppTokensPanel, appSessions |-> AppSessionsPanel]

ASSUME TablesAssumption ==
    /\ Lists \subseteq DOMAIN Component
    /\ Present \cap Fresh = {} /\ None \notin Rows

\* Operators named Mut... are mutants, for the checks that a property notices a bug in the code.
VARIABLES
    kind,       \* the list on the page
    server,     \* status of every row: "live", "off", "changed", "gone", or "absent": not there yet
    list,       \* the same, as the component holds it
    failed,     \* the read shown last had failed: the page's source is "fallback", the panel has an
                \*   error, or it has forgotten that it had
    matching,   \* rows the search text matches
    ticked,     \* rows selected
    slot,       \* row of the table's last request, while that is out
    secrets,    \* the rotations whose secrets are on the screen, each over the row it is of
    calls,      \* requests that are out
    loads,      \* reads of the list that are out
    refresh,    \* router.refresh(): asked for, or read and on its way; by whom
    tally       \* history

vars == <<kind, server, list, failed, matching, ticked, slot, secrets, calls, loads, refresh, tally>>
browser == <<matching, ticked, slot, secrets>>

L == Component[kind]
There == {"live", "off", "changed"}
Unread == [r \in Rows |-> "absent"]
Quiet == [at |-> "none", by |-> {}, seen |-> Unread]

Init ==
    /\ kind \in Lists
    /\ server = [r \in Rows |-> IF r \in Present THEN "live" ELSE "absent"]
    /\ failed \in IF L.rows = "fetched" THEN {FALSE} ELSE BOOLEAN
    /\ list = IF L.rows = "fetched" \/ failed THEN Unread ELSE server
    /\ matching = Rows /\ ticked = {} /\ slot = None /\ secrets = {}
    /\ calls = {}
    /\ loads = IF L.rows = "fetched" THEN {[n |-> 1, at |-> "sent", seen |-> Unread]} ELSE {}
    /\ refresh = Quiet
    /\ tally = [sent |-> 0, others |-> 0,
                loads |-> Cardinality(loads),
                latest |-> 0,       \* the newest load that has arrived
                crossed |-> FALSE,  \* the load shown arrived after a newer one, or an answer was
                                    \*   worked in while the load was out
                viewed |-> {},      \* rows selected that were on the screen when they were
                unviewed |-> {},    \* rows the server changed that were not
                untold |-> {},      \* rows whose change nobody told this console of
                lost |-> {}]        \* rotations whose secret went unread, and who asked for the
                                    \*   refresh that took it away

(***************************************************************************)
(* What is on the screen: rows there are that match.  The buttons of a     *)
(* token that is not active are not rotate and revoke.                     *)
(***************************************************************************)
ButtonIn(rows, match, r, op) ==
    /\ r \in match /\ rows[r] \in There /\ op \in DOMAIN L.buttons \ {"add"}
    /\ op \in {"rotate", "revoke"} => rows[r] # "off"

Visible == {r \in matching : list[r] \in There}
\* A table without rows says so, and has no search and no boxes to tick.
Toolbar == L.ticks # {} /\ \E r \in Rows : list[r] \in There
HasButton(r, op) == ButtonIn(list, matching, r, op)
Hidden == failed /\ L.fails = "hides"

Single(c) == ~c.bulk
Busy(r, op) ==
    CASE L.buttons[op].disabledBy = "own" ->
            \E c \in calls : Single(c) /\ c.op = op /\ (op = "add" \/ c.row = r)
      [] L.buttons[op].disabledBy = "slot" -> slot = r
      [] L.buttons[op].disabledBy = "any" -> calls # {}
      [] L.buttons[op].disabledBy = "refresh" -> refresh.by \ {0} # {}
      [] OTHER -> FALSE

\* A row's buttons go with the row, and what they were about to show with them.
Unmounted(rows, match, asker) ==
    LET lostOf(cs) == {c \in cs : c.op = "rotate" /\ c.mounted /\ ~ButtonIn(rows, match, c.row, "rotate")}
        gone == lostOf(calls)
        unread == lostOf(secrets)
    IN
    /\ calls' = {IF c \in gone THEN [c EXCEPT !.mounted = FALSE] ELSE c : c \in calls}
    /\ secrets' = secrets \ unread
    /\ tally' = [tally EXCEPT
        !.lost = @ \cup {[id |-> c.id, by |-> asker] : c \in gone \cup unread},
        !.untold = {r \in @ \cup UNION {{c.row, c.new} : c \in unread} : rows[r] # server[r]}]

(***************************************************************************)
(* The operator.                                                           *)
(***************************************************************************)
Search(m) ==
    /\ secrets = {} /\ m # matching /\ Toolbar /\ matching' = m
    /\ UNCHANGED <<kind, server, list, failed, ticked, slot, loads, refresh>>
    /\ Unmounted(list, m, {0})

ToggleSelect(r) ==
    /\ secrets = {} /\ Toolbar /\ r \in Visible
    /\ ticked' = IF r \in ticked THEN ticked \ {r} ELSE ticked \cup {r}
    /\ tally' = [tally EXCEPT !.viewed = (@ \cup {r}) \cap ticked']
    /\ UNCHANGED <<kind, server, list, failed, matching, slot, secrets, calls, loads, refresh>>

\* All rows on the screen, or none when as many are ticked as are on the screen.
MutSelectMatchless == IF Cardinality(ticked) = Cardinality(Visible) THEN {} ELSE {r \in Rows : list[r] \in There}
AllToggled == IF Cardinality(ticked) = Cardinality(Visible) THEN {} ELSE Visible

ToggleSelectAll ==
    /\ secrets = {} /\ Toolbar
    /\ ticked' = AllToggled
    /\ tally' = [tally EXCEPT !.viewed = (@ \cup Visible) \cap ticked']
    /\ UNCHANGED <<kind, server, list, failed, matching, slot, secrets, calls, loads, refresh>>

Call(op, rows, new, bulk) ==
    [id |-> tally.sent + 1, op |-> op, row |-> IF bulk THEN None ELSE CHOOSE r \in rows : TRUE,
     todo |-> rows, new |-> new, bulk |-> bulk, mounted |-> TRUE, ok |-> {}, broken |-> FALSE,
     unviewed |-> IF bulk THEN rows \ tally.viewed ELSE {}]

\* A new row's id is the server's choice; one is put aside for the request.
Unused == {r \in Fresh : server[r] = "absent" /\ \A c \in calls : c.new # r}

Send(op, rows, new, bulk) ==
    /\ tally.sent < MaxCalls
    /\ calls' = calls \cup {Call(op, rows, new, bulk)}

New(op) == IF op \in {"rotate", "duplicate"} THEN Unused ELSE {None}

\* Press a row's button, and confirm where a dialog asks first.
Press(r, op) ==
    /\ secrets = {} /\ ~Hidden /\ HasButton(r, op) /\ ~Busy(r, op)
    /\ \E new \in New(op) : Send(op, {r}, new, FALSE)
    /\ slot' = IF L.buttons[op].disabledBy = "slot" THEN r ELSE slot
    /\ tally' = [tally EXCEPT !.sent = @ + 1]
    /\ UNCHANGED <<kind, server, list, failed, matching, ticked, secrets, loads, refresh>>

Add ==
    /\ secrets = {} /\ "add" \in DOMAIN L.buttons /\ ~Busy(None, "add")
    /\ \E new \in Unused : Send("add", {new}, new, FALSE)
    /\ tally' = [tally EXCEPT !.sent = @ + 1]
    /\ UNCHANGED <<kind, server, list, failed, browser, loads, refresh>>

\* The rows ticked, on the screen or not.
HandleBulk(op) ==
    /\ secrets = {} /\ Toolbar /\ op \in L.ticks /\ ticked # {}
    /\ \A c \in calls : ~(c.bulk /\ c.op = op /\ ~c.broken)
    /\ Send(op, ticked, None, TRUE)
    /\ tally' = [tally EXCEPT !.sent = @ + 1]
    /\ UNCHANGED <<kind, server, list, failed, browser, loads, refresh>>

(***************************************************************************)
(* The server takes the rows of a request one by one.                      *)
(***************************************************************************)
Moved(c, to) == (calls \ {c}) \cup {to}

\* (A rotation whose revocation fails is in Tenancy.)
Effect(op) == CASE op = "delete" -> "gone" [] op \in {"revoke", "rotate"} -> "off"
                [] op = "change" -> "changed" [] OTHER -> "live"

After(c, r, rows) ==
    [s \in Rows |-> IF s = c.new THEN "live" ELSE IF s = r /\ c.op # "duplicate" THEN Effect(c.op) ELSE rows[s]]

\* Whatever state a row is in: a revoked token is rotated too, and gets a live successor.
Acceptable(c, r) == c.op = "add" \/ server[r] \in There

Serve(c, r) ==
    /\ r \in c.todo /\ Acceptable(c, r)
    /\ server' = After(c, r, server)
    /\ calls' = Moved(c, [c EXCEPT !.todo = @ \ {r}, !.ok = @ \cup {r}])
    /\ tally' = [tally EXCEPT
            !.unviewed = @ \cup ({r} \cap c.unviewed),
            !.untold = IF c.broken THEN @ \cup ({r, c.new} \ {None}) ELSE @]
    /\ UNCHANGED <<kind, list, failed, browser, loads, refresh>>

Refuse(c, r) ==
    /\ r \in c.todo
    /\ calls' = Moved(c, [c EXCEPT !.todo = @ \ {r}])
    /\ UNCHANGED <<kind, server, list, failed, browser, loads, refresh, tally>>

\* fetch rejects: what was accepted and what still will be, this console is not told.
Break(c) ==
    /\ ~c.broken
    /\ calls' = Moved(c, [c EXCEPT !.broken = TRUE])
    /\ slot' = IF Single(c) /\ L.buttons[c.op].disabledBy = "slot" THEN None ELSE slot
    /\ tally' = [tally EXCEPT !.untold = @ \cup c.ok \cup ({c.new} \ {None})]
    /\ UNCHANGED <<kind, server, list, failed, matching, ticked, secrets, loads, refresh>>

\* Someone else removes a row.
OtherWrites(r) ==
    /\ tally.others < MaxOthers /\ server[r] \in There
    /\ server' = [server EXCEPT ![r] = "gone"]
    /\ tally' = [tally EXCEPT !.others = @ + 1, !.untold = @ \cup {r}]
    /\ UNCHANGED <<kind, list, failed, browser, calls, loads, refresh>>

(***************************************************************************)
(* Answers.                                                                *)
(***************************************************************************)
Asked(id) == [at |-> "asked", by |-> refresh.by \cup {id}, seen |-> Unread]
Loading == {[n |-> tally.loads + 1, at |-> "sent", seen |-> Unread]}

Succeeded(c) == (c.ok # {} /\ L.buttons[c.op].told) \/ ~L.buttons[c.op].heeds
Follows(c, step) == Succeeded(c) /\ L.buttons[c.op].after = step

MutRotateRefreshes(c) == IF Follows(c, "refresh") \/ Follows(c, "secret") THEN Asked(c.id) ELSE refresh
RefreshAfter(c) == IF Follows(c, "refresh") THEN Asked(c.id) ELSE refresh

AnswerRow(c) ==
    /\ Single(c) /\ c.todo = {} /\ ~c.broken
    /\ calls' = calls \ {c}
    /\ slot' = IF L.buttons[c.op].disabledBy = "slot" THEN None ELSE slot
    /\ refresh' = RefreshAfter(c)
    /\ secrets' = IF Follows(c, "secret") /\ c.mounted THEN secrets \cup {c} ELSE secrets
    /\ list' = IF Follows(c, "edit") THEN After(c, c.row, list) ELSE list
    /\ loads' = IF Follows(c, "load") THEN loads \cup Loading ELSE loads
    /\ failed' = (failed /\ ~Follows(c, "load"))
    /\ tally' = [tally EXCEPT
            !.loads = @ + Cardinality(loads' \ loads),
            !.crossed = @ \/ (list' # list /\ loads # {}),
            !.untold = IF Follows(c, "secret") /\ ~c.mounted
                       THEN @ \cup {c.row, c.new}
                       ELSE IF L.buttons[c.op].told THEN @ ELSE @ \cup c.ok]
    /\ UNCHANGED <<kind, server, matching, ticked>>

\* All of them are answered, well or not: the selection is cleared, with what was ticked meanwhile.
MutBulkStays(c) == refresh
BulkDone(c) == Asked(c.id)
AnswerBulk(c) ==
    /\ c.bulk /\ c.todo = {} /\ ~c.broken
    /\ calls' = calls \ {c}
    /\ ticked' = {}
    /\ refresh' = BulkDone(c)
    /\ tally' = [tally EXCEPT !.viewed = {}]
    /\ UNCHANGED <<kind, server, list, failed, matching, slot, secrets, loads>>

Forgotten(c) ==
    /\ c.broken /\ c.todo = {}
    /\ calls' = calls \ {c}
    /\ UNCHANGED <<kind, server, list, failed, browser, loads, refresh, tally>>

\* The page is refreshed when the secret is put away, not before.
CloseSecret(c) ==
    /\ secrets' = secrets \ {c}
    /\ refresh' = Asked(c.id)
    /\ UNCHANGED <<kind, server, list, failed, matching, ticked, slot, calls, loads, tally>>

(***************************************************************************)
(* router.refresh(): one at a time, and asked for again it is read again.  *)
(* Loads of a list overlap, and the one that arrives last is shown.  A read *)
(* may fail, whatever the server has: a page then gets the fallback rows,  *)
(* of which there are none.                                                *)
(***************************************************************************)
Elsewhere ==
    /\ L.rows = "page" /\ refresh.at = "none" /\ \E r \in Rows : list[r] # server[r]
    /\ refresh' = Asked(0)
    /\ UNCHANGED <<kind, server, list, failed, browser, calls, loads, tally>>

Read ==
    /\ refresh.at = "asked"
    /\ refresh' = [refresh EXCEPT !.at = "read", !.seen = server]
    /\ UNCHANGED <<kind, server, list, failed, browser, calls, loads, tally>>

Arrive ==
    /\ refresh.at = "read"
    /\ L.rows = "page" /\ list' = refresh.seen /\ failed' = FALSE
    /\ refresh' = Quiet
    /\ UNCHANGED <<kind, server, matching, ticked, slot, loads>>
    /\ Unmounted(list', matching, refresh.by)

Fallback ==
    /\ refresh.at = "asked"
    /\ L.rows = "page" /\ list' = Unread /\ failed' = TRUE
    /\ refresh' = Quiet
    /\ UNCHANGED <<kind, server, matching, ticked, slot, loads>>
    /\ Unmounted(list', matching, refresh.by)

ServeLoad(l) ==
    /\ l.at = "sent"
    /\ loads' = (loads \ {l}) \cup {[l EXCEPT !.at = "read", !.seen = server]}
    /\ UNCHANGED <<kind, server, list, failed, browser, calls, refresh, tally>>

LoadArrives(l) ==
    /\ l.at = "read"
    /\ list' = l.seen
    /\ loads' = loads \ {l}
    /\ tally' = [tally EXCEPT
            !.latest = IF l.n > @ THEN l.n ELSE @,
            !.crossed = IF "change" \in DOMAIN L.buttons THEN l.n < tally.latest ELSE @]
    /\ UNCHANGED <<kind, server, failed, matching, ticked, slot, secrets, calls, refresh>>

\* An error is taken back only when another load is sent.
LoadFails(l) ==
    /\ list' = IF L.fails = "hides" THEN list ELSE Unread
    /\ failed' = TRUE
    /\ loads' = loads \ {l}
    /\ UNCHANGED <<kind, server, browser, calls, refresh, tally>>

(***************************************************************************)
(* Specification                                                           *)
(***************************************************************************)
Ops == UNION {DOMAIN Component[k].buttons : k \in Lists}

Operator ==
    \/ \E r \in Present : Search(Rows) \/ Search(Rows \ {r})
    \/ \E r \in Rows : ToggleSelect(r)
    \/ ToggleSelectAll \/ Add
    \/ \E r \in Rows, op \in Ops : Press(r, op)
    \/ \E c \in secrets : CloseSecret(c)
    \/ \E op \in L.ticks : HandleBulk(op)

Server ==
    \/ \E c \in calls : \/ \E r \in c.todo : Serve(c, r) \/ Refuse(c, r)
                        \/ Break(c) \/ AnswerRow(c) \/ AnswerBulk(c) \/ Forgotten(c)
    \/ \E l \in loads : ServeLoad(l) \/ LoadArrives(l) \/ LoadFails(l)
    \/ Read \/ Arrive \/ Fallback

Next == Operator \/ Server \/ Elsewhere \/ \E r \in Rows : OtherWrites(r)

Spec == Init /\ [][Next]_vars

(***************************************************************************)
(* Properties                                                              *)
(***************************************************************************)

\* The variables stay in their types.
TypeOK ==
    /\ kind \in Lists /\ failed \in BOOLEAN
    /\ server \in [Rows -> There \cup {"gone", "absent"}] /\ list \in [Rows -> There \cup {"gone", "absent"}]
    /\ matching \subseteq Rows /\ ticked \subseteq Rows /\ slot \in Rows \cup {None}
    /\ \A c \in secrets : c.op = "rotate" /\ HasButton(c.row, "rotate")
    /\ \A c \in calls : c.todo \cup c.ok \subseteq Rows /\ c.ok \cap c.todo = {}
    /\ refresh.at \in {"none", "asked", "read"} /\ tally.latest <= tally.loads

\* Whatever is searched, ticked, unticked and refreshed while requests are out, the server
\* changes for this console only rows that the operator had on the screen when choosing them: a
\* selection outlives the search it was made under, and is sent with rows no longer shown, but
\* never with a row that was not shown when it was ticked.
ActsOnChosen == tally.unviewed = {}

\* A read that failed leaves its mark on the list until another is made: rows are missing, on an
\* empty page or behind an error.  The app panels load once and have no mark: after a load that
\* failed they say "No tokens yet." or "No active sessions." of an app that has some, and go on so.
Missing(r) == failed /\ (L.fails = "hides" \/ list[r] = "absent")

\* Once nothing is out, a list shows what the server has, except for rows whose change this
\* console was never told of (another operator's, its own over a connection that broke, or the
\* platform deletions whose 204 the console's handlers turn into a failure), for rows missing
\* since a read that failed, and for a list of its own that loads have overtaken.  In
\* particular a bulk operation that was partly refused, and a refresh asked for while another was
\* under way, leave no stale row; and a good read after a failed one brings everything back.
QuietListIsTrue ==
    calls = {} /\ loads = {} /\ refresh.at = "none" /\ secrets = {} /\ ~tally.crossed =>
        \A r \in Rows : list[r] # server[r] => r \in tally.untold \/ Missing(r)

\* A rotated token is inactive at once, and with the next refresh its row loses the button that
\* shows the new secret.  The rotation's own refresh waits until the secret was put away, so a
\* secret goes unread only if something else changed what is shown (rotate-token-button.tsx:26).
SecretOutlivesRotation == \A x \in tally.lost : x.by # {x.id}
=============================================================================

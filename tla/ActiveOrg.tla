------------------------------ MODULE ActiveOrg ------------------------------
(***************************************************************************)
(* Which organisation the console works in.  The session cookie names it,  *)
(* and the backend goes by the cookie a request was sent with; the header  *)
(* shows what this tab last read of the session; the page was rendered for *)
(* the organisation of the cookie its request carried.  A switch goes      *)
(* through the session first and then asks for the page again.             *)
(*                                                                         *)
(* next-auth is external: a second update of the session while one is out  *)
(* does nothing; a read of the session, made when the window is looked at  *)
(* again or another tab has changed it, writes the cookie it was sent with *)
(* back when it is answered.  So is Next's router: one refresh at a time,  *)
(* a further one waits.  Other tabs of the browser share the cookie.       *)
(*                                                                         *)
(* Abstracted: what a page shows and a form holds (Dialogs, Tables); a     *)
(* read of the session is always answered.                                 *)
(***************************************************************************)
EXTENDS Naturals

CONSTANTS
    Orgs,
    Budget,         \* bounds, by screen: choices of an organisation in this tab (picks); choices in
                    \*   another tab and losses of a membership (others); reads of the session at
                    \*   a return to the window (reads); forms submitted (writes)
    NoOrg

\* What is on the screen: forms, the audit page, or one of the views of QueryViews.
Screens == {"forms", "audit", "charts", "panel", "search", "notices", "tester"}

ASSUME ActiveOrgAssumption ==
    /\ NoOrg \notin Orgs
    /\ Budget \in [Screens -> [picks : Nat, others : Nat, reads : Nat, writes : Nat]]

\* Operators named Mut... are mutants, for the checks that a property notices a bug in the code.
VARIABLES
    screen,
    members,    \* organisations the operator is a member of
    listed,     \* those in the switcher's list
    cookie,     \* organisation in the session cookie
    named,      \* organisation of this tab's useSession
    page,       \* organisation the page was rendered for, and whether its data came
    pageRefresh,    \* refreshes: whether one waits, and the cookie the one under way carries
    busy,       \* the switcher waits for its refresh
    picking,    \* and its list was open when that began, and still is
    sessionCalls,      \* session calls that are out
    writes,     \* submitted forms that are out
    made,       \* what submitted forms have created
    wish,       \* history: organisation chosen last in this tab
    seen        \* history

ovars == <<screen, members, listed, cookie, named, page, pageRefresh, busy, picking, sessionCalls, writes, made, wish, seen>>

Idle == [asked |-> FALSE, sent |-> FALSE, org |-> NoOrg]

\* fetchBackend: without an organisation or a membership the page has its fallback data.
Rendered(o) == [org |-> o, source |-> IF o \in members THEN "backend" ELSE "fallback"]

OrgInit ==
    /\ screen \in Screens
    /\ members \in SUBSET Orgs /\ listed = members
    /\ cookie \in members \cup {NoOrg}
    /\ named = cookie /\ page = Rendered(cookie) /\ wish = cookie
    /\ pageRefresh = Idle /\ busy = FALSE /\ picking = FALSE
    /\ sessionCalls = {} /\ writes = {} /\ made = {}
    /\ seen = [picks |-> 0, others |-> 0, reads |-> 0, writes |-> 0,
               astray |-> FALSE,    \* the cookie was changed by something that asks for no refresh,
                                    \*   after the last refresh was sent
               lost |-> FALSE]      \* the operator's last choice came to nothing

RefreshAsked == [pageRefresh EXCEPT !.asked = TRUE]
Updates == {"switch", "enter"}
Updating == \E c \in sessionCalls : c.kind \in Updates

(***************************************************************************)
(* Choosing an organisation.                                               *)
(***************************************************************************)

\* update({activeOrgId}).  It does nothing while an earlier one is out; the caller goes on.
Update(kind, o) ==
    /\ wish' = o
    /\ IF Updating
       THEN /\ pageRefresh' = RefreshAsked /\ UNCHANGED sessionCalls
            /\ seen' = [seen EXCEPT !.picks = @ + 1, !.lost = TRUE]
       ELSE /\ sessionCalls' = sessionCalls \cup {[kind |-> kind, org |-> o]} /\ UNCHANGED pageRefresh
            /\ seen' = [seen EXCEPT !.picks = @ + 1, !.lost = FALSE]

\* The switcher is locked while its own refresh is out, not while the update is; the lock does not
\* close a list that is open.  What is on the list was loaded once.
SwitchOrg(o) ==
    /\ busy => picking
    /\ o \in listed /\ seen.picks < Budget[screen].picks
    /\ Update("switch", o)
    /\ busy' = (busy \/ Updating) /\ picking' = FALSE
    /\ UNCHANGED <<screen, members, listed, cookie, named, page, writes, made>>

\* The refresh that locks the switcher is asked for; the list may be open or not.
Locked(c) ==
    IF c.kind = "switch" /\ ~busy
    THEN busy' = TRUE /\ picking' \in {FALSE, seen.picks < Budget[screen].picks}
    ELSE UNCHANGED <<busy, picking>>

\* A new organisation has been created, or joined by an invite, and is made the active one.  Only
\* the creation puts it in the switcher's list.
EnterOrg(o, how) ==
    /\ o \notin members \cup listed /\ seen.picks < Budget[screen].picks
    /\ members' = members \cup {o}
    /\ listed' = IF how = "created" THEN listed \cup {o} ELSE listed
    /\ Update("enter", o)
    /\ UNCHANGED <<screen, cookie, named, page, busy, picking, writes, made>>

MutNoRefresh == pageRefresh
AfterUpdate == RefreshAsked

UpdateAnswered(c) ==
    /\ c.kind \in Updates /\ c \in sessionCalls
    /\ sessionCalls' = sessionCalls \ {c}
    /\ cookie' = c.org /\ named' = c.org
    /\ pageRefresh' = AfterUpdate /\ Locked(c)
    /\ UNCHANGED <<screen, members, listed, page, writes, made, wish, seen>>

UpdateFails(c) ==
    /\ c.kind \in Updates /\ c \in sessionCalls
    /\ sessionCalls' = sessionCalls \ {c}
    /\ pageRefresh' = RefreshAsked /\ Locked(c)
    /\ seen' = [seen EXCEPT !.lost = TRUE]
    /\ UNCHANGED <<screen, members, listed, cookie, named, page, writes, made, wish>>

(***************************************************************************)
(* Reads of the session and other tabs.                                    *)
(***************************************************************************)
ReadSession ==
    /\ seen.reads < Budget[screen].reads
    /\ sessionCalls' = sessionCalls \cup {[kind |-> "read", org |-> cookie]}
    /\ seen' = [seen EXCEPT !.reads = @ + 1]
    /\ UNCHANGED <<screen, members, listed, cookie, named, page, pageRefresh, busy, picking, writes, made, wish>>

SessionRead(c) ==
    /\ c.kind = "read" /\ c \in sessionCalls
    /\ sessionCalls' = sessionCalls \ {c}
    /\ cookie' = c.org /\ named' = c.org
    /\ seen' = [seen EXCEPT !.astray = @ \/ c.org # cookie, !.lost = @ \/ c.org # cookie]
    /\ UNCHANGED <<screen, members, listed, page, pageRefresh, busy, picking, writes, made, wish>>

\* Another tab switches, and tells this one.
OtherTab(o) ==
    /\ o \in listed \ {cookie} /\ seen.others < Budget[screen].others
    /\ cookie' = o
    /\ sessionCalls' = sessionCalls \cup {[kind |-> "notice", org |-> NoOrg]}
    /\ seen' = [seen EXCEPT !.others = @ + 1, !.astray = TRUE, !.lost = TRUE]
    /\ UNCHANGED <<screen, members, listed, named, page, pageRefresh, busy, picking, writes, made, wish>>

Noticed(c) == (sessionCalls \ {c}) \cup {[kind |-> "read", org |-> cookie]}

\* The notice is answered by a read of the session; nothing asks for the page.
Notice(c) ==
    /\ c.kind = "notice" /\ c \in sessionCalls
    /\ sessionCalls' = Noticed(c)
    /\ UNCHANGED <<screen, members, listed, cookie, named, page, pageRefresh, busy, picking, writes, made, wish, seen>>

\* An owner removes the operator from an organisation.
Removed(o) ==
    /\ o \in members /\ seen.others < Budget[screen].others
    /\ members' = members \ {o}
    /\ seen' = [seen EXCEPT !.others = @ + 1]
    /\ UNCHANGED <<screen, listed, cookie, named, page, pageRefresh, busy, picking, sessionCalls, writes, made, wish>>

(***************************************************************************)
(* The page.                                                               *)
(***************************************************************************)
RefreshSent ==
    /\ pageRefresh.asked /\ ~pageRefresh.sent
    /\ pageRefresh' = [asked |-> FALSE, sent |-> TRUE, org |-> cookie]
    /\ seen' = [seen EXCEPT !.astray = FALSE]
    /\ UNCHANGED <<screen, members, listed, cookie, named, page, busy, picking, sessionCalls, writes, made, wish>>

\* A refresh asked meanwhile is still to come.
MutForgets == Idle
Waiting == [Idle EXCEPT !.asked = pageRefresh.asked]

PageArrives ==
    /\ pageRefresh.sent
    /\ page' = Rendered(pageRefresh.org)
    /\ pageRefresh' = Waiting /\ busy' = (busy /\ pageRefresh.asked) /\ picking' = (picking /\ busy')
    /\ UNCHANGED <<screen, members, listed, cookie, named, sessionCalls, writes, made, wish, seen>>

\* The audit page asks for itself every 15 s.
Polled == RefreshAsked
AuditPolls ==
    /\ screen = "audit" /\ ~pageRefresh.asked
    /\ pageRefresh' = Polled
    /\ UNCHANGED <<screen, members, listed, cookie, named, page, busy, picking, sessionCalls, writes, made, wish, seen>>

(***************************************************************************)
(* Forms.  They are disabled on a page whose data did not come.  A free    *)
(* form (tenant, app) fits any organisation, a bound one names a row of    *)
(* the page: a tenant for a route, token or grant, or the row it edits.    *)
(***************************************************************************)
PageMayChange == pageRefresh # Idle \/ seen.astray
Form(kind) == [kind |-> kind, to |-> cookie, shown |-> page.org, crossed |-> PageMayChange]

Submit(kind) ==
    /\ screen = "forms" /\ page.source = "backend" /\ seen.writes < Budget[screen].writes
    /\ writes' = writes \cup {Form(kind)}
    /\ seen' = [seen EXCEPT !.writes = @ + 1]
    /\ UNCHANGED <<screen, members, listed, cookie, named, page, pageRefresh, busy, picking, sessionCalls, made, wish>>

\* withOrgContext, and the look-up of the row in the organisation.
Allowed(w) == w.to \in members /\ (w.kind = "free" \/ w.to = w.shown)

Answered(w) ==
    /\ w \in writes
    /\ writes' = writes \ {w}
    /\ IF Allowed(w) THEN made' = made \cup {w} /\ pageRefresh' = RefreshAsked ELSE UNCHANGED <<made, pageRefresh>>
    /\ UNCHANGED <<screen, members, listed, cookie, named, page, busy, picking, sessionCalls, wish, seen>>

(***************************************************************************)
(* Specification.  What is out is answered and timers fire; nobody need    *)
(* choose, submit or look.                                                 *)
(***************************************************************************)
SessionAnswers == \E c \in sessionCalls : UpdateAnswered(c) \/ UpdateFails(c) \/ SessionRead(c) \/ Notice(c)

OrgNext ==
    \/ \E o \in Orgs : SwitchOrg(o) \/ OtherTab(o) \/ Removed(o) \/ \E how \in {"created", "joined"} : EnterOrg(o, how)
    \/ ReadSession \/ SessionAnswers \/ RefreshSent \/ PageArrives \/ AuditPolls
    \/ (\E kind \in {"free", "bound"} : Submit(kind)) \/ \E w \in writes : Answered(w)

OrgFairness ==
    WF_ovars(SessionAnswers) /\ WF_ovars(RefreshSent) /\ WF_ovars(PageArrives) /\ WF_ovars(AuditPolls)

OrgSpec == OrgInit /\ [][OrgNext]_ovars /\ OrgFairness

(***************************************************************************)
(* Properties                                                              *)
(***************************************************************************)

\* The variables stay in their types; only one update of the session is out.
OrgTypeOK ==
    LET Org == Orgs \cup {NoOrg} IN
    /\ screen \in Screens /\ members \subseteq Orgs /\ listed \subseteq Orgs
    /\ cookie \in Org /\ named \in Org /\ wish \in Org /\ busy \in BOOLEAN /\ picking \in BOOLEAN
    /\ page \in [org : Org, source : {"backend", "fallback"}]
    /\ pageRefresh \in [asked : BOOLEAN, sent : BOOLEAN, org : Org]
    /\ sessionCalls \subseteq [kind : Updates \cup {"read", "notice"}, org : Org]
    /\ \A c, d \in sessionCalls : c.kind \in Updates /\ d.kind \in Updates => c = d
    /\ writes \cup made \subseteq [kind : {"free", "bound"}, to : Org, shown : Org, crossed : BOOLEAN]

\* When nothing is out, the header names the organisation the backend will be asked for.  The page
\* is of that organisation too, unless another tab or a late read of the session has changed the
\* cookie since; and it is the one the operator chose last, unless besides these the choice was
\* made while an earlier one was out, or failed (org-switcher.tsx:43-46).
QuietConsoleAgrees ==
    sessionCalls = {} /\ pageRefresh = Idle =>
        /\ named = cookie
        /\ ~seen.astray => page.org = cookie
        /\ ~seen.lost => wish = cookie

\* What a form creates lands in the organisation its page shows, over switches, new organisations,
\* lost memberships and late answers, unless it was submitted while a refresh was on its way or
\* after another tab or a late read of the session had moved the cookie; and then only what names
\* nothing of the page can land elsewhere (backend-server.ts:41-75).
CreatedWhereShown ==
    \A w \in made : w.to # w.shown => w.crossed /\ w.kind = "free"
=============================================================================

------------------------------- MODULE Dialogs -------------------------------
(***************************************************************************)
(* The console's forms: the dialogs and inline forms with which an         *)
(* operator creates and edits tenants, routes, tokens, grants, apps,       *)
(* members, organisations and settings.                                    *)
(*                                                                         *)
(* A form is a record of what its component does: the panels it leads      *)
(* through, the inputs without which a panel's button stays disabled, what *)
(* opening and closing reset, whether the button is disabled while its     *)
(* request is out, and what an accepted answer does.  One page with one    *)
(* form is modelled; which, is chosen at the start.  Requests, answers and *)
(* page refreshes take their time, the operator goes on meanwhile, and     *)
(* another operator may write in between.                                  *)
(*                                                                         *)
(* Abstracted: what is typed (an input is filled or empty), optional       *)
(* inputs, previews, error texts, toasts and animations.                   *)
(***************************************************************************)
EXTENDS Naturals, Sequences, FiniteSets

CONSTANTS
    Forms,          \* the forms explored
    MaxCalls,       \* bound: requests sent
    MaxDrafts,      \* bound: times the form is opened or mounted anew
    MaxOthers,      \* bound: writes of other operators
    None

(***************************************************************************)
(* Panels: the inputs the button waits for, and what it does.              *)
(***************************************************************************)
Panel(needs, does) == [needs |-> needs, does |-> does]

\* A dialog whose last panel sends; the others lead on.
Dialog(panels) ==
    [panels |-> panels,
     modal |-> TRUE,         \* has to be opened
     opening |-> "reset",    \* what opening does with what a visit before left: "reset", "keep"
     closing |-> "keep",     \* and closing
     locks |-> TRUE,         \* the button is disabled while a request is out
     done |-> "close",       \* an accepted answer: "close", "show" the result, "advance", "clear", "stay"
     refresh |-> "atOnce",   \* and the page: "atOnce", "onClose", "never"
     whole |-> FALSE,        \* the request carries the whole record, as the form shows it
     keyed |-> FALSE,        \* a refresh that changes the record mounts the form anew
     stages |-> FALSE,       \* every panel sends a request of its own
     mends |-> FALSE]        \* a failed connection leaves the form in place, not the error page

CreateAppIdentity == Panel({"name", "slug", "upstreamURL"}, "next")
CreateAppAccess == Panel({}, "next")
CreateAppPolicy == Panel({}, "next")
CreateAppHeaders == Panel({}, "send")
CreateAppModal == Dialog(<<CreateAppIdentity, CreateAppAccess, CreateAppPolicy, CreateAppHeaders>>)

\* Everything on one panel; the record is copied into the form whenever it opens.
EditAppPanel == Panel({"name", "upstreamURL"}, "send")
EditAppModal == [Dialog(<<EditAppPanel>>) EXCEPT !.whole = TRUE]

CreateRouteBasics == Panel({"tenantID", "slugName"}, "next")
CreateRouteRouting == Panel({"upstreamURL", "targetPath", "requiredScope", "methods"}, "next")
CreateRouteAdvanced == Panel({}, "send")
CreateRouteForm == Dialog(<<CreateRouteBasics, CreateRouteRouting, CreateRouteAdvanced>>)

UpdateRouteBasics == Panel({}, "next")
UpdateRouteRouting == Panel({}, "next")
UpdateRouteAdvanced == Panel({}, "send")
UpdateRouteForm ==
    [Dialog(<<UpdateRouteBasics, UpdateRouteRouting, UpdateRouteAdvanced>>) EXCEPT
        !.whole = TRUE, !.keyed = TRUE]

CreateTenantIdentity == Panel({"name", "tenantID"}, "next")
CreateTenantAuth == Panel({"headerName"}, "send")
CreateTenantForm == Dialog(<<CreateTenantIdentity, CreateTenantAuth>>)

UpdateTenantIdentity == Panel({}, "next")
UpdateTenantAuth == Panel({"headerName"}, "send")
UpdateTenantForm ==
    [Dialog(<<UpdateTenantIdentity, UpdateTenantAuth>>) EXCEPT !.whole = TRUE, !.keyed = TRUE]

\* The answer's secret takes the place of the panels; the page is refreshed when the dialog closes.
CreateTokenIdentity == Panel({"name", "tenantID", "scopes"}, "next")
CreateTokenPolicy == Panel({"expiresAt"}, "send")
CreateTokenForm ==
    [Dialog(<<CreateTokenIdentity, CreateTokenPolicy>>) EXCEPT !.done = "show", !.refresh = "onClose"]

CreateGrantIdentity == Panel({"name", "tenantID", "scopes"}, "next")
CreateGrantPolicy == Panel({"expiresAt"}, "send")
CreateGrantForm ==
    [Dialog(<<CreateGrantIdentity, CreateGrantPolicy>>) EXCEPT !.done = "show", !.refresh = "onClose"]

BulkPanel == Panel({"namePrefix", "tenantID", "scopes", "expiresAt"}, "send")
BulkCreateTokensModal == [Dialog(<<BulkPanel>>) EXCEPT !.done = "show", !.refresh = "onClose"]

\* The overview's quick actions open the same forms from outside, past what opening resets.
QuickTenant == [CreateTenantForm EXCEPT !.opening = "keep"]
QuickRoute == [CreateRouteForm EXCEPT !.opening = "keep"]
QuickToken == [CreateTokenForm EXCEPT !.opening = "keep"]

\* Four requests, or three for who has an organisation; nothing is disabled while one is out.
OnboardOrg == Panel({"orgName"}, "send")
OnboardTenant == Panel({"tenantName", "newTenantID"}, "send")
OnboardRoute == Panel({"routeSlug", "routeTenantID", "routeUpstreamURL", "requiredScope"}, "send")
OnboardToken == Panel({"tokenName", "tokenTenantID"}, "send")
OnboardingModal ==
    [Dialog(<<OnboardOrg, OnboardTenant, OnboardRoute, OnboardToken>>) EXCEPT
        !.opening = "keep", !.closing = "reset", !.locks = FALSE, !.done = "advance",
        !.stages = TRUE, !.mends = TRUE]

SetupWelcome == Panel({}, "next")
SetupAccount == Panel({"accountName", "email", "password", "confirmPassword"}, "next")
SetupOIDC == Panel({}, "send")
SetupComplete == Panel({}, "leave")
SetupWizard ==
    [Dialog(<<SetupWelcome, SetupAccount, SetupOIDC, SetupComplete>>) EXCEPT
        !.modal = FALSE, !.done = "advance", !.refresh = "never", !.mends = TRUE]

InviteModal ==
    [Dialog(<<Panel({}, "send")>>) EXCEPT
        !.opening = "keep", !.closing = "reset", !.done = "show", !.refresh = "never", !.mends = TRUE]
AddMemberModal == [Dialog(<<Panel({"email"}, "send")>>) EXCEPT !.locks = FALSE, !.mends = TRUE]
CreateOrgModal == [Dialog(<<Panel({"name"}, "send")>>) EXCEPT !.locks = FALSE, !.mends = TRUE]

\* Forms that stand on the page.
Inline(needs) == [Dialog(<<Panel(needs, "send")>>) EXCEPT !.modal = FALSE, !.mends = TRUE, !.done = "clear"]
OIDCSettingsForm == [Inline({}) EXCEPT !.whole = TRUE, !.done = "stay", !.refresh = "never"]
RetentionSave == [Inline({}) EXCEPT !.whole = TRUE, !.done = "stay", !.refresh = "never"]
RetentionPurge == [Inline({}) EXCEPT !.done = "stay", !.refresh = "never"]
AddIPRule == Inline({"cidr"})
GrantPlatformAdmin == Inline({"grantEmail"})
AddOIDCMapping == [Inline({"oidcGroup", "orgID"}) EXCEPT !.refresh = "never"]

Component == [
    createApp |-> CreateAppModal, editApp |-> EditAppModal,
    createRoute |-> CreateRouteForm, updateRoute |-> UpdateRouteForm,
    createTenant |-> CreateTenantForm, updateTenant |-> UpdateTenantForm,
    createToken |-> CreateTokenForm, createGrant |-> CreateGrantForm, bulk |-> BulkCreateTokensModal,
    quickTenant |-> QuickTenant, quickRoute |-> QuickRoute, quickToken |-> QuickToken,
    onboarding |-> OnboardingModal, setup |-> SetupWizard,
    invite |-> InviteModal, addMember |-> AddMemberModal, createOrg |-> CreateOrgModal,
    oidc |-> OIDCSettingsForm, retention |-> RetentionSave, purge |-> RetentionPurge,
    ipRule |-> AddIPRule, grantAdmin |-> GrantPlatformAdmin, mapping |-> AddOIDCMapping]

ASSUME DialogsAssumption == Forms \subseteq DOMAIN Component /\ None \notin Nat

\* Operators named Mut... are mutants, for the checks that a property notices a bug in the code.
VARIABLES
    kind,       \* the form on the page
    form,       \* its state in the browser
    hasOrg,     \* the session names an organisation
    skipped,    \* the wizard goes without a local account
    calls,      \* requests that are out
    rev,        \* the server: accepted writes so far
    page,       \* how many of them the page's data knows
    refresh,    \* router.refresh(): asked for, or read and on its way
    tally       \* history

vars == <<kind, form, hasOrg, skipped, calls, rev, page, refresh, tally>>

F == Component[kind]

Panels == IF kind = "onboarding" /\ hasOrg THEN Tail(F.panels) ELSE F.panels
Current == Panels[form.panel]
AllNeeds(f) == UNION {f.panels[i].needs : i \in DOMAIN f.panels}

Preset == {"targetPath", "methods", "headerName"}
Blank(f) == IF f.whole THEN AllNeeds(f) ELSE AllNeeds(f) \cap Preset

\* A component just mounted, on data that knows the first n writes.
Mounted(f, n, mount, draft) ==
    [open |-> ~f.modal, panel |-> 1, filled |-> Blank(f), base |-> n, known |-> n,
     shown |-> None, owed |-> FALSE, finished |-> {}, mount |-> mount, draft |-> draft]

Quiet == [at |-> "none", rev |-> 0]

Init ==
    /\ kind \in Forms
    /\ form = Mounted(F, 0, 0, 0)
    /\ hasOrg \in (IF kind = "onboarding" THEN BOOLEAN ELSE {FALSE})
    /\ skipped = FALSE
    /\ calls = {} /\ rev = 0 /\ page = 0 /\ refresh = Quiet
    /\ tally = [sent |-> 0,             \* requests sent
                others |-> 0,           \* writes of other operators
                incomplete |-> FALSE,   \* a request lacked what its form insists on
                accepted |-> {},        \* what the server accepted: the write and the draft it came from
                lost |-> {},            \* the writes whose acceptance was reported as a failure
                undone |-> {}]          \* the writes a save undid although the page showed them
                                        \*   when the form was opened

Mine(c) == c.mount = form.mount
MutNeverPending == FALSE
MutPendingPerDraft == \E c \in calls : Mine(c) /\ c.draft = form.draft
IsPending == \E c \in calls : Mine(c)

Ask == [refresh EXCEPT !.at = "asked"]
Refreshed == IF F.refresh = "atOnce" THEN Ask ELSE refresh

(***************************************************************************)
(* The operator.  The result of a request takes the panels' place; in the  *)
(* onboarding wizard it takes the last panel's.                            *)
(***************************************************************************)
ResultShown == form.open /\ form.shown # None /\ (F.stages => form.panel = Len(Panels))
OnPanel == form.open /\ ~ResultShown /\ form.panel \in DOMAIN Panels

Cleared(f) == [f EXCEPT !.panel = 1, !.filled = Blank(F), !.base = page,
                        !.shown = None, !.owed = FALSE, !.finished = {}]

MutOpenKeeps == [form EXCEPT !.open = TRUE, !.draft = @ + 1, !.known = page]
Opened ==
    LET again == [form EXCEPT !.open = TRUE, !.draft = @ + 1, !.known = page] IN
    CASE F.opening = "reset" -> Cleared(again)
      [] F.stages -> [again EXCEPT !.panel = 1]
      [] OTHER -> again

Open ==
    /\ F.modal /\ ~form.open /\ form.draft < MaxDrafts
    /\ form' = Opened
    /\ UNCHANGED <<kind, hasOrg, skipped, calls, rev, page, refresh, tally>>

Close ==
    /\ F.modal /\ form.open
    /\ form' = [(IF F.closing = "reset" THEN Cleared(form) ELSE form) EXCEPT !.open = FALSE, !.owed = FALSE]
    /\ refresh' = IF form.owed /\ F.refresh = "onClose" THEN Ask ELSE refresh
    /\ UNCHANGED <<kind, hasOrg, skipped, calls, rev, page, tally>>

\* The onboarding wizard's last button closes it past the handler that resets it.
FinishAndClose ==
    /\ F.stages /\ ResultShown
    /\ form' = [form EXCEPT !.open = FALSE]
    /\ UNCHANGED <<kind, hasOrg, skipped, calls, rev, page, refresh, tally>>

Fill ==
    /\ OnPanel /\ ~(Current.needs \subseteq form.filled)
    /\ form' = [form EXCEPT !.filled = @ \cup Current.needs]
    /\ UNCHANGED <<kind, hasOrg, skipped, calls, rev, page, refresh, tally>>

\* One input at a time is emptied; picking another tenant empties the route's name as well.
Empty(input) ==
    /\ OnPanel /\ input \in Current.needs /\ Current.needs \subseteq form.filled
    /\ form' = [form EXCEPT !.filled = @ \ ({input} \cup
                    IF Current = CreateRouteBasics /\ input = "tenantID" THEN {"slugName"} ELSE {})]
    /\ UNCHANGED <<kind, hasOrg, skipped, calls, rev, page, refresh, tally>>

\* A panel that sends is passed only when it has been done.
Passes ==
    \/ Current.does = "next" /\ Current.needs \subseteq form.filled
    \/ Current \in form.finished
HasNext == form.panel < Len(Panels)

GoNext ==
    /\ OnPanel /\ HasNext /\ Passes
    /\ form' = [form EXCEPT !.panel = @ + 1]
    /\ UNCHANGED <<kind, hasOrg, skipped, calls, rev, page, refresh, tally>>

\* The setup wizard goes back from its provider panel only, and then asks for the account again.
GoBack ==
    /\ OnPanel /\ form.panel > 1
    /\ kind = "setup" => Current = SetupOIDC
    /\ form' = [form EXCEPT !.panel = @ - 1]
    /\ skipped' = FALSE
    /\ UNCHANGED <<kind, hasOrg, calls, rev, page, refresh, tally>>

HandleSkipAccount ==
    /\ OnPanel /\ Current = SetupAccount
    /\ form' = [form EXCEPT !.panel = @ + 1]
    /\ skipped' = TRUE
    /\ UNCHANGED <<kind, hasOrg, calls, rev, page, refresh, tally>>

\* Without a local account the wizard insists on the provider, and on the administrators' group.
OIDCOnly == {"issuer", "clientID", "clientSecret", "adminGroup"}
FillOIDC ==
    /\ OnPanel /\ Current = SetupOIDC /\ ~(OIDCOnly \subseteq form.filled)
    /\ form' = [form EXCEPT !.filled = @ \cup OIDCOnly]
    /\ UNCHANGED <<kind, hasOrg, skipped, calls, rev, page, refresh, tally>>

\* What the request must not go without: every panel's inputs, or this panel's where each has its own.
Insists ==
    IF skipped THEN OIDCOnly
    ELSE IF F.stages THEN Current.needs
    ELSE AllNeeds(F)

HandleSubmit ==
    /\ OnPanel /\ Current.does = "send" /\ Current \notin form.finished
    /\ (IF skipped THEN OIDCOnly ELSE Current.needs) \subseteq form.filled
    /\ F.locks => ~IsPending
    /\ tally.sent < MaxCalls
    /\ calls' = calls \cup {[id |-> tally.sent + 1, at |-> "sent", mount |-> form.mount,
                             draft |-> form.draft, panel |-> Current, panels |-> Len(Panels),
                             base |-> form.base, known |-> form.known, rev |-> 0]}
    /\ tally' = [tally EXCEPT !.sent = @ + 1, !.incomplete = @ \/ ~(Insists \subseteq form.filled)]
    /\ UNCHANGED <<kind, form, hasOrg, skipped, rev, page, refresh>>

(***************************************************************************)
(* The server, and the way back.  An answer that is lost after the server  *)
(* accepted reaches the form as a failure.                                 *)
(***************************************************************************)
Moved(c, to) == (calls \ {c}) \cup {to}
Accepted(cs) == {c.rev : c \in {d \in cs : d.at # "sent"}}

Accept(c) ==
    /\ c.at = "sent"
    /\ rev' = rev + 1
    /\ calls' = Moved(c, [c EXCEPT !.at = "accepted", !.rev = rev + 1])
    /\ tally' = [tally EXCEPT
            !.accepted = @ \cup {[draft |-> c.draft, rev |-> rev + 1]},
            !.undone = IF F.whole THEN @ \cup ((c.base + 1) .. c.known) ELSE @]
    /\ UNCHANGED <<kind, form, hasOrg, skipped, page, refresh>>

Refused(c) ==
    /\ c.at \in {"sent", "accepted"}
    /\ calls' = calls \ {c}
    /\ tally' = [tally EXCEPT !.lost = @ \cup Accepted({c})]
    /\ UNCHANGED <<kind, form, hasOrg, skipped, rev, page, refresh>>

\* fetch rejects: in a transition without a catch that is the error page, and a reload after it.
Disconnected(c) ==
    /\ c.at \in {"sent", "accepted"} /\ ~F.mends /\ form.draft < MaxDrafts
    /\ calls' = {}
    /\ form' = Mounted(F, rev, form.mount + 1, form.draft + 1)
    /\ page' = rev
    /\ refresh' = Quiet
    /\ tally' = [tally EXCEPT !.lost = @ \cup Accepted(calls)]
    /\ UNCHANGED <<kind, hasOrg, skipped, rev>>

OtherWrites ==
    /\ F.whole /\ tally.others < MaxOthers
    /\ rev' = rev + 1
    /\ tally' = [tally EXCEPT !.others = @ + 1]
    /\ UNCHANGED <<kind, form, hasOrg, skipped, calls, page, refresh>>

(***************************************************************************)
(* What an accepted request does to the form, whatever has become of it.   *)
(***************************************************************************)
Lesser(a, b) == IF a < b THEN a ELSE b

\* goNext counts the panels there were when the request was sent.
Advanced(c, g) == [g EXCEPT !.panel = IF F.stages THEN Lesser(@ + 1, c.panels) ELSE Len(Panels)]

Applied(c, g) ==
    CASE c.panel = OnboardToken -> [g EXCEPT !.shown = c.id]
      [] c.panel = OnboardTenant -> [Advanced(c, g) EXCEPT
            !.finished = @ \cup {c.panel}, !.filled = @ \cup {"routeTenantID", "tokenTenantID"}]
      [] F.done = "close" -> [g EXCEPT !.open = FALSE]
      [] F.done = "show" -> [g EXCEPT !.shown = c.id, !.owed = TRUE]
      [] F.done = "clear" -> [g EXCEPT !.filled = Blank(F), !.draft = @ + 1]
      [] F.done = "stay" -> [g EXCEPT !.base = c.rev, !.known = c.rev]
      [] OTHER -> [Advanced(c, g) EXCEPT !.finished = @ \cup {c.panel}]

\* A new organisation is made the session's before anything else happens.
AwaitsSession(c) == c.panel = OnboardOrg \/ kind = "createOrg"

Delivered(c) ==
    /\ calls' = calls \ {c}
    /\ form' = IF Mine(c) THEN Applied(c, form) ELSE form
    /\ refresh' = Refreshed

Answer(c) ==
    /\ c.at = "accepted" /\ ~AwaitsSession(c)
    /\ Delivered(c)
    /\ UNCHANGED <<kind, hasOrg, skipped, rev, page, tally>>

AnswerOrg(c) ==
    /\ c.at = "accepted" /\ AwaitsSession(c)
    /\ calls' = Moved(c, [c EXCEPT !.at = "session"])
    /\ form' = [form EXCEPT !.finished = @ \cup {c.panel}]
    /\ UNCHANGED <<kind, hasOrg, skipped, rev, page, refresh, tally>>

UpdateSession(c) ==
    /\ c.at = "session"
    /\ hasOrg' = TRUE
    /\ Delivered(c)
    /\ UNCHANGED <<kind, skipped, rev, page, tally>>

(***************************************************************************)
(* router.refresh(): the server is read, and later the page's data is      *)
(* replaced.  Asked for again in between, it is read again.                *)
(***************************************************************************)
Read ==
    /\ refresh.at = "asked"
    /\ refresh' = [at |-> "read", rev |-> rev]
    /\ UNCHANGED <<kind, form, hasOrg, skipped, calls, rev, page, tally>>

\* A keyed form is mounted anew when one of the values in its key has changed.
Arrive ==
    /\ refresh.at = "read"
    /\ page' = refresh.rev
    /\ refresh' = Quiet
    /\ \/ UNCHANGED form
       \/ /\ F.keyed /\ page # refresh.rev
          /\ form' = Mounted(F, page', form.mount + 1, form.draft)
    /\ UNCHANGED <<kind, hasOrg, skipped, calls, rev, tally>>

\* Something else on the page asks for its data.
Elsewhere ==
    /\ F.whole /\ refresh.at = "none" /\ page < rev
    /\ refresh' = Ask
    /\ UNCHANGED <<kind, form, hasOrg, skipped, calls, rev, page, tally>>

(***************************************************************************)
(* Specification: answers come, and what was asked for is read; the        *)
(* operator may do nothing.                                                *)
(***************************************************************************)
Server(c) == Accept(c) \/ Refused(c) \/ Disconnected(c) \/ Answer(c) \/ AnswerOrg(c) \/ UpdateSession(c)

Operator ==
    \/ Open \/ Close \/ FinishAndClose \/ Fill \/ FillOIDC \/ GoNext \/ GoBack
    \/ HandleSkipAccount \/ HandleSubmit
    \/ \E input \in AllNeeds(F) : Empty(input)

Next ==
    \/ Operator
    \/ \E c \in calls : Server(c)
    \/ OtherWrites \/ Read \/ Arrive \/ Elsewhere

Fairness ==
    /\ WF_vars(\E c \in calls : Server(c))
    /\ WF_vars(Read) /\ WF_vars(Arrive)

Spec == Init /\ [][Next]_vars /\ Fairness

(***************************************************************************)
(* Properties                                                              *)
(***************************************************************************)

\* The variables stay in their types; the panel a form stands on exists, except that the
\* onboarding wizard, whose buttons stay enabled, can run past its end.
TypeOK ==
    /\ kind \in Forms /\ hasOrg \in BOOLEAN /\ skipped \in BOOLEAN
    /\ form.open \in BOOLEAN /\ form.owed \in BOOLEAN
    /\ form.panel \in 1 .. Len(F.panels) /\ (F.locks => form.panel \in DOMAIN Panels)
    /\ form.shown \in {None} \cup (1 .. MaxCalls)
    /\ form.filled \subseteq AllNeeds(F) \cup OIDCOnly
    /\ form.finished \subseteq {F.panels[i] : i \in DOMAIN F.panels}
    /\ \A c \in calls : c.id \in 1 .. tally.sent /\ c.at \in {"sent", "accepted", "session"}
    /\ refresh.at \in {"none", "asked", "read"} /\ refresh.rev <= rev
    /\ page <= rev /\ rev <= MaxCalls + MaxOthers
    /\ Cardinality(tally.accepted) + tally.others = rev

\* However the operator goes back and forth, empties inputs, changes the tenant, or skips the
\* account and returns, no request leaves without an input its form insists on: every panel's
\* button looks at its own inputs only, so those of the panels before must have stayed filled.
SubmittedComplete == ~tally.incomplete

\* One draft becomes one record.  Of a form whose button is disabled while its request is out,
\* two requests of the same draft are accepted only if the answer to the first was lost: the
\* dialog stayed open with an error, and the operator sent it again.
DraftAcceptedOnce ==
    F.locks /\ F.done # "stay" =>
        \A a, b \in tally.accepted : a.draft = b.draft /\ a.rev < b.rev => a.rev \in tally.lost

\* A save that sends the whole record overwrites what others wrote since the form took its copy;
\* it never overwrites a write that the page showed when the form was opened: opening, a new
\* mount, and a save's own answer bring the copy up to what is shown.
SavesUndoNothingShown == tally.undone = {}

\* A secret that is shown once stays on the screen until the operator closes the dialog: no late
\* answer of another request takes its place, whatever was sent before the dialog was closed and
\* opened again.
ResultStaysOnScreen == [][F.locks /\ ResultShown /\ form'.open => form'.shown = form.shown]_vars

=============================================================================

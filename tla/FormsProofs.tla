----------------------------- MODULE FormsProofs ------------------------------
(***************************************************************************)
(* The console's forms, and the settings that the sign-in form saves and   *)
(* the console caches.                                                     *)
(***************************************************************************)
EXTENDS Dialogs, OIDCCache, FiniteSetTheorems, TLAPS

(***************************************************************************)
(* The console's forms, for any number of requests and of other writers,   *)
(* and for every form of the table. The invariant: a save of a whole       *)
(* record carries what the form knew when it opened; a form that locks     *)
(* while it sends has one request out, and none while a result is on the   *)
(* screen; and when a draft has been accepted, nothing more is sent of it, *)
(* or the answer that says so is on its way or was lost.                   *)
(***************************************************************************)

FormFields == {"open", "panel", "filled", "base", "known", "shown", "owed", "finished", "mount", "draft"}
CallFields == {"id", "at", "mount", "draft", "panel", "panels", "base", "known", "rev"}
TallyFields == {"sent", "others", "incomplete", "accepted", "lost", "undone"}

Sends(p) == \E i \in DOMAIN F.panels : p = F.panels[i] /\ p.does = "send"

Shapes ==
    /\ kind \in Forms /\ rev \in Nat /\ page \in Nat
    /\ refresh \in [at : {"none", "asked", "read"}, rev : Nat]
    /\ DOMAIN form = FormFields
    /\ form.open \in BOOLEAN /\ form.mount \in Nat /\ form.draft \in Nat
    /\ \A c \in calls : /\ DOMAIN c = CallFields
                        /\ c.id \in Nat /\ c.mount \in Nat /\ c.draft \in Nat /\ c.rev \in Nat
                        /\ c.mount <= form.mount /\ c.draft <= form.draft
                        /\ F.locks => Sends(c.panel)
    /\ DOMAIN tally = TallyFields
    /\ tally.sent \in Nat /\ tally.accepted \subseteq [draft : Nat, rev : Nat]

\* What a save carries is what the form showed when it was opened.
Copies ==
    /\ F.whole => form.base = form.known /\ form.base \in Nat
    /\ F.whole => \A c \in calls : c.base = c.known /\ c.base \in Nat
    /\ tally.undone = {}

\* One request at a time of a form that is mounted, and one of a draft; none while a result is kept.
Alone ==
    F.locks =>
        /\ \A c, d \in calls : Mine(c) /\ Mine(d) => c = d
        /\ \A c, d \in calls : c.draft = d.draft => c = d
        /\ form.shown # None => \A c \in calls : ~Mine(c)
        /\ form.open => \A c \in calls : ~Mine(c) => c.draft < form.draft

\* Nothing more is sent of this draft.
Spent ==
    \/ ~form.open \/ form.shown # None
    \/ \A i \in DOMAIN F.panels : F.panels[i].does = "send" => F.panels[i] \in form.finished

OneRecord ==
    F.locks /\ F.done # "stay" =>
        /\ \A a \in tally.accepted : a.draft <= form.draft /\ a.rev <= rev
        /\ \A a \in tally.accepted : a.draft = form.draft =>
               a.rev \in tally.lost \/ Spent \/ \E c \in calls : c.at # "sent" /\ c.rev = a.rev /\ c.draft = a.draft
        /\ \A c \in calls : c.at = "sent" => \A a \in tally.accepted : a.draft = c.draft => a.rev \in tally.lost
        /\ DraftAcceptedOnce

IInv == Shapes /\ Copies /\ Alone /\ OneRecord

(***************************************************************************)
(* What the table of forms says of every one of them.                      *)
(***************************************************************************)
OneSends(f) ==
    \A i, j \in DOMAIN f.panels :
        f.panels[i].does = "send" /\ f.panels[j].does = "send" => f.panels[i] = f.panels[j]

Lawful(f) ==
    /\ f.locks => ~f.stages /\ OneSends(f)
    /\ f.stages => f.opening # "reset"
    /\ f.keyed => f.modal
    /\ ~f.modal => f.mends
    /\ f.whole => f.opening = "reset" /\ f.closing = "keep"
    /\ f.done \in {"close", "show", "advance", "clear", "stay"}
    /\ f.modal \in BOOLEAN /\ f.locks \in BOOLEAN

LEMMA DialogFields ==
  ASSUME NEW p
  PROVE  LET f == Dialog(p) IN
         /\ f.panels = p /\ f.modal = TRUE /\ f.opening = "reset" /\ f.closing = "keep" /\ f.locks = TRUE
         /\ f.done = "close" /\ f.whole = FALSE /\ f.keyed = FALSE /\ f.stages = FALSE /\ f.mends = FALSE
  BY DEF Dialog

LEMMA FourPanels ==
  ASSUME NEW a, NEW b, NEW c, NEW d, a.does # "send", b.does # "send", c.does # "send" \/ d.does # "send",
         NEW f, f.panels = <<a, b, c, d>>
  PROVE  OneSends(f)
  BY DEF OneSends

LEMMA ThreePanels ==
  ASSUME NEW a, NEW b, NEW c, a.does # "send", b.does # "send", NEW f, f.panels = <<a, b, c>>
  PROVE  OneSends(f)
  BY DEF OneSends

LEMMA TwoPanels ==
  ASSUME NEW a, NEW b, a.does # "send", NEW f, f.panels = <<a, b>>
  PROVE  OneSends(f)
  BY DEF OneSends

LEMMA OnePanel ==
  ASSUME NEW a, NEW f, f.panels = <<a>>
  PROVE  OneSends(f)
  BY DEF OneSends

LEMMA AppForms == Lawful(CreateAppModal) /\ Lawful(EditAppModal)
<1>1. OneSends(CreateAppModal) /\ OneSends(EditAppModal)
  <2>1. CreateAppModal.panels = <<CreateAppIdentity, CreateAppAccess, CreateAppPolicy, CreateAppHeaders>>
        /\ EditAppModal.panels = <<EditAppPanel>>
    BY DEF CreateAppModal, EditAppModal, Dialog
  <2>2. CreateAppIdentity.does = "next" /\ CreateAppAccess.does = "next" /\ CreateAppPolicy.does = "next"
    BY DEF CreateAppIdentity, CreateAppAccess, CreateAppPolicy, Panel
  <2> QED BY <2>1, <2>2, FourPanels, OnePanel
<1> QED BY <1>1 DEF Lawful, CreateAppModal, EditAppModal, Dialog

LEMMA RouteForms == Lawful(CreateRouteForm) /\ Lawful(UpdateRouteForm) /\ Lawful(QuickRoute)
<1>1. OneSends(CreateRouteForm) /\ OneSends(UpdateRouteForm) /\ OneSends(QuickRoute)
  <2>1. /\ CreateRouteForm.panels = <<CreateRouteBasics, CreateRouteRouting, CreateRouteAdvanced>>
        /\ QuickRoute.panels = <<CreateRouteBasics, CreateRouteRouting, CreateRouteAdvanced>>
        /\ UpdateRouteForm.panels = <<UpdateRouteBasics, UpdateRouteRouting, UpdateRouteAdvanced>>
    BY DEF CreateRouteForm, UpdateRouteForm, QuickRoute, Dialog
  <2>2. /\ CreateRouteBasics.does = "next" /\ CreateRouteRouting.does = "next"
        /\ UpdateRouteBasics.does = "next" /\ UpdateRouteRouting.does = "next"
    BY DEF CreateRouteBasics, CreateRouteRouting, UpdateRouteBasics, UpdateRouteRouting, Panel
  <2> QED BY <2>1, <2>2, ThreePanels
<1>2. Lawful(CreateRouteForm)
  BY <1>1 DEF Lawful, CreateRouteForm, Dialog
<1>3. Lawful(UpdateRouteForm)
  BY <1>1 DEF Lawful, UpdateRouteForm, Dialog
<1>4. Lawful(QuickRoute)
  BY <1>1 DEF Lawful, QuickRoute, CreateRouteForm, Dialog
<1> QED BY <1>2, <1>3, <1>4

LEMMA TenantForms == Lawful(CreateTenantForm) /\ Lawful(UpdateTenantForm) /\ Lawful(QuickTenant)
<1>1. OneSends(CreateTenantForm) /\ OneSends(UpdateTenantForm) /\ OneSends(QuickTenant)
  <2>1. /\ CreateTenantForm.panels = <<CreateTenantIdentity, CreateTenantAuth>>
        /\ QuickTenant.panels = <<CreateTenantIdentity, CreateTenantAuth>>
        /\ UpdateTenantForm.panels = <<UpdateTenantIdentity, UpdateTenantAuth>>
    BY DEF CreateTenantForm, UpdateTenantForm, QuickTenant, Dialog
  <2>2. CreateTenantIdentity.does = "next" /\ UpdateTenantIdentity.does = "next"
    BY DEF CreateTenantIdentity, UpdateTenantIdentity, Panel
  <2> QED BY <2>1, <2>2, TwoPanels
<1>2. Lawful(CreateTenantForm)
  BY <1>1 DEF Lawful, CreateTenantForm, Dialog
<1>3. Lawful(UpdateTenantForm)
  BY <1>1 DEF Lawful, UpdateTenantForm, Dialog
<1>4. Lawful(QuickTenant)
  BY <1>1 DEF Lawful, QuickTenant, CreateTenantForm, Dialog
<1> QED BY <1>2, <1>3, <1>4

LEMMA TokenForms ==
  Lawful(CreateTokenForm) /\ Lawful(CreateGrantForm) /\ Lawful(BulkCreateTokensModal) /\ Lawful(QuickToken)
<1>1. /\ OneSends(CreateTokenForm) /\ OneSends(QuickToken)
      /\ OneSends(CreateGrantForm) /\ OneSends(BulkCreateTokensModal)
  <2>1. /\ CreateTokenForm.panels = <<CreateTokenIdentity, CreateTokenPolicy>>
        /\ QuickToken.panels = <<CreateTokenIdentity, CreateTokenPolicy>>
        /\ CreateGrantForm.panels = <<CreateGrantIdentity, CreateGrantPolicy>>
        /\ BulkCreateTokensModal.panels = <<BulkPanel>>
    BY DEF CreateTokenForm, QuickToken, CreateGrantForm, BulkCreateTokensModal, Dialog
  <2>2. CreateTokenIdentity.does = "next" /\ CreateGrantIdentity.does = "next"
    BY DEF CreateTokenIdentity, CreateGrantIdentity, Panel
  <2> QED BY <2>1, <2>2, TwoPanels, OnePanel
<1>2. Lawful(CreateTokenForm)
  BY <1>1 DEF Lawful, CreateTokenForm, Dialog
<1>3. Lawful(CreateGrantForm)
  BY <1>1 DEF Lawful, CreateGrantForm, Dialog
<1>4. Lawful(BulkCreateTokensModal)
  BY <1>1 DEF Lawful, BulkCreateTokensModal, Dialog
<1>5. Lawful(QuickToken)
  BY <1>1 DEF Lawful, QuickToken, CreateTokenForm, Dialog
<1> QED BY <1>2, <1>3, <1>4, <1>5

LEMMA WizardForms == Lawful(OnboardingModal) /\ Lawful(SetupWizard)
<1>1. OneSends(SetupWizard)
  <2>1. SetupWizard.panels = <<SetupWelcome, SetupAccount, SetupOIDC, SetupComplete>>
    BY DEF SetupWizard, Dialog
  <2>2. SetupWelcome.does = "next" /\ SetupAccount.does = "next" /\ SetupComplete.does = "leave"
    BY DEF SetupWelcome, SetupAccount, SetupComplete, Panel
  <2> QED BY <2>1, <2>2, FourPanels
<1>2. Lawful(SetupWizard)
  BY <1>1 DEF Lawful, SetupWizard, Dialog
<1>3. Lawful(OnboardingModal)
  BY DEF Lawful, OnboardingModal, Dialog
<1> QED BY <1>2, <1>3

LEMMA SmallDialogs == Lawful(InviteModal) /\ Lawful(AddMemberModal) /\ Lawful(CreateOrgModal)
<1>1. \A needs : \A f : f.panels = <<Panel(needs, "send")>> => OneSends(f)
  BY OnePanel
<1>2. Lawful(InviteModal)
  BY <1>1 DEF Lawful, InviteModal, Dialog
<1>3. Lawful(AddMemberModal)
  BY <1>1 DEF Lawful, AddMemberModal, Dialog
<1>4. Lawful(CreateOrgModal)
  BY <1>1 DEF Lawful, CreateOrgModal, Dialog
<1> QED BY <1>2, <1>3, <1>4

LEMMA InlineForms ==
  /\ Lawful(OIDCSettingsForm) /\ Lawful(RetentionSave) /\ Lawful(RetentionPurge)
  /\ Lawful(AddIPRule) /\ Lawful(GrantPlatformAdmin) /\ Lawful(AddOIDCMapping)
<1>1. ASSUME NEW needs, NEW f, f.panels = <<Panel(needs, "send")>> PROVE OneSends(f)
  BY <1>1, OnePanel
<1>2. Lawful(OIDCSettingsForm)
  BY <1>1 DEF Lawful, OIDCSettingsForm, Inline, Dialog
<1>3. Lawful(RetentionSave)
  BY <1>1 DEF Lawful, RetentionSave, Inline, Dialog
<1>4. Lawful(RetentionPurge)
  BY <1>1 DEF Lawful, RetentionPurge, Inline, Dialog
<1>5. Lawful(AddIPRule) /\ Lawful(GrantPlatformAdmin)
  BY <1>1 DEF Lawful, AddIPRule, GrantPlatformAdmin, Inline, Dialog
<1>6. Lawful(AddOIDCMapping)
  BY <1>1 DEF Lawful, AddOIDCMapping, Inline, Dialog
<1> QED BY <1>2, <1>3, <1>4, <1>5, <1>6

LEMMA EveryForm == \A k \in DOMAIN Component : Lawful(Component[k])
<1> SUFFICES ASSUME NEW k \in DOMAIN Component PROVE Lawful(Component[k])
  OBVIOUS
<1>1. \/ Component[k] \in {CreateAppModal, EditAppModal, CreateRouteForm, UpdateRouteForm, QuickRoute}
      \/ Component[k] \in {CreateTenantForm, UpdateTenantForm, QuickTenant}
      \/ Component[k] \in {CreateTokenForm, CreateGrantForm, BulkCreateTokensModal, QuickToken}
      \/ Component[k] \in {OnboardingModal, SetupWizard, InviteModal, AddMemberModal, CreateOrgModal}
      \/ Component[k] \in {OIDCSettingsForm, RetentionSave, RetentionPurge}
      \/ Component[k] \in {AddIPRule, GrantPlatformAdmin, AddOIDCMapping}
  BY DEF Component
<1> QED BY <1>1, AppForms, RouteForms, TenantForms, TokenForms, WizardForms, SmallDialogs, InlineForms

(***************************************************************************)
(* The invariant is kept.                                                  *)
(***************************************************************************)
LEMMA TheForm ==
  ASSUME IInv, kind' = kind
  PROVE  Lawful(F) /\ F' = F
<1>1. kind \in DOMAIN Component
  BY DialogsAssumption DEF IInv, Shapes
<1>2. F' = F
  BY DEF F
<1> QED BY <1>1, <1>2, EveryForm DEF F

SameForm(g) ==
    /\ DOMAIN g = FormFields
    /\ g.open = form.open /\ g.base = form.base /\ g.known = form.known /\ g.shown = form.shown
    /\ g.finished = form.finished /\ g.mount = form.mount /\ g.draft = form.draft

\* Steps that neither send, answer, open, close nor mount.
LEMMA Undisturbed ==
  ASSUME IInv, kind' = kind, calls' = calls, SameForm(form'),
         rev' \in Nat, rev <= rev', page' \in Nat, refresh' \in [at : {"none", "asked", "read"}, rev : Nat],
         DOMAIN tally' = TallyFields, tally'.sent = tally.sent, tally'.accepted = tally.accepted,
         tally'.lost = tally.lost, tally'.undone = tally.undone
  PROVE  IInv'
<1>1. F' = F
  BY TheForm
<1> HIDE DEF F
<1>2. Shapes'
  BY <1>1 DEF IInv, Shapes, SameForm, Sends
<1>3. Copies'
  BY <1>1 DEF IInv, Copies, SameForm
<1>4. Alone'
  BY <1>1 DEF IInv, Alone, SameForm, Mine
<1>5. OneRecord'
  <2>1. Spent' <=> Spent
    BY <1>1 DEF SameForm, Spent
  <2>2. DraftAcceptedOnce => DraftAcceptedOnce'
    BY <1>1 DEF DraftAcceptedOnce
  <2> SUFFICES ASSUME F.locks, F.done # "stay" PROVE OneRecord'
    BY <1>1 DEF OneRecord
  <2>3. \A a \in tally.accepted : a.draft <= form.draft /\ a.rev <= rev /\ a.rev \in Nat
    BY DEF IInv, OneRecord, Shapes
  <2>4. \A a \in tally'.accepted : a.draft <= form'.draft /\ a.rev <= rev'
    BY <2>3 DEF SameForm, IInv, Shapes
  <2> QED BY <2>1, <2>2, <2>4 DEF IInv, OneRecord, SameForm
<1> QED BY <1>2, <1>3, <1>4, <1>5 DEF IInv

LEMMA EditingSteps ==
  ASSUME IInv,
         \/ Fill \/ FillOIDC \/ GoNext \/ GoBack \/ HandleSkipAccount
         \/ \E input \in AllNeeds(F) : Empty(input)
  PROVE  IInv' /\ form'.shown = form.shown
<1>1. /\ kind' = kind /\ calls' = calls /\ tally' = tally /\ rev' = rev /\ page' = page /\ refresh' = refresh
  BY DEF Fill, FillOIDC, GoNext, GoBack, HandleSkipAccount, Empty
<1>2. \/ \E x : form' = [form EXCEPT !.filled = x]
      \/ \E x : form' = [form EXCEPT !.panel = x]
  BY DEF Fill, FillOIDC, GoNext, GoBack, HandleSkipAccount, Empty
<1>3. SameForm(form')
  BY <1>2 DEF IInv, Shapes, SameForm, FormFields
<1>4. rev \in Nat /\ page \in Nat /\ refresh \in [at : {"none", "asked", "read"}, rev : Nat] /\ DOMAIN tally = TallyFields
  BY DEF IInv, Shapes
<1> QED BY <1>1, <1>3, <1>4, Undisturbed DEF SameForm

LEMMA PageSteps ==
  ASSUME IInv, OtherWrites \/ Read \/ Elsewhere
  PROVE  IInv' /\ form' = form
<1>1. rev \in Nat /\ page \in Nat /\ refresh \in [at : {"none", "asked", "read"}, rev : Nat] /\ DOMAIN tally = TallyFields
      /\ DOMAIN form = FormFields
  BY DEF IInv, Shapes
<1>2. kind' = kind /\ calls' = calls /\ form' = form /\ page' = page /\ rev' \in Nat /\ rev <= rev'
  BY <1>1 DEF OtherWrites, Read, Elsewhere
<1>3. refresh' \in [at : {"none", "asked", "read"}, rev : Nat]
  BY <1>1 DEF OtherWrites, Read, Elsewhere, Ask
<1>4. tally' = tally \/ tally' = [tally EXCEPT !.others = @ + 1]
  BY DEF OtherWrites, Read, Elsewhere
<1>5. DOMAIN tally' = TallyFields /\ tally'.sent = tally.sent /\ tally'.accepted = tally.accepted
      /\ tally'.lost = tally.lost /\ tally'.undone = tally.undone
  BY <1>1, <1>4 DEF TallyFields
<1>6. SameForm(form')
  BY <1>1, <1>2 DEF SameForm
<1> QED BY <1>1, <1>2, <1>3, <1>5, <1>6, Undisturbed

\* Opening begins another draft, of which nothing was sent.
LEMMA OpenStep ==
  ASSUME IInv, Open
  PROVE  IInv'
<1>1. F' = F /\ Lawful(F)
  BY TheForm DEF Open
<1> HIDE DEF F
<1>2. /\ UNCHANGED <<kind, calls, rev, page, refresh, tally>>
      /\ F.modal /\ ~form.open /\ form' = Opened
  BY DEF Open
<1>3. /\ DOMAIN form' = FormFields /\ form'.open = TRUE /\ form'.mount = form.mount /\ form'.draft = form.draft + 1
      /\ form'.known = page /\ form'.shown \in {form.shown, None}
      /\ F.whole => form'.base = page
  <2> DEFINE again == [form EXCEPT !.open = TRUE, !.draft = @ + 1, !.known = page]
  <2>1. DOMAIN again = FormFields /\ again.open = TRUE /\ again.mount = form.mount /\ again.draft = form.draft + 1
        /\ again.known = page /\ again.shown = form.shown
    BY DEF IInv, Shapes, FormFields
  <2>2. \/ F.opening = "reset" /\ form' = Cleared(again)
        \/ F.opening # "reset" /\ (form' = [again EXCEPT !.panel = 1] \/ form' = again)
    <3>1. form' = CASE F.opening = "reset" -> Cleared(again) [] F.stages -> [again EXCEPT !.panel = 1] [] OTHER -> again
      BY <1>2 DEF Opened
    <3> HIDE DEF again
    <3>2. CASE F.opening = "reset"
      BY <3>2, <3>1, <1>1 DEF Lawful
    <3>3. CASE F.opening # "reset"
      BY <3>3, <3>1
    <3> QED BY <3>2, <3>3
  <2> HIDE DEF again
  <2>3. F.whole => F.opening = "reset"
    BY <1>1 DEF Lawful
  <2> QED BY <2>1, <2>2, <2>3 DEF Cleared, FormFields
<1>4. \A c \in calls : c.draft < form'.draft
  BY <1>3 DEF IInv, Shapes
<1>5. Shapes'
  <2>1. form'.draft \in Nat /\ form'.mount \in Nat
    BY <1>3 DEF IInv, Shapes
  <2>2. \A c \in calls : c.mount <= form'.mount /\ c.draft <= form'.draft
    BY <1>3, <1>4 DEF IInv, Shapes
  <2>3. form'.open \in BOOLEAN
    BY <1>3
  <2> QED BY <1>1, <1>2, <1>3, <2>1, <2>2, <2>3 DEF IInv, Shapes, Sends
<1>6. Copies'
  BY <1>1, <1>2, <1>3 DEF IInv, Copies, Shapes
<1>7. Alone'
  BY <1>1, <1>2, <1>3, <1>4 DEF IInv, Alone, Mine
<1>8. OneRecord'
  <2> SUFFICES ASSUME F.locks, F.done # "stay" PROVE OneRecord'
    BY <1>1 DEF OneRecord
  <2>1. \A a \in tally.accepted : a.draft < form'.draft /\ a.rev <= rev
    BY <1>3 DEF IInv, OneRecord, Shapes
  <2>2. DraftAcceptedOnce => DraftAcceptedOnce'
    BY <1>1, <1>2 DEF DraftAcceptedOnce
  <2> QED BY <1>2, <1>3, <2>1, <2>2 DEF IInv, OneRecord, Shapes
<1> QED BY <1>5, <1>6, <1>7, <1>8 DEF IInv

LEMMA CloseSteps ==
  ASSUME IInv, Close \/ FinishAndClose
  PROVE  IInv' /\ ~form'.open
<1>1. F' = F /\ Lawful(F)
  BY TheForm DEF Close, FinishAndClose
<1> HIDE DEF F
<1>2. /\ UNCHANGED <<kind, calls, rev, page, tally>>
      /\ refresh' \in {refresh, Ask}
  BY DEF Close, FinishAndClose
<1>3. /\ DOMAIN form' = FormFields /\ form'.open = FALSE /\ form'.mount = form.mount /\ form'.draft = form.draft
      /\ form'.known = form.known /\ form'.shown \in {form.shown, None}
      /\ F.whole => form'.base = form.base
  <2>1. \/ form' = [form EXCEPT !.open = FALSE, !.owed = FALSE]
        \/ F.closing = "reset" /\ form' = [Cleared(form) EXCEPT !.open = FALSE, !.owed = FALSE]
        \/ form' = [form EXCEPT !.open = FALSE]
    BY DEF Close, FinishAndClose
  <2>2. F.closing = "reset" => ~F.whole
    BY <1>1 DEF Lawful
  <2>3. DOMAIN form = FormFields
    BY DEF IInv, Shapes
  <2>4. CASE \/ form' = [form EXCEPT !.open = FALSE, !.owed = FALSE]
             \/ form' = [form EXCEPT !.open = FALSE]
    BY <2>3, <2>4 DEF FormFields
  <2>5. CASE F.closing = "reset" /\ form' = [Cleared(form) EXCEPT !.open = FALSE, !.owed = FALSE]
    BY <2>2, <2>3, <2>5 DEF Cleared, FormFields
  <2> QED BY <2>1, <2>4, <2>5
<1>4. Shapes'
  <2>1. refresh' \in [at : {"none", "asked", "read"}, rev : Nat]
    BY <1>2 DEF Ask, IInv, Shapes
  <2> QED BY <1>1, <1>2, <1>3, <2>1 DEF IInv, Shapes, Sends
<1>5. Copies'
  BY <1>1, <1>2, <1>3 DEF IInv, Copies
<1>6. Alone'
  BY <1>1, <1>2, <1>3 DEF IInv, Alone, Mine
<1>7. OneRecord'
  <2>1. Spent'
    BY <1>3 DEF Spent
  <2>2. DraftAcceptedOnce => DraftAcceptedOnce'
    BY <1>1, <1>2 DEF DraftAcceptedOnce
  <2> QED BY <1>1, <1>2, <1>3, <2>1, <2>2 DEF IInv, OneRecord
<1> QED BY <1>3, <1>4, <1>5, <1>6, <1>7 DEF IInv

\* Nothing is out of a draft that can still be sent, and what the server accepted of it was lost.
LEMMA SubmitStep ==
  ASSUME IInv, HandleSubmit
  PROVE  IInv'
<1> DEFINE new == [id |-> tally.sent + 1, at |-> "sent", mount |-> form.mount,
                   draft |-> form.draft, panel |-> Current, panels |-> Len(Panels),
                   base |-> form.base, known |-> form.known, rev |-> 0]
<1>1. F' = F /\ Lawful(F)
  BY TheForm DEF HandleSubmit
<1>0. F.stages \/ Panels = F.panels
  <2>1. kind = "onboarding" => F.stages
    <3>1. kind = "onboarding" => F = OnboardingModal
      BY DEF F, Component
    <3> QED BY <3>1 DEF OnboardingModal, Dialog
  <2> QED BY <2>1 DEF Panels
<1> HIDE DEF F
<1>2. /\ UNCHANGED <<kind, form, rev, page, refresh>> /\ calls' = calls \cup {new}
      /\ OnPanel /\ Current.does = "send" /\ Current \notin form.finished
      /\ F.locks => ~IsPending
      /\ \E b : tally' = [tally EXCEPT !.sent = @ + 1, !.incomplete = b]
  BY DEF HandleSubmit
<1>3. /\ DOMAIN new = CallFields /\ new.id = tally.sent + 1 /\ new.at = "sent" /\ new.mount = form.mount
      /\ new.draft = form.draft /\ new.panel = Current /\ new.base = form.base /\ new.known = form.known /\ new.rev = 0
  BY DEF CallFields
<1>4. form.open
  BY <1>2 DEF OnPanel
<1>5. F.locks => Sends(Current) /\ form.shown = None
  BY <1>0, <1>1, <1>2 DEF Lawful, Sends, Current, OnPanel, ResultShown
<1> HIDE DEF new
<1>6. /\ DOMAIN tally' = TallyFields /\ tally'.sent = tally.sent + 1 /\ tally'.accepted = tally.accepted
      /\ tally'.lost = tally.lost /\ tally'.undone = tally.undone
  BY <1>2 DEF IInv, Shapes, TallyFields
<1>7. F.locks => \A c \in calls : ~Mine(c) /\ c.draft < form.draft
  BY <1>2, <1>4 DEF IsPending, IInv, Alone
<1>8. Shapes'
  <2>1. F.locks => Sends(new.panel)
    BY <1>3, <1>5
  <2>2. new.id \in Nat /\ new.mount \in Nat /\ new.draft \in Nat /\ new.rev \in Nat
        /\ new.mount <= form.mount /\ new.draft <= form.draft /\ tally.sent + 1 \in Nat
    BY <1>3 DEF IInv, Shapes
  <2> QED BY <1>1, <1>2, <1>3, <1>6, <2>1, <2>2 DEF IInv, Shapes, Sends
<1>9. Copies'
  BY <1>1, <1>2, <1>3, <1>6 DEF IInv, Copies
<1>10. Alone'
  <2> SUFFICES ASSUME F.locks PROVE Alone'
    BY <1>1 DEF Alone
  <2>1. new.draft = form.draft /\ new.mount = form.mount /\ form' = form /\ calls' = calls \cup {new} /\ form.shown = None
    BY <1>2, <1>3, <1>5
  <2>2. \A c \in calls : c.mount # form.mount /\ c.draft < form.draft /\ c.draft # form.draft
    BY <1>7 DEF Mine, IInv, Shapes
  <2>3. \A c, d \in calls : c.draft = d.draft => c = d
    BY DEF IInv, Alone
  <2> QED BY <1>1, <2>1, <2>2, <2>3 DEF Alone, Mine
<1>11. OneRecord'
  <2> SUFFICES ASSUME F.locks, F.done # "stay" PROVE OneRecord'
    BY <1>1 DEF OneRecord
  <2>1. ~Spent
    <3>1. \E i \in DOMAIN F.panels : F.panels[i].does = "send" /\ F.panels[i] \notin form.finished
      BY <1>2, <1>5 DEF Sends
    <3> QED BY <1>4, <1>5, <3>1 DEF Spent
  <2>2. \A c \in calls : c.draft # form.draft
    BY <1>7 DEF IInv, Shapes
  <2>3. \A a \in tally.accepted : a.draft = form.draft => a.rev \in tally.lost
    BY <2>1, <2>2 DEF IInv, OneRecord
  <2>4. DraftAcceptedOnce => DraftAcceptedOnce'
    BY <1>1, <1>6 DEF DraftAcceptedOnce
  <2> QED BY <1>1, <1>2, <1>3, <1>6, <2>3, <2>4 DEF IInv, OneRecord
<1> QED BY <1>8, <1>9, <1>10, <1>11 DEF IInv

\* What an accepted request leaves of the form.
LEMMA AppliedForm ==
  ASSUME IInv, Lawful(F), NEW c \in calls, NEW g, g = Applied(c, form)
  PROVE  /\ DOMAIN g = FormFields /\ g.mount = form.mount /\ g.open \in BOOLEAN
         /\ g.open => form.open
         /\ g.draft \in {form.draft, form.draft + 1}
         /\ \/ g.base = form.base /\ g.known = form.known
            \/ g.base = c.rev /\ g.known = c.rev
         /\ \/ g.shown = c.id \/ g.draft = form.draft + 1 \/ ~g.open
            \/ F.done = "stay"
            \/ g.finished = form.finished \cup {c.panel}
<1>1. \/ g = [form EXCEPT !.shown = c.id]
      \/ \E x, y : g = [[form EXCEPT !.panel = x] EXCEPT !.finished = @ \cup {c.panel}, !.filled = y]
      \/ g = [form EXCEPT !.open = FALSE]
      \/ g = [form EXCEPT !.shown = c.id, !.owed = TRUE]
      \/ \E y : g = [form EXCEPT !.filled = y, !.draft = @ + 1]
      \/ F.done = "stay" /\ g = [form EXCEPT !.base = c.rev, !.known = c.rev]
      \/ \E x : g = [[form EXCEPT !.panel = x] EXCEPT !.finished = @ \cup {c.panel}]
  <2> DEFINE token == [form EXCEPT !.shown = c.id]
             tenant == [Advanced(c, form) EXCEPT
                           !.finished = @ \cup {c.panel}, !.filled = @ \cup {"routeTenantID", "tokenTenantID"}]
             close == [form EXCEPT !.open = FALSE]
             show == [form EXCEPT !.shown = c.id, !.owed = TRUE]
             clear == [form EXCEPT !.filled = Blank(F), !.draft = @ + 1]
             stay == [form EXCEPT !.base = c.rev, !.known = c.rev]
             advance == [Advanced(c, form) EXCEPT !.finished = @ \cup {c.panel}]
             a == c.panel = OnboardToken
             b == c.panel = OnboardTenant
             d == F.done
  <2>1. g = CASE a -> token [] b -> tenant [] d = "close" -> close [] d = "show" -> show
              [] d = "clear" -> clear [] d = "stay" -> stay [] OTHER -> advance
    BY DEF Applied
  <2>2. /\ g = tenant => \E x, y : g = [[form EXCEPT !.panel = x] EXCEPT !.finished = @ \cup {c.panel}, !.filled = y]
        /\ g = clear => \E y : g = [form EXCEPT !.filled = y, !.draft = @ + 1]
        /\ g = advance => \E x : g = [[form EXCEPT !.panel = x] EXCEPT !.finished = @ \cup {c.panel}]
    BY DEF Advanced
  <2> HIDE DEF token, tenant, close, show, clear, stay, advance, a, b, d
  <2>3. g \in {token, tenant, close, show, clear, advance} \/ (d = "stay" /\ g = stay)
    BY <2>1
  <2>4. CASE g = token \/ g = close \/ g = show
    BY <2>4, Zenon DEF token, close, show
  <2>5. CASE g = tenant \/ g = clear \/ g = advance
    BY <2>5, <2>2, Zenon
  <2>6. CASE d = "stay" /\ g = stay
    BY <2>6, Zenon DEF stay, d
  <2> QED BY <2>3, <2>4, <2>5, <2>6, Zenon
<1>2. DOMAIN form = FormFields /\ form.open \in BOOLEAN
  BY DEF IInv, Shapes
<1> QED BY <1>1, <1>2 DEF FormFields

LEMMA DeliveredStep ==
  ASSUME IInv, NEW c \in calls, c.at # "sent", Delivered(c), UNCHANGED <<kind, rev, page, tally>>
  PROVE  IInv' /\ (F.locks /\ form.shown # None => form'.shown = form.shown)
<1>1. F' = F /\ Lawful(F)
  BY TheForm
<1>2. /\ calls' = calls \ {c} /\ refresh' \in {refresh, Ask}
      /\ form' = IF Mine(c) THEN Applied(c, form) ELSE form
  BY DEF Delivered, Refreshed
<1>3. /\ DOMAIN form = FormFields /\ form.open \in BOOLEAN /\ form.mount \in Nat /\ form.draft \in Nat
      /\ c.rev \in Nat /\ c.id \in Nat
  BY DEF IInv, Shapes
<1>4. /\ DOMAIN form' = FormFields /\ form'.mount = form.mount /\ form'.open \in BOOLEAN
      /\ form'.open => form.open
      /\ form'.draft \in {form.draft, form.draft + 1}
      /\ \/ form'.base = form.base /\ form'.known = form.known
         \/ form'.base = c.rev /\ form'.known = c.rev
      /\ Mine(c) => \/ form'.shown = c.id \/ form'.draft = form.draft + 1 \/ ~form'.open
                    \/ F.done = "stay"
                    \/ form'.finished = form.finished \cup {c.panel}
      /\ ~Mine(c) => form' = form
  BY <1>1, <1>2, <1>3, AppliedForm
<1> HIDE DEF F
<1>5. Shapes'
  <2>1. form'.draft \in Nat /\ form.draft <= form'.draft
    BY <1>3, <1>4
  <2>2. \A d \in calls' : d.draft <= form'.draft
    BY <1>2, <2>1, <1>3 DEF IInv, Shapes
  <2>3. refresh' \in [at : {"none", "asked", "read"}, rev : Nat]
    BY <1>2 DEF Ask, IInv, Shapes
  <2> QED BY <1>1, <1>2, <1>4, <2>1, <2>2, <2>3 DEF IInv, Shapes, Sends
<1>6. Copies'
  BY <1>1, <1>2, <1>3, <1>4 DEF IInv, Copies
<1>7. F.locks /\ Mine(c) => form.shown = None /\ \A d \in calls' : ~Mine(d)
  BY <1>2 DEF IInv, Alone
<1>8. Alone'
  <2> SUFFICES ASSUME F.locks PROVE Alone'
    BY <1>1 DEF Alone
  <2>1. \A d \in calls' : d.mount = form'.mount <=> Mine(d)
    BY <1>4 DEF Mine
  <2>2. form'.open => \A d \in calls' : d.mount # form'.mount => d.draft < form'.draft
    <3>1. CASE Mine(c)
      <4>1. \A d \in calls' : d.draft <= form.draft /\ d.draft \in Nat /\ d.mount # form.mount
        BY <1>2, <1>7, <3>1 DEF IInv, Shapes, Mine
      <4>2. form.open => \A d \in calls' : d.draft < form.draft
        BY <1>2, <4>1 DEF IInv, Alone, Mine
      <4> QED BY <1>3, <1>4, <4>1, <4>2
    <3>2. CASE ~Mine(c)
      BY <3>2, <1>2, <1>4 DEF IInv, Alone, Mine
    <3> QED BY <3>1, <3>2
  <2>3. form'.shown # None => \A d \in calls' : ~Mine(d)
    BY <1>2, <1>4, <1>7 DEF IInv, Alone
  <2> QED BY <1>1, <1>2, <2>1, <2>2, <2>3 DEF IInv, Alone, Mine
<1>9. OneRecord'
  <2> SUFFICES ASSUME F.locks, F.done # "stay" PROVE OneRecord'
    BY <1>1 DEF OneRecord
  <2>1. DraftAcceptedOnce => DraftAcceptedOnce'
    BY <1>1 DEF DraftAcceptedOnce
  <2>2. \A a \in tally.accepted : a.draft <= form'.draft /\ a.rev <= rev /\ (a.draft = form'.draft => a.draft = form.draft)
    BY <1>3, <1>4 DEF IInv, OneRecord, Shapes
  <2>3. (Mine(c) /\ form'.draft = form.draft) \/ (Spent /\ form' = form) => Spent'
    <3>1. CASE Mine(c) /\ form'.draft = form.draft
      <4>1. Sends(c.panel)
        BY DEF IInv, Shapes
      <4>2. \A i \in DOMAIN F.panels : F.panels[i].does = "send" => F.panels[i] = c.panel
        BY <4>1, <1>1 DEF Sends, Lawful, OneSends
      <4>3. \/ form'.shown = c.id \/ ~form'.open \/ form'.finished = form.finished \cup {c.panel}
        BY <1>3, <1>4, <3>1
      <4>4. None # c.id
        BY <1>3, DialogsAssumption
      <4> QED BY <1>1, <4>2, <4>3, <4>4 DEF Spent
    <3>2. CASE Spent /\ form' = form
      BY <1>1, <3>2 DEF Spent
    <3> QED BY <3>1, <3>2
  <2>4. ASSUME NEW a \in tally.accepted, a.draft = form'.draft
        PROVE  a.rev \in tally.lost \/ Spent' \/ \E d \in calls' : d.at # "sent" /\ d.rev = a.rev /\ d.draft = a.draft
    <3>1. a.draft = form.draft
      BY <2>2, <2>4
    <3>2. CASE Mine(c)
      BY <2>3, <2>4, <3>1, <3>2
    <3>3. CASE ~Mine(c)
      <4>1. form' = form
        BY <1>4, <3>3
      <4>2. c.draft = form.draft => Spent
        BY <3>3, <1>3 DEF IInv, Alone, Spent
      <4>3. CASE c.draft = form.draft \/ Spent
        BY <4>1, <4>2, <4>3, <2>3
      <4>4. CASE c.draft # form.draft /\ ~Spent
        BY <4>4, <3>1, <1>2 DEF IInv, OneRecord
      <4> QED BY <4>3, <4>4
    <3> QED BY <3>2, <3>3
  <2> QED BY <1>1, <1>2, <2>1, <2>2, <2>4 DEF IInv, OneRecord
<1>10. F.locks /\ form.shown # None => form'.shown = form.shown
  BY <1>4, <1>7
<1> QED BY <1>5, <1>6, <1>8, <1>9, <1>10 DEF IInv

\* A request that goes a step further is the same request.
LEMMA MovedCall ==
  ASSUME IInv, kind' = kind, form'.mount = form.mount, form'.open = form.open, form'.draft = form.draft,
         form'.shown = form.shown, NEW c \in calls, NEW to, calls' = Moved(c, to),
         DOMAIN to = CallFields, to.mount = c.mount, to.draft = c.draft, to.base = c.base, to.known = c.known
  PROVE  /\ Alone'
         /\ F.whole => \A d \in calls' : d.base = d.known /\ d.base \in Nat
<1>1. F' = F
  BY TheForm
<1> HIDE DEF F
<1>2. calls' = (calls \ {c}) \cup {to}
  BY DEF Moved
<1>3. Alone'
  <2> SUFFICES ASSUME F.locks PROVE Alone'
    BY <1>1 DEF Alone
  <2>1. \A d \in calls' : d = to \/ (d \in calls /\ d # c)
    BY <1>2
  <2>2. \A d, e \in calls' : Mine(d)' /\ Mine(e)' => d = e
    BY <2>1 DEF IInv, Alone, Mine
  <2>3. \A d, e \in calls' : d.draft = e.draft => d = e
    BY <2>1 DEF IInv, Alone
  <2>4. form'.shown # None => \A d \in calls' : ~Mine(d)'
    BY <2>1 DEF IInv, Alone, Mine
  <2>5. form'.open => \A d \in calls' : ~Mine(d)' => d.draft < form'.draft
    BY <2>1 DEF IInv, Alone, Mine
  <2> QED BY <1>1, <2>2, <2>3, <2>4, <2>5 DEF Alone
<1>4. F.whole => \A d \in calls' : d.base = d.known /\ d.base \in Nat
  BY <1>2 DEF IInv, Copies
<1> QED BY <1>3, <1>4

LEMMA AcceptStep ==
  ASSUME IInv, NEW c \in calls, Accept(c)
  PROVE  IInv' /\ form' = form
<1> DEFINE to == [c EXCEPT !.at = "accepted", !.rev = rev + 1]
           new == [draft |-> c.draft, rev |-> rev + 1]
<1>1. F' = F
  BY TheForm DEF Accept
<1> HIDE DEF F
<1>2. /\ UNCHANGED <<kind, form, page, refresh>> /\ rev' = rev + 1 /\ c.at = "sent" /\ calls' = Moved(c, to)
      /\ tally' = [tally EXCEPT !.accepted = @ \cup {new},
                                !.undone = IF F.whole THEN @ \cup ((c.base + 1) .. c.known) ELSE @]
  BY DEF Accept
<1>3. /\ DOMAIN c = CallFields /\ c.id \in Nat /\ c.mount \in Nat /\ c.draft \in Nat /\ c.rev \in Nat
      /\ c.mount <= form.mount /\ c.draft <= form.draft
      /\ rev \in Nat /\ DOMAIN tally = TallyFields
  BY DEF IInv, Shapes
<1>4. /\ DOMAIN to = CallFields /\ to.id = c.id /\ to.mount = c.mount /\ to.draft = c.draft /\ to.rev = rev + 1
      /\ to.panel = c.panel /\ to.base = c.base /\ to.known = c.known /\ to.at = "accepted"
  BY <1>3 DEF CallFields
<1>5. new \in [draft : Nat, rev : Nat] /\ new.draft = c.draft /\ new.rev = rev + 1
  BY <1>3
<1> HIDE DEF to, new
<1>6. /\ DOMAIN tally' = TallyFields /\ tally'.sent = tally.sent /\ tally'.accepted = tally.accepted \cup {new}
      /\ tally'.lost = tally.lost
      /\ tally'.undone = IF F.whole THEN tally.undone \cup ((c.base + 1) .. c.known) ELSE tally.undone
  BY <1>2, <1>3 DEF TallyFields
<1>7. Shapes'
  <2>1. \A d \in calls' : d = to \/ d \in calls
    BY <1>2 DEF Moved
  <2>2. rev' \in Nat /\ tally'.accepted \subseteq [draft : Nat, rev : Nat]
    BY <1>2, <1>3, <1>5, <1>6 DEF IInv, Shapes
  <2>3. to.id \in Nat /\ to.mount \in Nat /\ to.draft \in Nat /\ to.rev \in Nat /\ to.mount <= form.mount /\ to.draft <= form.draft
    BY <1>3, <1>4
  <2> QED BY <1>1, <1>2, <1>4, <1>6, <2>1, <2>2, <2>3 DEF IInv, Shapes, Sends
<1>8. Alone' /\ (F.whole => \A d \in calls' : d.base = d.known /\ d.base \in Nat)
  BY <1>2, <1>4, MovedCall
<1>9. Copies'
  <2>1. F.whole => (c.base + 1) .. c.known = {}
    BY DEF IInv, Copies
  <2> QED BY <1>1, <1>2, <1>6, <1>8, <2>1 DEF IInv, Copies
<1>10. OneRecord'
  <2> SUFFICES ASSUME F.locks, F.done # "stay" PROVE OneRecord'
    BY <1>1 DEF OneRecord
  <2>1. \A a \in tally.accepted : a.rev \in Nat /\ a.rev <= rev /\ a.draft <= form.draft
    BY DEF IInv, OneRecord, Shapes
  <2>2. \A a \in tally.accepted : a.draft = c.draft => a.rev \in tally.lost
    BY <1>2 DEF IInv, OneRecord
  <2>3. \A d \in calls : d.draft = c.draft => d = c
    BY DEF IInv, Alone
  <2>4. calls' = (calls \ {c}) \cup {to}
    BY <1>2 DEF Moved
  <2>5. \A a \in tally'.accepted : a.draft <= form'.draft /\ a.rev <= rev'
    BY <1>2, <1>3, <1>5, <1>6, <2>1
  <2>6. ASSUME NEW a \in tally'.accepted, a.draft = form'.draft
        PROVE  a.rev \in tally'.lost \/ Spent' \/ \E d \in calls' : d.at # "sent" /\ d.rev = a.rev /\ d.draft = a.draft
    <3>1. CASE a = new
      BY <3>1, <2>4, <1>4, <1>5
    <3>2. CASE a \in tally.accepted
      <4>1. Spent => Spent'
        BY <1>1, <1>2 DEF Spent
      <4>2. \A d \in calls : d.at # "sent" => d \in calls'
        BY <1>2, <2>4
      <4> QED BY <1>2, <1>6, <2>6, <3>2, <4>1, <4>2 DEF IInv, OneRecord
    <3> QED BY <1>6, <3>1, <3>2
  <2>7. \A d \in calls' : d.at = "sent" => \A a \in tally'.accepted : a.draft = d.draft => a.rev \in tally'.lost
    BY <1>4, <1>5, <1>6, <2>3, <2>4 DEF IInv, OneRecord
  <2>8. DraftAcceptedOnce'
    <3>1. \A a, b \in tally.accepted : a.draft = b.draft /\ a.rev < b.rev => a.rev \in tally.lost
      BY DEF IInv, OneRecord, DraftAcceptedOnce
    <3>2. ASSUME NEW a \in tally'.accepted, NEW b \in tally'.accepted, a.draft = b.draft, a.rev < b.rev
          PROVE  a.rev \in tally'.lost
      <4>1. CASE a = new
        BY <1>2, <1>3, <1>5, <1>6, <2>1, <3>2, <4>1
      <4>2. CASE a \in tally.accepted /\ b = new
        BY <1>5, <1>6, <2>2, <3>2, <4>2
      <4>3. CASE a \in tally.accepted /\ b \in tally.accepted
        BY <1>6, <3>1, <3>2, <4>3
      <4> QED BY <1>6, <4>1, <4>2, <4>3
    <3> QED BY <3>2 DEF DraftAcceptedOnce
  <2> QED BY <2>5, <2>6, <2>7, <2>8 DEF OneRecord
<1> QED BY <1>2, <1>7, <1>8, <1>9, <1>10 DEF IInv

LEMMA AnswerOrgStep ==
  ASSUME IInv, NEW c \in calls, AnswerOrg(c)
  PROVE  IInv' /\ form'.shown = form.shown
<1> DEFINE to == [c EXCEPT !.at = "session"]
<1>1. F' = F
  BY TheForm DEF AnswerOrg
<1> HIDE DEF F
<1>2. /\ UNCHANGED <<kind, rev, page, refresh, tally>> /\ c.at = "accepted" /\ calls' = Moved(c, to)
      /\ form' = [form EXCEPT !.finished = @ \cup {c.panel}]
  BY DEF AnswerOrg
<1>3. DOMAIN c = CallFields /\ DOMAIN form = FormFields
  BY DEF IInv, Shapes
<1>4. /\ DOMAIN to = CallFields /\ to.id = c.id /\ to.mount = c.mount /\ to.draft = c.draft /\ to.rev = c.rev
      /\ to.panel = c.panel /\ to.base = c.base /\ to.known = c.known /\ to.at = "session"
  BY <1>3 DEF CallFields
<1>5. /\ DOMAIN form' = FormFields /\ form'.open = form.open /\ form'.base = form.base /\ form'.known = form.known
      /\ form'.shown = form.shown /\ form'.mount = form.mount /\ form'.draft = form.draft
      /\ form'.finished = form.finished \cup {c.panel}
  BY <1>2, <1>3 DEF FormFields
<1> HIDE DEF to
<1>6. calls' = (calls \ {c}) \cup {to}
  BY <1>2 DEF Moved
<1>7. Shapes'
  BY <1>1, <1>2, <1>4, <1>5, <1>6 DEF IInv, Shapes, Sends
<1>8. Alone' /\ (F.whole => \A d \in calls' : d.base = d.known /\ d.base \in Nat)
  BY <1>2, <1>4, <1>5, MovedCall
<1>9. Copies'
  BY <1>1, <1>2, <1>5, <1>8 DEF IInv, Copies
<1>10. OneRecord'
  <2>1. Spent => Spent'
    BY <1>1, <1>5 DEF Spent
  <2>2. DraftAcceptedOnce => DraftAcceptedOnce'
    BY <1>1, <1>2 DEF DraftAcceptedOnce
  <2>3. \A d \in calls : d.at # "sent" => \E e \in calls' : e.at # "sent" /\ e.rev = d.rev /\ e.draft = d.draft
    BY <1>4, <1>6
  <2>4. \A e \in calls' : e.at = "sent" => e \in calls
    BY <1>4, <1>6
  <2> SUFFICES ASSUME F.locks, F.done # "stay" PROVE OneRecord'
    BY <1>1 DEF OneRecord
  <2>5. ASSUME NEW a \in tally.accepted, a.draft = form.draft
        PROVE  a.rev \in tally.lost \/ Spent' \/ \E d \in calls' : d.at # "sent" /\ d.rev = a.rev /\ d.draft = a.draft
    <3>1. a.rev \in tally.lost \/ Spent \/ \E d \in calls : d.at # "sent" /\ d.rev = a.rev /\ d.draft = a.draft
      BY <2>5 DEF IInv, OneRecord
    <3> QED BY <2>1, <2>3, <3>1
  <2> QED BY <1>2, <1>5, <2>2, <2>4, <2>5 DEF IInv, OneRecord
<1> QED BY <1>5, <1>7, <1>8, <1>9, <1>10 DEF IInv

\* What was accepted and is reported as a failure is lost.
LEMMA RefusedStep ==
  ASSUME IInv, NEW c \in calls, Refused(c)
  PROVE  IInv' /\ form' = form
<1>1. F' = F
  BY TheForm DEF Refused
<1> HIDE DEF F
<1>2. /\ UNCHANGED <<kind, form, rev, page, refresh>> /\ calls' = calls \ {c}
      /\ tally' = [tally EXCEPT !.lost = @ \cup Accepted({c})]
  BY DEF Refused
<1>3. /\ DOMAIN tally' = TallyFields /\ tally'.sent = tally.sent /\ tally'.accepted = tally.accepted
      /\ tally'.lost = tally.lost \cup Accepted({c}) /\ tally'.undone = tally.undone
  BY <1>2 DEF IInv, Shapes, TallyFields
<1>4. c.at # "sent" => c.rev \in tally'.lost
  BY <1>3 DEF Accepted
<1>5. Shapes' /\ Copies'
  BY <1>1, <1>2, <1>3 DEF IInv, Shapes, Copies, Sends
<1>6. Alone'
  BY <1>1, <1>2 DEF IInv, Alone, Mine
<1>7. OneRecord'
  <2>1. Spent => Spent'
    BY <1>1, <1>2 DEF Spent
  <2>2. DraftAcceptedOnce => DraftAcceptedOnce'
    BY <1>1, <1>3 DEF DraftAcceptedOnce
  <2> SUFFICES ASSUME F.locks, F.done # "stay" PROVE OneRecord'
    BY <1>1 DEF OneRecord
  <2>3. ASSUME NEW a \in tally.accepted, a.draft = form.draft
        PROVE  a.rev \in tally'.lost \/ Spent' \/ \E d \in calls' : d.at # "sent" /\ d.rev = a.rev /\ d.draft = a.draft
    <3>1. a.rev \in tally.lost \/ Spent \/ \E d \in calls : d.at # "sent" /\ d.rev = a.rev /\ d.draft = a.draft
      BY <2>3 DEF IInv, OneRecord
    <3> QED BY <1>2, <1>3, <1>4, <2>1, <3>1
  <2> QED BY <1>2, <1>3, <2>2, <2>3 DEF IInv, OneRecord
<1> QED BY <1>2, <1>5, <1>6, <1>7 DEF IInv

\* A new mount holds nothing and waits for nothing.
LEMMA MountedForm ==
  ASSUME NEW f, NEW n, NEW mount, NEW draft
  PROVE  LET g == Mounted(f, n, mount, draft) IN
         /\ DOMAIN g = FormFields /\ g.base = n /\ g.known = n /\ g.shown = None
         /\ g.mount = mount /\ g.draft = draft /\ g.open \in BOOLEAN /\ (f.modal => ~g.open)
  BY DEF Mounted, FormFields

LEMMA DisconnectedStep ==
  ASSUME IInv, NEW c \in calls, Disconnected(c)
  PROVE  IInv' /\ ~form'.open
<1>1. F' = F /\ Lawful(F)
  BY TheForm DEF Disconnected
<1> HIDE DEF F
<1>2. /\ UNCHANGED <<kind, rev>> /\ calls' = {} /\ ~F.mends
      /\ form' = Mounted(F, rev, form.mount + 1, form.draft + 1) /\ page' = rev /\ refresh' = Quiet
      /\ tally' = [tally EXCEPT !.lost = @ \cup Accepted(calls)]
  BY DEF Disconnected
<1>3. F.modal
  BY <1>1, <1>2 DEF Lawful
<1>4. /\ DOMAIN form' = FormFields /\ ~form'.open /\ form'.open \in BOOLEAN /\ form'.base = rev /\ form'.known = rev /\ form'.shown = None
      /\ form'.mount = form.mount + 1 /\ form'.draft = form.draft + 1
  BY <1>2, <1>3, MountedForm
<1>5. /\ DOMAIN tally' = TallyFields /\ tally'.sent = tally.sent /\ tally'.accepted = tally.accepted
      /\ tally'.lost = tally.lost \cup Accepted(calls) /\ tally'.undone = tally.undone
  BY <1>2 DEF IInv, Shapes, TallyFields
<1>6. Shapes'
  <2>1. form'.mount \in Nat /\ form'.draft \in Nat /\ rev' \in Nat /\ page' \in Nat
    BY <1>2, <1>4 DEF IInv, Shapes
  <2>2. refresh' \in [at : {"none", "asked", "read"}, rev : Nat]
    BY <1>2 DEF Quiet
  <2>3. kind' \in Forms /\ form'.open \in BOOLEAN
    BY <1>2, <1>4 DEF IInv, Shapes
  <2> QED BY <1>2, <1>4, <1>5, <2>1, <2>2, <2>3 DEF IInv, Shapes
<1>7. Copies' /\ Alone'
  BY <1>2, <1>4, <1>5 DEF IInv, Shapes, Copies, Alone
<1>8. OneRecord'
  <2>1. Spent'
    BY <1>4 DEF Spent
  <2> SUFFICES ASSUME F.locks, F.done # "stay" PROVE OneRecord'
    BY <1>1 DEF OneRecord
  <2>2. DraftAcceptedOnce'
    BY <1>1, <1>5 DEF IInv, OneRecord, DraftAcceptedOnce
  <2>3. \A a \in tally.accepted : a.draft <= form'.draft /\ a.rev <= rev
    BY <1>4 DEF IInv, OneRecord, Shapes
  <2> QED BY <1>2, <1>5, <2>1, <2>2, <2>3 DEF OneRecord
<1> QED BY <1>4, <1>6, <1>7, <1>8 DEF IInv

LEMMA ArriveStep ==
  ASSUME IInv, Arrive
  PROVE  IInv' /\ (form' = form \/ ~form'.open)
<1>1. F' = F /\ Lawful(F)
  BY TheForm DEF Arrive
<1> HIDE DEF F
<1>2. /\ UNCHANGED <<kind, calls, rev, tally>> /\ page' = refresh.rev /\ refresh' = Quiet
      /\ form' = form \/ (F.keyed /\ form' = Mounted(F, page', form.mount + 1, form.draft))
  BY DEF Arrive
<1>3. /\ rev \in Nat /\ page' \in Nat /\ refresh' \in [at : {"none", "asked", "read"}, rev : Nat]
      /\ DOMAIN form = FormFields /\ DOMAIN tally = TallyFields
  BY <1>2 DEF IInv, Shapes, Quiet
<1>4. CASE form' = form
  <2>1. SameForm(form')
    BY <1>3, <1>4 DEF SameForm
  <2> QED BY <1>2, <1>3, <1>4, <2>1, Undisturbed
<1>5. CASE F.keyed /\ form' = Mounted(F, page', form.mount + 1, form.draft)
  <2>1. F.modal
    BY <1>1, <1>5 DEF Lawful
  <2>2. /\ DOMAIN form' = FormFields /\ ~form'.open /\ form'.open \in BOOLEAN
        /\ form'.base = page' /\ form'.known = page' /\ form'.shown = None
        /\ form'.mount = form.mount + 1 /\ form'.draft = form.draft
    BY <1>5, <2>1, MountedForm
  <2>3. \A d \in calls : d.mount < form'.mount /\ d.mount \in Nat /\ d.draft <= form'.draft
    BY <2>2 DEF IInv, Shapes
  <2>4. Shapes'
    <3>1. form'.mount \in Nat /\ form'.draft \in Nat
      BY <2>2 DEF IInv, Shapes
    <3>2. \A d \in calls : d.mount <= form'.mount
      BY <2>3, <3>1
    <3> QED BY <1>1, <1>2, <1>3, <2>2, <2>3, <3>1, <3>2 DEF IInv, Shapes, Sends
  <2>5. Copies'
    BY <1>1, <1>2, <1>3, <2>2 DEF IInv, Copies
  <2>6. Alone'
    <3>1. \A d \in calls : d.mount # form'.mount
      BY <2>2, <2>3 DEF IInv, Shapes
    <3> QED BY <1>1, <1>2, <2>2, <3>1 DEF IInv, Alone, Mine
  <2>7. OneRecord'
    <3>1. Spent'
      BY <2>2 DEF Spent
    <3>2. DraftAcceptedOnce => DraftAcceptedOnce'
      BY <1>1, <1>2 DEF DraftAcceptedOnce
    <3> QED BY <1>1, <1>2, <2>2, <3>1, <3>2 DEF IInv, OneRecord
  <2> QED BY <2>2, <2>4, <2>5, <2>6, <2>7 DEF IInv
<1> QED BY <1>2, <1>4, <1>5

LEMMA InitIInv == Init => IInv
<1> SUFFICES ASSUME Init PROVE IInv
  OBVIOUS
<1> USE DEF Init
<1>1. /\ DOMAIN form = FormFields /\ form.base = 0 /\ form.known = 0 /\ form.shown = None
      /\ form.mount = 0 /\ form.draft = 0 /\ form.open \in BOOLEAN
  BY MountedForm
<1>2. DOMAIN tally = TallyFields /\ tally.sent = 0 /\ tally.accepted = {} /\ tally.lost = {} /\ tally.undone = {}
  BY DEF TallyFields
<1>3. calls = {} /\ kind \in Forms /\ rev = 0 /\ page = 0 /\ refresh \in [at : {"none", "asked", "read"}, rev : Nat]
  BY DEF Quiet
<1> HIDE DEF Init
<1>4. Shapes /\ Copies
  BY <1>1, <1>2, <1>3 DEF Shapes, Copies
<1>5. Alone /\ OneRecord
  BY <1>1, <1>2, <1>3 DEF Alone, OneRecord, DraftAcceptedOnce
<1> QED BY <1>4, <1>5 DEF IInv

\* Every step, and that none takes a result off an open form.
LEMMA StepIInv ==
  ASSUME IInv, [Next]_vars
  PROVE  IInv' /\ (F.locks /\ ResultShown /\ form'.open => form'.shown = form.shown)
<1>1. CASE Open
  BY <1>1, OpenStep DEF Open, ResultShown
<1>2. CASE Close \/ FinishAndClose
  BY <1>2, CloseSteps
<1>3. CASE Fill \/ FillOIDC \/ GoNext \/ GoBack \/ HandleSkipAccount \/ \E input \in AllNeeds(F) : Empty(input)
  BY <1>3, EditingSteps
<1>4. CASE HandleSubmit
  BY <1>4, SubmitStep DEF HandleSubmit
<1>5. ASSUME NEW c \in calls, Answer(c) \/ UpdateSession(c)
      PROVE  IInv' /\ (F.locks /\ ResultShown /\ form'.open => form'.shown = form.shown)
  <2>1. c.at # "sent" /\ Delivered(c) /\ UNCHANGED <<kind, rev, page, tally>>
    BY <1>5 DEF Answer, UpdateSession
  <2> QED BY <2>1, DeliveredStep DEF ResultShown
<1>6. ASSUME NEW c \in calls, Accept(c) \/ Refused(c) \/ Disconnected(c) \/ AnswerOrg(c)
      PROVE  IInv' /\ (F.locks /\ ResultShown /\ form'.open => form'.shown = form.shown)
  BY <1>6, AcceptStep, RefusedStep, DisconnectedStep, AnswerOrgStep
<1>7. CASE OtherWrites \/ Read \/ Elsewhere
  BY <1>7, PageSteps
<1>8. CASE Arrive
  BY <1>8, ArriveStep
<1>9. CASE UNCHANGED vars
  <2>1. SameForm(form')
    BY <1>9 DEF vars, SameForm, IInv, Shapes
  <2> QED BY <1>9, <2>1, Undisturbed DEF vars, IInv, Shapes
<1> QED BY <1>1, <1>2, <1>3, <1>4, <1>5, <1>6, <1>7, <1>8, <1>9 DEF Next, Operator, Server

LEMMA Invariant == Spec => []IInv
<1> QED BY InitIInv, StepIInv, PTL DEF Spec

(* One draft becomes one record: of a form that locks its button, two requests of *)
(* a draft are accepted only when the first answer was lost.                      *)
THEOREM SpecDraftAcceptedOnce == Spec => []DraftAcceptedOnce
<1>1. IInv => DraftAcceptedOnce
  BY DEF IInv, OneRecord, DraftAcceptedOnce
<1> QED BY Invariant, <1>1, PTL

(* A save never undoes a write that the page showed when the form was opened.     *)
THEOREM SpecSavesUndoNothingShown == Spec => []SavesUndoNothingShown
<1>1. IInv => SavesUndoNothingShown
  BY DEF IInv, Copies, SavesUndoNothingShown
<1> QED BY Invariant, <1>1, PTL

(* A secret shown once stays on an open form, whatever answers come late.         *)
THEOREM SpecResultStaysOnScreen == Spec => ResultStaysOnScreen
<1>1. IInv /\ [Next]_vars => [F.locks /\ ResultShown /\ form'.open => form'.shown = form.shown]_vars
  BY StepIInv
<1> QED BY Invariant, <1>1, PTL DEF Spec, ResultStaysOnScreen

-------------------------------------------------------------------------------
(***************************************************************************)
(* The cache of the sign-in provider's settings, for any number of         *)
(* callers, administrators, fetches and saves.                             *)
(*                                                                         *)
(* Between the drop that follows the last save and the next save, what is  *)
(* known is current: what fetches have read and what the cache holds is    *)
(* what is saved, unless the backend failed or a fetch read before that    *)
(* save was in flight at the drop.                                         *)
(***************************************************************************)
ReadsAreTrue ==
    \A f \in Fetches :
        fetch[f].at = "read" /\ ~fetch[f].failed /\ ~fetch[f].old => fetch[f].result = Provided(saved)

KnownIsCurrent ==
    announced /\ ~overlap =>
        /\ \A f \in Fetches : ~fetch[f].old
        /\ cache.fresh > 0 /\ ~cache.failed => cache.value = Provided(saved)

\* A form that is still to drop the cache after the last save has not announced it.
OnlyAnnouncedIsSure ==
    /\ \A p \in Callers : call[p].sure => announced
    /\ \A a \in Admins : settingsForm[a] \in {"saved", "reloading"} /\ saver = a => ~announced

CacheInv == CacheTypeOK /\ ReadsAreTrue /\ KnownIsCurrent /\ OnlyAnnouncedIsSure /\ StaleOnlyByOverlap

LEMMA ProvidedType ==
  ASSUME NEW c \in Settings \cup {NoConfig}
  PROVE  Provided(c) \in Configs
  BY DEF Provided, Configs

LEMMA CacheInitInv == CacheInit => CacheInv
<1> SUFFICES ASSUME CacheInit PROVE CacheInv
  OBVIOUS
<1> USE DEF CacheInit
<1>1. CacheTypeOK
  <2>1. cache \in [value: Configs, fresh: 0..Ttl, failed: BOOLEAN]
    BY CacheAssumption DEF Configs
  <2>2. call \in [Callers -> [at: {"idle", "waiting", "answered"}, on: Fetches \cup {Nil},
                             got: Configs, failed: BOOLEAN, sure: BOOLEAN]]
    BY DEF NoCall, Configs
  <2>3. fetch \in [Fetches -> [at: {"free", "asked", "read"}, result: Configs, failed: BOOLEAN, old: BOOLEAN]]
    BY DEF NoFetch, Configs
  <2>4. saved \in Settings \cup {NoConfig} /\ settingsForm \in [Admins -> {"idle", "saving", "saved", "reloading"}]
    OBVIOUS
  <2>5. pending \in Fetches \cup {Nil} /\ saver \in Admins \cup {Nil}
        /\ up \in BOOLEAN /\ announced \in BOOLEAN /\ overlap \in BOOLEAN
    OBVIOUS
  <2>6. saves \in 0..MaxSaves /\ reloads \in Nat
    BY CacheAssumption
  <2> HIDE DEF CacheInit
  <2> QED BY <2>1, <2>2, <2>3, <2>4, <2>5, <2>6 DEF CacheTypeOK
<1>2. ReadsAreTrue /\ KnownIsCurrent /\ OnlyAnnouncedIsSure /\ StaleOnlyByOverlap
  BY DEF ReadsAreTrue, KnownIsCurrent, OnlyAnnouncedIsSure, StaleOnlyByOverlap, NoFetch, NoCall
<1> QED BY <1>1, <1>2 DEF CacheInv

CallType == [at: {"idle", "waiting", "answered"}, on: Fetches \cup {Nil}, got: Configs, failed: BOOLEAN, sure: BOOLEAN]
FetchType == [at: {"free", "asked", "read"}, result: Configs, failed: BOOLEAN, old: BOOLEAN]

LEMMA AnswerIs ==
  ASSUME NEW c \in CallType, NEW value \in Configs, NEW failed \in BOOLEAN
  PROVE  /\ SettingsAnswer(c, value, failed) \in CallType /\ SettingsAnswer(c, value, failed).at = "answered"
         /\ SettingsAnswer(c, value, failed).on = Nil /\ SettingsAnswer(c, value, failed).sure = c.sure
         /\ SettingsAnswer(c, value, failed).got = value /\ SettingsAnswer(c, value, failed).failed = failed
  BY DEF SettingsAnswer, CallType

\* A caller is sure only of what is current: an answer from the cache, or a place in the queue.
LEMMA AskKeeps ==
  ASSUME CacheInv, NEW p \in Callers, AskSettings(p), settingsForm' \in [Admins -> {"idle", "saving", "saved", "reloading"}],
         \A a \in Admins : settingsForm'[a] \in {"saved", "reloading"} => settingsForm[a] \in {"saved", "reloading"}
  PROVE  CacheInv'
<1> USE DEF CacheInv
<1> DEFINE asked == [NoCall EXCEPT !.at = "waiting", !.sure = announced]
<1>1. UNCHANGED <<saved, up, cache, saves, reloads, saver, announced, overlap>>
  BY DEF AskSettings, history
<1>2. asked \in CallType /\ asked.at = "waiting" /\ asked.sure = announced
  BY DEF CallType, NoCall, Configs, CacheTypeOK
<1>3. call \in [Callers -> CallType] /\ fetch \in [Fetches -> FetchType]
  BY DEF CacheTypeOK, CallType, FetchType
<1>4. /\ call' \in [Callers -> CallType]
      /\ \A q \in Callers : q # p => call'[q] = call[q]
      /\ call'[p].sure = announced
      /\ \/ call'[p].at = "waiting"
         \/ cache.fresh > 0 /\ call'[p].got = cache.value /\ call'[p].failed = cache.failed
      /\ pending' \in Fetches \cup {Nil}
      /\ fetch' \in [Fetches -> FetchType]
      /\ \A f \in Fetches : fetch'[f] = fetch[f] \/ (fetch'[f].at = "asked" /\ fetch'[f].old = fetch[f].old)
  <2>1. CASE cache.fresh > 0 /\ call' = [call EXCEPT ![p] = SettingsAnswer(asked, cache.value, cache.failed)]
             /\ UNCHANGED <<pending, fetch>>
    <3> DEFINE answer == SettingsAnswer(asked, cache.value, cache.failed)
    <3>0. cache.value \in Configs /\ cache.failed \in BOOLEAN
      BY DEF CacheTypeOK
    <3> HIDE DEF asked
    <3>1. answer \in CallType /\ answer.sure = announced /\ answer.got = cache.value /\ answer.failed = cache.failed
      BY <1>2, <3>0, AnswerIs
    <3> HIDE DEF answer
    <3> QED BY <1>3, <2>1, <3>1 DEF answer, CacheTypeOK
  <2>2. CASE Joinable /\ call' = [call EXCEPT ![p] = [asked EXCEPT !.on = pending]] /\ UNCHANGED <<pending, fetch>>
    <3> DEFINE waits == [asked EXCEPT !.on = pending]
    <3>1. waits \in CallType /\ waits.sure = announced /\ waits.at = "waiting"
      BY <1>2 DEF CacheTypeOK, CallType
    <3> HIDE DEF waits, asked
    <3> QED BY <1>3, <2>2, <3>1 DEF waits, CacheTypeOK
  <2>3. ASSUME NEW f \in Fetches, pending' = f, fetch' = [fetch EXCEPT ![f].at = "asked"],
               call' = [call EXCEPT ![p] = [asked EXCEPT !.on = f]]
        PROVE  <1>4!:
    <3> DEFINE waits == [asked EXCEPT !.on = f]
    <3>1. waits \in CallType /\ waits.sure = announced /\ waits.at = "waiting"
      BY <1>2 DEF CallType
    <3>2. fetch' \in [Fetches -> FetchType]
          /\ \A g \in Fetches : fetch'[g] = fetch[g] \/ (fetch'[g].at = "asked" /\ fetch'[g].old = fetch[g].old)
      BY <1>3, <2>3 DEF FetchType
    <3> HIDE DEF waits, asked
    <3> QED BY <1>3, <2>3, <3>1, <3>2 DEF waits
  <2> QED BY <2>1, <2>2, <2>3 DEF AskSettings
<1>5. CacheTypeOK'
  BY <1>1, <1>4 DEF CacheTypeOK, CallType, FetchType
<1>6. ReadsAreTrue'
  BY <1>1, <1>4 DEF ReadsAreTrue, Provided
<1>7. KnownIsCurrent'
  BY <1>1, <1>4 DEF KnownIsCurrent, Provided
<1>8. OnlyAnnouncedIsSure'
  BY <1>1, <1>4 DEF OnlyAnnouncedIsSure
<1>9. StaleOnlyByOverlap'
  BY <1>1, <1>4 DEF StaleOnlyByOverlap, KnownIsCurrent, Provided
<1> QED BY <1>5, <1>6, <1>7, <1>8, <1>9

LEMMA SameConsole == CacheInv /\ UNCHANGED allVars => CacheInv'
  BY DEF CacheInv, allVars, cacheVars, history, CacheTypeOK, ReadsAreTrue, KnownIsCurrent, OnlyAnnouncedIsSure,
         StaleOnlyByOverlap, Provided

\* A fetch reads, or fails.
LEMMA FetchKeeps ==
  ASSUME CacheInv, NEW f \in Fetches, BackendReads(f) \/ FetchFails(f)
  PROVE  CacheInv'
<1> USE DEF CacheInv
<1>1. UNCHANGED <<saved, up, cache, pending, call, settingsForm, history>>
  BY DEF BackendReads, FetchFails
<1>2. fetch \in [Fetches -> FetchType]
  BY DEF CacheTypeOK, FetchType
<1>3. /\ fetch' \in [Fetches -> FetchType]
      /\ \A g \in Fetches : g # f => fetch'[g] = fetch[g]
      /\ fetch'[f].old => fetch[f].old
      /\ fetch'[f].failed \/ fetch'[f].result = Provided(saved)
  <2>1. CASE BackendReads(f)
    <3> DEFINE r == [fetch[f] EXCEPT !.at = "read", !.result = Provided(saved)]
    <3>1. Provided(saved) \in Configs
      BY ProvidedType DEF CacheTypeOK
    <3>2. r \in FetchType /\ r.old = fetch[f].old /\ r.result = Provided(saved)
      BY <1>2, <3>1 DEF FetchType
    <3>3. fetch' = [fetch EXCEPT ![f] = r]
      BY <2>1, <1>2 DEF BackendReads, FetchType
    <3> HIDE DEF r
    <3> QED BY <1>2, <3>2, <3>3
  <2>2. CASE FetchFails(f)
    <3> DEFINE r == [at |-> "read", result |-> FrontendEnv, failed |-> TRUE, old |-> FALSE]
    <3>1. r \in FetchType /\ ~r.old /\ r.failed
      BY DEF FetchType, Configs
    <3>2. fetch' = [fetch EXCEPT ![f] = r]
      BY <2>2 DEF FetchFails
    <3> HIDE DEF r
    <3> QED BY <1>2, <3>1, <3>2
  <2> QED BY <2>1, <2>2
<1>4. CacheTypeOK'
  BY <1>1, <1>3 DEF CacheTypeOK, FetchType, history
<1>5. ReadsAreTrue'
  BY <1>1, <1>3 DEF ReadsAreTrue, Provided
<1>6. KnownIsCurrent' /\ OnlyAnnouncedIsSure' /\ StaleOnlyByOverlap'
  BY <1>1, <1>3 DEF KnownIsCurrent, OnlyAnnouncedIsSure, StaleOnlyByOverlap, Provided, history
<1> QED BY <1>4, <1>5, <1>6

\* The result of a fetch goes to the cache and to those who awaited it.
LEMMA SettleKeeps ==
  ASSUME CacheInv, NEW f \in Fetches, Settle(f)
  PROVE  CacheInv'
<1> USE DEF CacheInv
<1> DEFINE r == fetch[f]
<1>1. UNCHANGED <<saved, up, settingsForm, saves, reloads, saver, announced, overlap>> /\ r.at = "read"
  BY DEF Settle, history
<1>2. fetch \in [Fetches -> FetchType] /\ call \in [Callers -> CallType] /\ r \in FetchType
  BY DEF CacheTypeOK, FetchType, CallType
<1>3. /\ cache' \in [value: Configs, fresh: 0..Ttl, failed: BOOLEAN]
      /\ cache'.value = r.result /\ cache'.failed = r.failed
  BY <1>2, CacheAssumption DEF Settle, FetchType
<1>4. /\ fetch' \in [Fetches -> FetchType]
      /\ \A g \in Fetches : fetch'[g] = fetch[g] \/ (fetch'[g].at = "free" /\ ~fetch'[g].old)
  <2>1. fetch' = [fetch EXCEPT ![f] = NoFetch] /\ NoFetch \in FetchType /\ NoFetch.at = "free" /\ ~NoFetch.old
    BY DEF Settle, NoFetch, FetchType, Configs
  <2> QED BY <1>2, <2>1
<1>5. /\ call' \in [Callers -> CallType]
      /\ \A p \in Callers : /\ call'[p].sure = call[p].sure
                            /\ \/ call'[p] = call[p]
                               \/ call'[p].got = r.result /\ call'[p].failed = r.failed
  <2> DEFINE answered(p) == SettingsAnswer(call[p], r.result, r.failed)
  <2>1. \A p \in Callers : /\ answered(p) \in CallType /\ answered(p).sure = call[p].sure
                           /\ answered(p).got = r.result /\ answered(p).failed = r.failed
    BY <1>2, AnswerIs DEF FetchType
  <2>2. call' = [p \in Callers |-> IF call[p].on = f THEN answered(p) ELSE call[p]]
    BY DEF Settle
  <2> HIDE DEF answered, r
  <2> QED BY <1>2, <2>1, <2>2
<1>6. announced /\ ~overlap /\ ~r.failed => r.result = Provided(saved)
  BY <1>1 DEF ReadsAreTrue, KnownIsCurrent
<1> HIDE DEF r
<1>7. pending' = Nil
  BY DEF Settle, AfterSettle
<1>8. CacheTypeOK'
  BY <1>1, <1>3, <1>4, <1>5, <1>7 DEF CacheTypeOK, FetchType, CallType
<1>9. ReadsAreTrue'
  BY <1>1, <1>4 DEF ReadsAreTrue, Provided
<1>10. KnownIsCurrent'
  BY <1>1, <1>3, <1>4, <1>6 DEF KnownIsCurrent, Provided
<1>11. OnlyAnnouncedIsSure' /\ StaleOnlyByOverlap'
  BY <1>1, <1>5, <1>6 DEF OnlyAnnouncedIsSure, StaleOnlyByOverlap, Provided
<1> QED BY <1>8, <1>9, <1>10, <1>11

\* Whoever leaves is sure of nothing.
LEMMA LeaveIs ==
  ASSUME CacheInv, NEW p \in Callers, Leave(p)
  PROVE  /\ call' \in [Callers -> CallType]
         /\ \A q \in Callers : call'[q] = call[q] \/ ~call'[q].sure
<1>1. NoCall \in CallType /\ ~NoCall.sure
  BY DEF NoCall, CallType, Configs
<1> QED BY <1>1 DEF CacheInv, CacheTypeOK, CallType, Leave

LEMMA LeaveKeeps ==
  ASSUME CacheInv, NEW p \in Callers, Leave(p), settingsForm' \in [Admins -> {"idle", "saving", "saved", "reloading"}],
         \A a \in Admins : settingsForm'[a] \in {settingsForm[a], "idle"},
         UNCHANGED <<saved, up, cache, pending, fetch, history>>
  PROVE  CacheInv'
<1> USE DEF CacheInv
<1>1. call' \in [Callers -> CallType] /\ \A q \in Callers : call'[q] = call[q] \/ ~call'[q].sure
  BY LeaveIs
<1>2. CacheTypeOK'
  BY <1>1 DEF CacheTypeOK, CallType, history
<1> QED BY <1>1, <1>2 DEF ReadsAreTrue, KnownIsCurrent, OnlyAnnouncedIsSure, StaleOnlyByOverlap, Provided, history

\* A save makes all that was read before it old, and nobody is sure of anything.
LEMMA SaveKeeps ==
  ASSUME CacheInv, NEW by \in Admins \cup {Nil}, NEW c \in Settings \cup {NoConfig}, saved' = c, Outdated(by),
         saves < MaxSaves, UNCHANGED <<up, cache, pending, reloads>>,
         call' \in [Callers -> CallType], \A p \in Callers : ~call'[p].sure,
         settingsForm' \in [Admins -> {"idle", "saving", "saved", "reloading"}]
  PROVE  CacheInv'
<1> USE DEF CacheInv
<1>1. saves' = saves + 1 /\ saver' = by /\ announced' = FALSE /\ overlap' = FALSE
  BY DEF Outdated
<1>2. /\ fetch' \in [Fetches -> FetchType]
      /\ \A f \in Fetches : fetch'[f].at = "read" /\ ~fetch'[f].failed => fetch'[f].old
  <2> DEFINE aged(f) == IF fetch[f].at = "read" /\ ~fetch[f].failed
                        THEN [fetch[f] EXCEPT !.old = TRUE] ELSE fetch[f]
  <2>1. \A f \in Fetches : aged(f) \in FetchType /\ (aged(f).at = "read" /\ ~aged(f).failed => aged(f).old)
    <3> SUFFICES ASSUME NEW f \in Fetches
                 PROVE  aged(f) \in FetchType /\ (aged(f).at = "read" /\ ~aged(f).failed => aged(f).old)
      OBVIOUS
    <3> DEFINE r == fetch[f]
    <3>1. r \in FetchType
      BY DEF CacheTypeOK, FetchType
    <3> DEFINE o == [r EXCEPT !.old = TRUE]
    <3>2. aged(f) = IF r.at = "read" /\ ~r.failed THEN o ELSE r
      OBVIOUS
    <3> HIDE DEF r, aged, CacheInv
    <3>3. o \in FetchType /\ o.old
      BY <3>1 DEF FetchType
    <3> HIDE DEF o
    <3> QED BY <3>1, <3>2, <3>3
  <2>2. fetch' = [f \in Fetches |-> aged(f)]
    BY DEF Outdated
  <2> HIDE DEF aged
  <2> QED BY <2>1, <2>2
<1>3. CacheTypeOK'
  <2>1. saves' \in 0..MaxSaves
    BY <1>1, CacheAssumption DEF CacheTypeOK
  <2>2. announced' \in BOOLEAN /\ overlap' \in BOOLEAN
    BY <1>1
  <2> QED BY <1>1, <1>2, <2>1, <2>2 DEF CacheTypeOK, FetchType, CallType
<1> QED BY <1>1, <1>2, <1>3 DEF ReadsAreTrue, KnownIsCurrent, OnlyAnnouncedIsSure, StaleOnlyByOverlap

\* The drop.
LEMMA ReloadKeeps ==
  ASSUME CacheInv, NEW a \in Admins, Reload(a)
  PROVE  CacheInv'
<1> USE DEF CacheInv
<1>1. /\ UNCHANGED <<saved, up, fetch, saves, saver>> /\ pending' = Nil /\ reloads' = reloads + 1
      /\ announced' = (announced \/ saver = a)
      /\ overlap' = (IF saver = a THEN \E f \in Fetches : fetch[f].old ELSE overlap)
      /\ settingsForm[a] = "reloading" /\ settingsForm' = [settingsForm EXCEPT ![a] = "idle"] /\ a \in Callers
  BY DEF Reload, Callers
<1>2. call' \in [Callers -> CallType] /\ \A q \in Callers : call'[q] = call[q] \/ ~call'[q].sure
  BY <1>1, LeaveIs DEF Reload
<1>3. cache' \in [value: Configs, fresh: 0..Ttl, failed: BOOLEAN] /\ cache'.fresh = 0
  BY CacheAssumption DEF CacheTypeOK, Reload, Busted
<1>4. settingsForm' \in [Admins -> {"idle", "saving", "saved", "reloading"}] /\ \A b \in Admins : settingsForm'[b] = IF b = a THEN "idle" ELSE settingsForm[b]
  BY <1>1 DEF CacheTypeOK
<1>5. announced' \in BOOLEAN /\ overlap' \in BOOLEAN /\ reloads' \in Nat
  <2>1. reloads' \in Nat
    BY <1>1 DEF CacheTypeOK
  <2>2. announced' \in BOOLEAN
    BY <1>1, Zenon DEF CacheTypeOK
  <2>3. overlap' \in BOOLEAN
    <3>1. (\E f \in Fetches : fetch[f].old) \in BOOLEAN
      OBVIOUS
    <3> QED BY <1>1, <3>1, Zenon DEF CacheTypeOK
  <2> QED BY <2>1, <2>2, <2>3
<1>6. CacheTypeOK'
  BY <1>1, <1>2, <1>3, <1>4, <1>5 DEF CacheTypeOK, CallType
<1>7. ReadsAreTrue'
  BY <1>1 DEF ReadsAreTrue, Provided
<1>8. saver = a => ~announced /\ \A p \in Callers : ~call[p].sure
  BY <1>1 DEF OnlyAnnouncedIsSure
<1>9. KnownIsCurrent'
  <2> SUFFICES ASSUME announced', ~overlap' PROVE \A f \in Fetches : ~fetch[f].old
    BY <1>1, <1>3 DEF KnownIsCurrent
  <2>1. CASE saver = a
    BY <1>1, <2>1
  <2>2. CASE saver # a
    BY <1>1, <2>2 DEF KnownIsCurrent
  <2> QED BY <2>1, <2>2
<1>10. OnlyAnnouncedIsSure' /\ StaleOnlyByOverlap'
  BY <1>1, <1>2, <1>4, <1>8 DEF OnlyAnnouncedIsSure, StaleOnlyByOverlap, Provided
<1> QED BY <1>6, <1>7, <1>9, <1>10

LEMMA CacheNextInv == CacheInv /\ [CacheNext]_allVars => CacheInv'
<1> SUFFICES ASSUME CacheInv, [CacheNext]_allVars PROVE CacheInv'
  OBVIOUS
<1>1. settingsForm \in [Admins -> {"idle", "saving", "saved", "reloading"}] /\ call \in [Callers -> CallType]
  BY DEF CacheInv, CacheTypeOK, CallType
<1>2. ASSUME NEW v \in Visitors, Visit(v) \/ Respond(v) PROVE CacheInv'
  <2>1. v \in Callers
    BY DEF Callers
  <2>2. CASE Visit(v)
    BY <1>1, <2>1, <2>2, AskKeeps DEF Visit
  <2>3. CASE Respond(v)
    BY <1>1, <2>1, <2>3, LeaveKeeps DEF Respond
  <2> QED BY <1>2, <2>2, <2>3
<1>3. ASSUME NEW a \in Admins PROVE a \in Callers
  BY DEF Callers
<1>4. ASSUME NEW a \in Admins, SubmitForm(a) \/ RequestReload(a) PROVE CacheInv'
  <2>1. settingsForm' \in [Admins -> {"idle", "saving", "saved", "reloading"}]
        /\ \A b \in Admins : settingsForm'[b] \in {"saved", "reloading"} => settingsForm[b] \in {"saved", "reloading"}
    BY <1>1, <1>4 DEF SubmitForm, RequestReload
  <2>2. AskSettings(a)
    BY <1>4 DEF SubmitForm, RequestReload
  <2> QED BY <1>3, <2>1, <2>2, AskKeeps
<1>5. ASSUME NEW a \in Admins, AbandonForm(a) PROVE CacheInv'
  <2>1. settingsForm' = [settingsForm EXCEPT ![a] = "idle"]
    BY <1>5 DEF AbandonForm
  <2>2. settingsForm' \in [Admins -> {"idle", "saving", "saved", "reloading"}] /\ \A b \in Admins : settingsForm'[b] \in {settingsForm[b], "idle"}
    BY <1>1, <2>1
  <2>3. CASE Leave(a) /\ UNCHANGED <<saved, up, cache, pending, fetch, history>>
    BY <1>3, <2>2, <2>3, LeaveKeeps
  <2>4. CASE UNCHANGED <<cacheVars, history>>
    BY <2>2, <2>4 DEF CacheInv, CacheTypeOK, ReadsAreTrue, KnownIsCurrent, OnlyAnnouncedIsSure, StaleOnlyByOverlap,
         Provided, cacheVars, history
  <2> QED BY <1>5, <2>3, <2>4 DEF AbandonForm
<1>6. NoCall \in CallType /\ ~NoCall.sure
  BY DEF NoCall, CallType, Configs
<1>7. \A p \in Callers : [call[p] EXCEPT !.sure = FALSE] \in CallType /\ ~[call[p] EXCEPT !.sure = FALSE].sure
  BY <1>1 DEF CallType
<1>8. ASSUME NEW a \in Admins, NEW c \in Settings \cup {NoConfig}, SaveSettings(a, c) PROVE CacheInv'
  <2>1. call' \in [Callers -> CallType] /\ \A p \in Callers : ~call'[p].sure
    <3>1. call' = [p \in Callers |-> IF p = a THEN NoCall ELSE [call[p] EXCEPT !.sure = FALSE]]
      BY <1>8 DEF SaveSettings
    <3> QED BY <1>6, <1>7, <3>1
  <2>2. settingsForm' \in [Admins -> {"idle", "saving", "saved", "reloading"}]
    BY <1>1, <1>8 DEF SaveSettings
  <2> QED BY <1>8, <2>1, <2>2, SaveKeeps DEF SaveSettings
<1>9. ASSUME NEW c \in Settings, CompleteSetup(c) PROVE CacheInv'
  <2>1. call' \in [Callers -> CallType] /\ \A p \in Callers : ~call'[p].sure
    <3>1. call' = [p \in Callers |-> [call[p] EXCEPT !.sure = FALSE]]
      BY <1>9 DEF CompleteSetup
    <3> QED BY <1>7, <3>1
  <2> QED BY <1>1, <1>9, <2>1, SaveKeeps DEF CompleteSetup
<1>10. CASE Tick
  <2>1. cache' \in [value: Configs, fresh: 0..Ttl, failed: BOOLEAN] /\ cache'.value = cache.value
        /\ cache'.failed = cache.failed
    BY <1>10, CacheAssumption DEF Tick, CacheInv, CacheTypeOK
  <2>2. UNCHANGED <<saved, up, pending, fetch, call, settingsForm, history>> /\ cache.fresh > 0
    BY <1>10 DEF Tick
  <2> QED BY <2>1, <2>2 DEF CacheInv, CacheTypeOK, ReadsAreTrue, KnownIsCurrent, OnlyAnnouncedIsSure,
         StaleOnlyByOverlap, Provided, history
<1>11. CASE Toggle
  <2>1. up' \in BOOLEAN
    BY <1>11, Zenon DEF Toggle, CacheInv, CacheTypeOK
  <2>2. UNCHANGED <<saved, cache, pending, fetch, call, settingsForm, history>>
    BY <1>11 DEF Toggle
  <2> QED BY <2>1, <2>2 DEF CacheInv, CacheTypeOK, ReadsAreTrue, KnownIsCurrent, OnlyAnnouncedIsSure,
         StaleOnlyByOverlap, Provided, history
<1> QED BY <1>2, <1>4, <1>5, <1>8, <1>9, <1>10, <1>11, FetchKeeps, SettleKeeps, ReloadKeeps, SameConsole DEF CacheNext

\* What a fetch has read is what the server had when it read it, what the cache and the callers
\* know was read so, and nobody takes a value to be current that a save has not announced.
THEOREM CacheInvariant == CacheSpec => []CacheInv
<1> QED BY CacheInitInv, CacheNextInv, PTL DEF CacheSpec

\* StaleOnlyByOverlap: who asks after the drop that followed the last save is not told the settings
\* of before, unless a fetch that had read them was in flight at the drop (getResolvedOIDC, bustOIDCCache).
THEOREM AnswersAreCurrent == CacheSpec => []StaleOnlyByOverlap
<1>1. CacheInv => StaleOnlyByOverlap
  BY DEF CacheInv
<1> QED BY <1>1, CacheInvariant, PTL

(***************************************************************************)
(* The fetches in flight that nobody can join any more: each was left so   *)
(* by a drop, or by the callback of one that was.                          *)
(***************************************************************************)
Joined == IF pending = Nil THEN 0 ELSE 1
FewFetches == Cardinality(InFlight) <= reloads + Joined

LEMMA FetchCount ==
  /\ IsFiniteSet(InFlight) /\ Cardinality(InFlight) \in Nat
  /\ \A f \in Fetches \ InFlight : Cardinality(InFlight \cup {f}) = Cardinality(InFlight) + 1
  /\ \A f \in InFlight : Cardinality(InFlight \ {f}) = Cardinality(InFlight) - 1
<1>1. InFlight \subseteq Fetches /\ IsFiniteSet(Fetches)
  BY CacheAssumption DEF InFlight
<1>2. IsFiniteSet(InFlight)
  BY <1>1, FS_Subset
<1> QED BY <1>1, <1>2, FS_CardinalityType, FS_AddElement, FS_RemoveElement

LEMMA FewFetchesNext ==
  ASSUME CacheInv, FewFetches, [CacheNext]_allVars
  PROVE  FewFetches'
<1>1. reloads \in Nat /\ pending \in Fetches \cup {Nil} /\ fetch \in [Fetches -> FetchType] /\ Nil \notin Fetches
  BY CacheAssumption DEF CacheInv, CacheTypeOK, FetchType
<1>2. Cardinality(InFlight) \in Nat
  BY FetchCount
<1>3. ASSUME NEW p \in Callers, AskSettings(p) PROVE FewFetches'
  <2>1. reloads' = reloads
    BY <1>3 DEF AskSettings, history
  <2>2. CASE UNCHANGED <<pending, fetch>>
    BY <2>1, <2>2 DEF FewFetches, Joined, InFlight
  <2>3. ASSUME NEW f \in Fetches \ InFlight, ~Joinable, pending' = f, fetch' = [fetch EXCEPT ![f].at = "asked"]
        PROVE  FewFetches'
    <3>1. InFlight' = InFlight \cup {f}
      BY <1>1, <2>3 DEF InFlight, FetchType
    <3>2. Cardinality(InFlight') = Cardinality(InFlight) + 1 /\ pending = Nil /\ pending' # Nil
      BY <1>1, <2>3, <3>1, FetchCount DEF Joinable
    <3> QED BY <1>1, <1>2, <2>1, <3>2 DEF FewFetches, Joined
  <2> QED BY <1>3, <2>2, <2>3 DEF AskSettings
<1>4. ASSUME NEW f \in Fetches, BackendReads(f) \/ FetchFails(f) PROVE FewFetches'
  <2>1. InFlight' = InFlight /\ UNCHANGED <<pending, reloads>>
    BY <1>1, <1>4 DEF BackendReads, FetchFails, InFlight, FetchType, history
  <2> QED BY <2>1 DEF FewFetches, Joined
<1>5. ASSUME NEW f \in Fetches, Settle(f) PROVE FewFetches'
  <2>1. InFlight' = InFlight \ {f} /\ f \in InFlight /\ pending' = Nil /\ reloads' = reloads
    BY <1>1, <1>5 DEF Settle, InFlight, NoFetch, AfterSettle, history
  <2>2. Cardinality(InFlight') = Cardinality(InFlight) - 1
    BY <2>1, FetchCount
  <2> QED BY <1>1, <1>2, <2>1, <2>2 DEF FewFetches, Joined
<1>6. ASSUME NEW a \in Admins, Reload(a) PROVE FewFetches'
  <2>1. InFlight' = InFlight /\ pending' = Nil /\ reloads' = reloads + 1
    BY <1>6 DEF Reload, InFlight
  <2> QED BY <1>1, <1>2, <2>1 DEF FewFetches, Joined
<1>7. ASSUME NEW by, Outdated(by), UNCHANGED <<pending, reloads>> PROVE FewFetches'
  <2>1. \A f \in Fetches : fetch'[f].at = fetch[f].at
    BY <1>1, <1>7 DEF Outdated, FetchType
  <2>2. InFlight' = InFlight
    BY <2>1 DEF InFlight
  <2> QED BY <1>7, <2>2 DEF FewFetches, Joined
<1>8. ASSUME UNCHANGED <<pending, fetch, reloads>> PROVE FewFetches'
  BY <1>8 DEF FewFetches, Joined, InFlight
<1>9. ASSUME NEW v \in Visitors, Visit(v) \/ Respond(v) PROVE FewFetches'
  BY <1>3, <1>8, <1>9 DEF Visit, Respond, Callers, history
<1>10. ASSUME NEW a \in Admins, SubmitForm(a) \/ RequestReload(a) \/ AbandonForm(a) PROVE FewFetches'
  BY <1>3, <1>8, <1>10 DEF SubmitForm, RequestReload, AbandonForm, Callers, cacheVars, history
<1>11. ASSUME NEW a \in Admins, NEW c \in Settings \cup {NoConfig}, SaveSettings(a, c) PROVE FewFetches'
  BY <1>7, <1>11 DEF SaveSettings
<1>12. ASSUME NEW c \in Settings, CompleteSetup(c) PROVE FewFetches'
  BY <1>7, <1>12 DEF CompleteSetup
<1>13. ASSUME Tick \/ Toggle \/ UNCHANGED allVars PROVE FewFetches'
  BY <1>8, <1>13 DEF Tick, Toggle, allVars, cacheVars, history
<1> QED BY <1>4, <1>5, <1>6, <1>9, <1>10, <1>11, <1>12, <1>13 DEF CacheNext

\* OneFetchPerReload: callers share a refresh, and each drop of the cache adds at most one more
\* fetch to those in flight at a time, though the callback of an old one forgets a newer
\* (oidcCachePending).
THEOREM FetchesAreShared == CacheSpec => []OneFetchPerReload
<1>1. CacheInit => FewFetches
  <2> SUFFICES ASSUME CacheInit PROVE FewFetches
    OBVIOUS
  <2>1. InFlight = {} /\ reloads = 0 /\ pending = Nil
    BY DEF CacheInit, InFlight, NoFetch
  <2> QED BY <2>1, FS_EmptySet DEF FewFetches, Joined
<1>2. CacheInv /\ FewFetches /\ [CacheNext]_allVars => FewFetches'
  BY FewFetchesNext
<1>3. CacheInv /\ FewFetches => OneFetchPerReload
  BY FetchCount DEF FewFetches, Joined, OneFetchPerReload, CacheInv, CacheTypeOK
<1> QED BY <1>1, <1>2, <1>3, CacheInvariant, PTL DEF CacheSpec
===============================================================================

----------------------------- MODULE QueryViews ------------------------------
(***************************************************************************)
(* The console's views that ask for themselves and cancel nothing: charts  *)
(* on a timer, panels of one subject, the search, the notification list,   *)
(* the route tester.  Each keeps the last answer that came.  What is asked *)
(* is asked of the cookie's organisation (ActiveOrg).  One view is on the  *)
(* screen; which, is ActiveOrg's choice.                                   *)
(*                                                                         *)
(* Abstracted: what an answer holds beyond the subject, the organisation   *)
(* and the version of the data it is of; layout and zoom.                  *)
(***************************************************************************)
EXTENDS ActiveOrg, Sequences, SequencesExt

CONSTANTS
    Subjects,       \* rows a panel is of, texts searched for, routes tested
    Blank,          \* a text of fewer than two characters
    MaxAsks,        \* bound: questions asked, the timer's left aside
    MaxOut,         \* bound: questions of the timer that are out
    MaxVersion,     \* bound: changes of the data
    MaxLosses       \* bound: questions that fail

ASSUME QueryViewsAssumption ==
    /\ Subjects # {} /\ Blank \notin Subjects /\ NoOrg \notin Subjects \cup {Blank}
    /\ MaxAsks \in Nat \ {0} /\ MaxOut \in Nat /\ MaxVersion \in Nat /\ MaxLosses \in Nat

VARIABLES
    open,       \* the view is mounted, or open
    subject,    \* what it is to show
    due,        \* the search's timer runs
    loading,    \* the view says that it waits
    asks,       \* questions asked
    out,        \* questions that are out, in the order they were asked
    shown,      \* the answer the view holds
    version,    \* what the data says now
    passed      \* history

qvars == <<open, subject, due, loading, asks, out, shown, version, passed>>
viewsVars == <<ovars, qvars>>

Nothing == [n |-> 0, subject |-> NoOrg, org |-> NoOrg, version |-> 0]

\* The opening a list of notifications is for.
Openings == 1..MaxAsks

\* The charts begin with what their page was rendered with.
ViewsInit ==
    /\ OrgInit
    /\ open = (screen \in {"charts", "tester"})
    /\ subject \in CASE screen = "search" -> {Blank}
                    [] screen \in {"panel", "tester"} -> Subjects
                    [] OTHER -> {NoOrg}
    /\ due = FALSE /\ loading = FALSE /\ asks = 0 /\ out = <<>>
    /\ shown = IF screen = "charts" THEN [Nothing EXCEPT !.org = cookie] ELSE Nothing
    /\ version = 0
    /\ passed = [lapsed |-> FALSE,  \* the last question failed, was answered before an earlier one,
                                    \*   or was cleared from the screen while it was out
                 lost |-> 0]

\* The cookie's organisation, and the data as they are when it is asked.
Question(s) == [n |-> asks + 1, subject |-> s, org |-> cookie, version |-> version]
Ask(s) ==
    /\ asks' = asks + 1
    /\ out' = Append(out, Question(s))
    /\ passed' = [passed EXCEPT !.lapsed = FALSE]

(***************************************************************************)
(* Asking.                                                                 *)
(***************************************************************************)

\* The charts of the overview, every 30 s; a question still out does not stop the next.
ChartsPoll ==
    /\ screen = "charts" /\ Len(out) < MaxOut
    /\ out' = Append(out, [Question(subject) EXCEPT !.n = 1])
    /\ UNCHANGED <<ovars, open, subject, due, loading, asks, shown, version, passed>>

\* A panel is mounted with its subject and asks.
MountPanel ==
    /\ screen = "panel" /\ ~open /\ asks < MaxAsks
    /\ open' = TRUE /\ loading' = TRUE /\ shown' = Nothing
    /\ Ask(subject)
    /\ UNCHANGED <<ovars, subject, due, version>>

\* The inspector of the map turns to another token without unmounting the panel: it asks, shows
\* what it had, and does not say that it waits.
TurnPanel(s) ==
    /\ screen = "panel" /\ open /\ s # subject /\ asks < MaxAsks
    /\ subject' = s
    /\ Ask(s)
    /\ UNCHANGED <<ovars, open, due, loading, shown, version>>

\* Answers to a panel that is gone change nothing.
UnmountPanel ==
    /\ screen = "panel" /\ open
    /\ open' = FALSE /\ out' = <<>> /\ shown' = Nothing /\ loading' = FALSE
    /\ UNCHANGED <<ovars, subject, due, asks, version, passed>>

\* Each change of the text starts the 300 ms again.
Type(s) ==
    /\ screen = "search" /\ open /\ s # subject
    /\ subject' = s /\ due' = TRUE
    /\ UNCHANGED <<ovars, open, loading, asks, out, shown, version, passed>>

OpenSearch ==
    /\ screen = "search" /\ ~open
    /\ open' = TRUE
    /\ UNCHANGED <<ovars, subject, due, loading, asks, out, shown, version, passed>>

Cleared == [passed EXCEPT !.lapsed = @ \/ out # <<>>]

\* Escape, the backdrop, or a result: the box is emptied, what is out stays out.
CloseSearch ==
    /\ screen = "search" /\ open
    /\ open' = FALSE /\ subject' = Blank /\ shown' = Nothing
    /\ due' = (due \/ subject # Blank) /\ passed' = Cleared
    /\ UNCHANGED <<ovars, loading, asks, out, version>>

MutBlankKeeps == shown
AfterBlank == Nothing

SearchFires ==
    /\ screen = "search" /\ due
    /\ due' = FALSE
    /\ IF subject = Blank
       THEN shown' = AfterBlank /\ passed' = Cleared /\ UNCHANGED <<loading, asks, out>>
       ELSE asks < MaxAsks /\ loading' = TRUE /\ Ask(subject) /\ UNCHANGED shown
    /\ UNCHANGED <<ovars, open, subject, version>>

\* The bell.  "Loading" is shown until an answer has come since it was last closed by the bell.
OpenNotices ==
    /\ screen = "notices" /\ ~open /\ asks < MaxAsks
    /\ open' = TRUE /\ subject' = asks + 1
    /\ Ask(asks + 1)
    /\ UNCHANGED <<ovars, due, loading, shown, version>>

CloseNotices(how) ==
    /\ screen = "notices" /\ open
    /\ open' = FALSE
    /\ loading' = IF how = "bell" THEN TRUE ELSE loading
    /\ UNCHANGED <<ovars, subject, due, asks, out, shown, version, passed>>

\* The tester's button is locked while a test is out.
Unlocked == ~loading
Test ==
    /\ screen = "tester" /\ open /\ Unlocked /\ asks < MaxAsks
    /\ loading' = TRUE /\ shown' = Nothing
    /\ Ask(subject)
    /\ UNCHANGED <<ovars, open, subject, due, version>>

PickRoute(s) ==
    /\ screen = "tester" /\ open /\ s # subject
    /\ subject' = s
    /\ UNCHANGED <<ovars, open, due, loading, asks, out, shown, version, passed>>

\* Closed and opened again; the test stays out.
ToggleTester ==
    /\ screen = "tester"
    /\ open' = ~open
    /\ shown' = IF open THEN Nothing ELSE shown
    /\ UNCHANGED <<ovars, subject, due, loading, asks, out, version, passed>>

(***************************************************************************)
(* Answers, in any order.  The server looks at the data at some moment     *)
(* between the question and its answer.                                    *)
(***************************************************************************)
Of(i, v) == [out[i] EXCEPT !.version = v]
Computed(i) == out[i].version..version

\* A later question has been answered already.
Overtaken(i) == \A j \in 1..Len(out) : out[j].n < asks

\* What a view does with an answer: keep it, whatever it is to and whatever is newer.
MutKept(i, v) == shown
Kept(i, v) == Of(i, v)

Answer(i) ==
    /\ out' = RemoveAt(out, i)
    /\ \E v \in Computed(i) : shown' = Kept(i, v)
    /\ loading' = FALSE
    /\ passed' = [passed EXCEPT !.lapsed = @ \/ Overtaken(i)]
    /\ UNCHANGED <<ovars, open, subject, due, asks, version>>

\* The charts, the panels and the search keep what they have; the notifications, and a test, say
\* that there is nothing.
AnswerLost(i) ==
    /\ passed.lost < MaxLosses
    /\ out' = RemoveAt(out, i)
    /\ shown' = IF screen \in {"notices", "tester"} THEN Of(i, 0) ELSE shown
    /\ loading' = FALSE
    /\ passed' = [lapsed |-> passed.lapsed \/ out[i].n = asks \/ (screen = "notices" /\ Overtaken(i)), lost |-> passed.lost + 1]
    /\ UNCHANGED <<ovars, open, subject, due, asks, version>>

Changes ==
    /\ screen = "charts" /\ version < MaxVersion
    /\ version' = version + 1
    /\ UNCHANGED <<ovars, open, subject, due, loading, asks, out, shown, passed>>

(***************************************************************************)
(* Specification                                                           *)
(***************************************************************************)
QueryNext ==
    \/ ChartsPoll \/ MountPanel \/ UnmountPanel \/ OpenSearch \/ CloseSearch \/ SearchFires
    \/ (\E s \in Subjects : TurnPanel(s) \/ PickRoute(s))
    \/ (\E s \in Subjects \cup {Blank} : Type(s))
    \/ OpenNotices \/ (\E how \in {"bell", "outside"} : CloseNotices(how))
    \/ Test \/ ToggleTester \/ Changes
    \/ \E i \in 1..Len(out) : Answer(i) \/ AnswerLost(i)

ViewsNext == QueryNext \/ (OrgNext /\ UNCHANGED qvars)

Fairness ==
    /\ OrgFairness
    /\ WF_viewsVars(ChartsPoll) /\ WF_viewsVars(SearchFires)
    /\ WF_viewsVars(\E i \in 1..Len(out) : Answer(i) \/ AnswerLost(i))

ViewsSpec == ViewsInit /\ [][ViewsNext]_viewsVars /\ Fairness

(***************************************************************************)
(* Properties                                                              *)
(***************************************************************************)

\* The variables stay in their types.
ViewsTypeOK ==
    LET Subject == Subjects \cup {Blank, NoOrg} \cup Openings
        Org == Orgs \cup {NoOrg}
    IN
    /\ OrgTypeOK
    /\ open \in BOOLEAN /\ due \in BOOLEAN /\ loading \in BOOLEAN
    /\ subject \in Subject /\ asks \in 0..MaxAsks /\ version \in 0..MaxVersion
    /\ out \in Seq([n : 1..MaxAsks, subject : Subject, org : Org, version : 0..MaxVersion])
    /\ shown \in [n : 0..MaxAsks, subject : Subject, org : Org, version : 0..version]

\* When nothing is out, what a panel, the search and the notifications show is what they were last
\* asked for, unless an earlier answer came last, the last question failed, or the screen was
\* cleared while one was out: nothing is cancelled and no answer is matched with its question
\* (global-search.tsx:17-64, token-stats-panel.tsx:56-62, notification-center.tsx:71-77).  The
\* route tester, locked meanwhile, shows the outcome of the last test, though it was closed, opened
\* and turned to another route while the test was out (route-tester.tsx:72-107, 142).
ViewShowsItsSubject ==
    /\ screen \in {"panel", "search", "notices"} /\ out = <<>> /\ ~due /\ ~passed.lapsed /\ shown # Nothing =>
           shown.subject = subject
    /\ screen = "tester" /\ shown # Nothing => shown.n = asks

\* What is asked for on a timer comes to be right, whoever switched, whatever was lost and however
\* late an answer read long ago comes, so long as nobody switches: the audit page shows the session's organisation, and the charts that
\* organisation's present data, although they stay as they are when the page is rendered for
\* another (audit-view.tsx:113-118, dashboard-charts.tsx:69-100).
PolledViewsCatchUp ==
    /\ (screen = "audit") ~> (page.org = cookie)
    /\ (screen = "charts") ~> (shown.org = cookie /\ shown.version = version)
=============================================================================

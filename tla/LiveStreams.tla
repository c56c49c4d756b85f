---------------------------- MODULE LiveStreams -----------------------------
(***************************************************************************)
(* The console's two live views: the audit page's stream of events         *)
(* (LiveAuditStream), fed by the Broadcaster, and the topology map         *)
(* (LiveTopologyMap), fed by a snapshot of the organisation every 2 s.     *)
(* Either asks the console for an address and a token, opens an            *)
(* EventSource and keeps it in a ref.  One view is modelled; which, is     *)
(* chosen at the start.                                                    *)
(*                                                                         *)
(* The session cookie names the organisation; the map also has the one its *)
(* page was rendered for.  They part while a switch made here is on its    *)
(* way to the page, and for good when another tab switches.                *)
(*                                                                         *)
(* EventSource is the browser's: a connection that breaks is opened again  *)
(* with the same URL, one that is refused is given up.  The URL holds a    *)
(* token that is good for five minutes (backend-admin-token.ts:29).        *)
(*                                                                         *)
(* Abstracted: filters and layout, what an event or a snapshot says (an    *)
(* event is itself; a snapshot is of an organisation at a version).        *)
(***************************************************************************)
EXTENDS Broadcaster, FiniteSets

CONSTANTS
    Orgs,
    Attempts,       \* bound: times a view connects
    MaxOpens,       \* bound: times the audit panel is opened
    Kept,           \* events the audit stream keeps: 200 in the code
    MaxFailures,    \* bound: connections that fail or break
    MaxSwitches,    \* bound: changes of the organisation
    MaxPolls,       \* bound: reads of the map after a write
    MaxVersion,     \* bound: changes of what a snapshot says
    None

ASSUME LiveStreamsAssumption ==
    /\ Attempts \in Nat \ {0} /\ MaxOpens \in 0..Attempts /\ Kept \in Nat /\ Orgs # {} /\ None \notin Orgs \cup Conns \cup Events
    /\ MaxFailures \in Nat /\ MaxSwitches \in Nat /\ MaxPolls \in Nat /\ MaxVersion \in Nat

\* Operators named Mut... are mutants, for the checks that a property notices a bug in the code.
VARIABLES
    view,       \* "audit" or "map"
    open,       \* the view is on the screen
    org,        \* organisation the page was rendered for
    cookie,     \* organisation in the session
    asked,      \* a switch made here has asked for the page again, and it has not come
    tries,      \* connections, by the number of the attempt
    used,       \* attempts made; connectionAttemptRef of the map
    era,        \* first attempt of the map's present effect; earlier ones are disposed
    ref,        \* attempt whose EventSource the view holds, 0 for none
    timer,      \* the map is about to connect again
    shown,      \* events, newest first; or the map's snapshot
    polls,      \* reads of the map that are out
    version,    \* what a snapshot would say now
    tally       \* history

vars == <<bvars, view, open, org, cookie, asked, tries, used, era, ref, timer, shown, polls,
          version, tally>>

Snapshot(o, v) == [org |-> o, version |-> v]
Unused == [at |-> "unused", org |-> None, conn |-> None, expired |-> FALSE]

Init ==
    /\ BroadcasterInit
    /\ view \in {"audit", "map"}
    /\ cookie \in Orgs /\ org = cookie /\ asked = FALSE
    /\ open = (view = "map")
    /\ used = IF view = "map" THEN 1 ELSE 0
    /\ tries = [s \in 1..Attempts |-> IF s <= used THEN [Unused EXCEPT !.at = "asking"] ELSE Unused]
    /\ era = 1 /\ ref = 0 /\ timer = FALSE
    /\ shown = IF view = "map" THEN Snapshot(org, 0) ELSE <<>>
    /\ polls = {} /\ version = 0
    /\ tally = [failures |-> 0, switches |-> 0, polls |-> 0,
                crossed |-> FALSE,  \* a view went, or changed its organisation, while an attempt
                                    \*   was past its last check and had no EventSource yet
                settled |-> FALSE,  \* the present stream has delivered
                mixed |-> FALSE]    \* another organisation than the page's was read for it

(***************************************************************************)
(* Connecting.                                                             *)
(***************************************************************************)
Set(s, at) == [tries EXCEPT ![s].at = at]
Live(s) == tries[s].at \in {"connecting", "open"}

\* close() of the EventSource that is held.
RefClosed == IF ref = 0 THEN tries ELSE [tries EXCEPT ![ref].at = "closed"]
Connected(ts) == [ts EXCEPT ![used + 1].at = "asking"]

\* disposed || attemptID !== connectionAttemptRef.current.  The audit stream asks nothing.
Superseded(s) == view = "map" /\ (s < era \/ s # used)
Disposed(s) == ~open \/ Superseded(s)

\* Attempts that nothing stops from opening an EventSource any more.
Unstoppable == {s \in 1..used : tries[s].at = "parsing" \/ (view = "audit" /\ tries[s].at = "asking")}

\* /socket-info is answered with the session's organisation.
SocketInfo(s) ==
    /\ tries[s].at = "asking"
    /\ IF view = "map" /\ Disposed(s)
       THEN tries' = Set(s, "dropped")
       ELSE tries' = [tries EXCEPT ![s] = [@ EXCEPT !.at = "parsing", !.org = cookie]]
    /\ UNCHANGED <<bvars, view, open, org, cookie, asked, used, era, ref, timer, shown, polls, version, tally>>

\* It is refused or does not come: the map tries again after 3 s, the audit stream does not.
MutNoRetry(s) == timer
Retried(s) == timer \/ ~Disposed(s)
SocketInfoFails(s) ==
    /\ tries[s].at = "asking" /\ tally.failures < MaxFailures
    /\ tries' = Set(s, "failed")
    /\ timer' = IF view = "map" THEN Retried(s) ELSE timer
    /\ tally' = [tally EXCEPT !.failures = @ + 1]
    /\ UNCHANGED <<bvars, view, open, org, cookie, asked, used, era, ref, shown, polls, version>>

\* The body has been read; whether the view is still there is not asked again.
OpenSource(s) ==
    /\ tries[s].at = "parsing"
    /\ tries' = Set(s, "connecting")
    /\ ref' = s
    /\ tally' = [tally EXCEPT !.mixed = @ \/ (~Disposed(s) /\ tries[s].org # org)]
    /\ UNCHANGED <<bvars, view, open, org, cookie, asked, used, era, timer, shown, polls, version>>

\* The scheduled connect.
TimerFires ==
    /\ timer /\ used < Attempts
    /\ timer' = FALSE
    /\ tries' = Connected(RefClosed) /\ used' = used + 1 /\ ref' = 0
    /\ UNCHANGED <<bvars, view, open, org, cookie, asked, era, shown, polls, version, tally>>

(***************************************************************************)
(* The browser's EventSource and the server's handler.                     *)
(***************************************************************************)
Accept(s) ==
    /\ tries[s].at = "connecting" /\ ~tries[s].expired
    /\ timer' = (timer /\ Disposed(s))
    /\ IF view = "audit"
       THEN \E c \in Conns : Subscribe(c) /\ tries' = [tries EXCEPT ![s] = [@ EXCEPT !.at = "open", !.conn = c]]
       ELSE tries' = Set(s, "open") /\ UNCHANGED bvars
    /\ UNCHANGED <<view, open, org, cookie, asked, used, era, ref, shown, polls, version, tally>>

\* 401, or any other answer than a stream: the browser gives up, and nothing else is done.
Reject(s) ==
    /\ tries[s].at = "connecting"
    /\ \/ tries[s].expired /\ UNCHANGED tally
       \/ /\ ~tries[s].expired /\ tally.failures < MaxFailures
          /\ tally' = [tally EXCEPT !.failures = @ + 1]
    /\ tries' = Set(s, "rejected")
    /\ UNCHANGED <<bvars, view, open, org, cookie, asked, used, era, ref, timer, shown, polls, version>>

\* The connection breaks; the browser opens it again, and nothing else is done.
Drop(s) ==
    /\ tries[s].at = "open" /\ tally.failures < MaxFailures
    /\ tries' = [tries EXCEPT ![s] = [@ EXCEPT !.at = "connecting", !.conn = None]]
    /\ tally' = [tally EXCEPT !.failures = @ + 1]
    /\ UNCHANGED <<bvars, view, open, org, cookie, asked, used, era, ref, timer, shown, polls, version>>

\* Five minutes have passed; a connection is made in less.
Expire(s) ==
    /\ tries[s].at = "open" /\ ~tries[s].expired
    /\ tries' = [tries EXCEPT ![s].expired = TRUE]
    /\ UNCHANGED <<bvars, view, open, org, cookie, asked, used, era, ref, timer, shown, polls, version, tally>>

\* The handler sees that its client is gone, whatever waits in the channel.
HandlerEnds(c) ==
    /\ \A s \in 1..used : ~(tries[s].at = "open" /\ tries[s].conn = c)
    /\ Unsubscribe(c)
    /\ UNCHANGED <<view, open, org, cookie, asked, tries, used, era, ref, timer, shown, polls, version, tally>>

Proxied ==
    /\ \/ \E e \in Events : Broadcast(e) \/ Finish(e) \/ \E c \in Conns : Send(e, c)
       \/ \E c \in Conns : Close(c)
    /\ view = "audit"
    /\ UNCHANGED <<view, open, org, cookie, asked, tries, used, era, ref, timer, shown, polls, version, tally>>

(***************************************************************************)
(* Messages.                                                               *)
(***************************************************************************)
Pushed(e) == SubSeq(<<e>> \o shown, 1, IF Len(shown) < Kept THEN Len(shown) + 1 ELSE Kept)

\* What comes is put on the list, the panel open or not.
AuditMessage(s) ==
    /\ view = "audit" /\ tries[s].at = "open"
    /\ Receive(tries[s].conn)
    /\ shown' = Pushed(Head(chan[tries[s].conn]))
    /\ UNCHANGED <<view, open, org, cookie, asked, tries, used, era, ref, timer, polls, version, tally>>

MutTaken(s) == TRUE
Taken(s) == ~Disposed(s)

MapMessage(s) ==
    /\ view = "map" /\ tries[s].at = "open"
    /\ IF Taken(s)
       THEN /\ shown' = Snapshot(tries[s].org, version)
            /\ tally' = [tally EXCEPT !.settled = @ \/ ~Disposed(s)]
       ELSE UNCHANGED <<shown, tally>>
    /\ UNCHANGED <<bvars, view, open, org, cookie, asked, tries, used, era, ref, timer, polls, version>>

(***************************************************************************)
(* The map is read again after a write; the answer is shown whatever has   *)
(* happened since.                                                         *)
(***************************************************************************)
Poll ==
    /\ view = "map" /\ open /\ tally.polls < MaxPolls
    /\ polls' = polls \cup {Snapshot(cookie, version)}
    /\ tally' = [tally EXCEPT !.polls = @ + 1]
    /\ UNCHANGED <<bvars, view, open, org, cookie, asked, tries, used, era, ref, timer, shown, version>>

PollArrives(p) ==
    /\ p \in polls
    /\ polls' = polls \ {p}
    /\ shown' = p
    /\ tally' = [tally EXCEPT !.mixed = @ \/ p.org # org]
    /\ UNCHANGED <<bvars, view, open, org, cookie, asked, tries, used, era, ref, timer, version>>

Changes ==
    /\ view = "map" /\ version < MaxVersion
    /\ version' = version + 1
    /\ UNCHANGED <<bvars, view, open, org, cookie, asked, tries, used, era, ref, timer, shown, polls, tally>>

(***************************************************************************)
(* The operator.                                                           *)
(***************************************************************************)
OpenPanel ==
    /\ view = "audit" /\ ~open /\ used < MaxOpens
    /\ open' = TRUE
    /\ IF ref = 0 THEN tries' = Connected(tries) /\ used' = used + 1 ELSE UNCHANGED <<tries, used>>
    /\ UNCHANGED <<bvars, view, org, cookie, asked, era, ref, timer, shown, polls, version, tally>>

MutLeftOpen == tries
Left == RefClosed
ClosePanel ==
    /\ view = "audit" /\ open
    /\ open' = FALSE /\ shown' = <<>>
    /\ tries' = Left /\ ref' = 0
    /\ tally' = [tally EXCEPT !.crossed = @ \/ Unstoppable # {}]
    /\ UNCHANGED <<bvars, view, org, cookie, asked, used, era, timer, polls, version>>

LeaveMap ==
    /\ view = "map" /\ open
    /\ open' = FALSE /\ timer' = FALSE
    /\ tries' = Left /\ ref' = 0
    /\ tally' = [tally EXCEPT !.crossed = @ \/ Unstoppable # {}]
    /\ UNCHANGED <<bvars, view, org, cookie, asked, used, era, shown, polls, version>>

Switched(o) ==
    /\ view = "map" /\ tally.switches < MaxSwitches
    /\ cookie' = o
    /\ tally' = [tally EXCEPT !.switches = @ + 1]
    /\ UNCHANGED <<bvars, view, open, org, tries, used, era, ref, timer, shown, polls, version>>

\* Here, where the present one may be chosen again: the page is asked for again.
SwitchOrg(o) == Switched(o) /\ asked' = TRUE

\* In another tab: nothing is asked of this page.
OtherTab(o) == o # cookie /\ Switched(o) /\ UNCHANGED asked

\* The page is rendered for another organisation, because it was asked for or by a refresh that
\* something else wanted: the effect runs again.  What the map shows is state of the component
\* and stays.
NewEra == used + 1
PageArrives ==
    /\ view = "map" /\ open /\ org # cookie /\ used < Attempts
    /\ org' = cookie /\ asked' = FALSE
    /\ era' = NewEra /\ timer' = FALSE
    /\ tries' = Connected(RefClosed) /\ used' = used + 1 /\ ref' = 0
    /\ tally' = [tally EXCEPT !.crossed = @ \/ Unstoppable # {}, !.settled = FALSE, !.mixed = FALSE]
    /\ UNCHANGED <<bvars, view, open, cookie, shown, polls, version>>

\* It comes for the same organisation: nothing runs.
PageStays ==
    /\ asked /\ org = cookie
    /\ asked' = FALSE
    /\ UNCHANGED <<bvars, view, open, org, cookie, tries, used, era, ref, timer, shown, polls, version, tally>>

(***************************************************************************)
(* Specification.  The browser and the server go on; the operator and the  *)
(* clients of the gateway need not.  A page comes if it was asked for      *)
(* here.  Nothing is asked of the handlers that read the channels.         *)
(***************************************************************************)
Asking(s) == SocketInfo(s) \/ SocketInfoFails(s) \/ OpenSource(s) \/ Accept(s) \/ Reject(s)

Next ==
    \/ \E s \in 1..used : Asking(s) \/ Drop(s) \/ Expire(s) \/ AuditMessage(s) \/ MapMessage(s)
    \/ \E c \in Conns : HandlerEnds(c)
    \/ Proxied \/ TimerFires \/ Poll \/ (\E p \in polls : PollArrives(p)) \/ Changes
    \/ OpenPanel \/ ClosePanel \/ LeaveMap \/ PageArrives \/ PageStays
    \/ \E o \in Orgs : SwitchOrg(o) \/ OtherTab(o)

Fairness ==
    /\ \A s \in 1..Attempts : WF_vars(s <= used /\ Asking(s)) /\ WF_vars(s <= used /\ MapMessage(s))
    /\ WF_vars(TimerFires) /\ WF_vars(asked /\ (PageArrives \/ PageStays)) /\ WF_vars(\E p \in polls : PollArrives(p))
    /\ \A e \in Events : WF_vars(Proxied /\ (Finish(e) \/ \E c \in Conns : Send(e, c)))

Spec == Init /\ [][Next]_vars /\ Fairness

(***************************************************************************)
(* Properties                                                              *)
(***************************************************************************)

\* The variables stay in their types.
TypeOK ==
    /\ ChannelsOK
    /\ tries \in [1..Attempts ->
            [at : {"unused", "asking", "dropped", "failed", "parsing", "connecting", "open", "rejected", "closed"},
             org : Orgs \cup {None}, conn : Conns \cup {None}, expired : BOOLEAN]]
    /\ used \in 0..Attempts /\ ref \in 0..used /\ era \in 1..used + 1 /\ asked \in BOOLEAN
    /\ IF view = "map" THEN shown \in [org : Orgs, version : 0..version]
       ELSE shown \in Seq(Events) /\ Len(shown) <= Kept

\* However many streams there are and however long nobody reads them, the proxied request that
\* broadcasts its event is not held up (audit_broadcaster.go:40-41).
BroadcastEnds == \A e \in Events : casts[e].at = "sending" ~> casts[e].at = "done"

\* A view that is on the screen has at most one EventSource and one that is not has none, unless
\* it went while an attempt was past its last check: the source that attempt opens is not closed
\* by anyone, or displaces from the ref one that then is not (live-audit-stream.tsx:34,
\* live-topology-map.tsx:325).
NoStrayStream ==
    ~tally.crossed => \A s \in 1..used : Live(s) => open /\ s = ref

\* The audit stream shows an event once, though a broken connection is opened again on a new
\* channel while the handler of the old one may still be receiving.  Two sources of one panel
\* (see NoStrayStream) show it twice.
EventShownOnce ==
    view = "audit" /\ ~tally.crossed => \A i, j \in 1..Len(shown) : shown[i] = shown[j] => i = j

\* Once its stream has delivered, the map shows the organisation the page is for, whatever
\* streams of earlier organisations are still connected, unless another tab had switched when it
\* connected, or a read after a write was answered for another one.
MapKeepsToOrg ==
    view = "map" /\ tally.settled /\ ~tally.mixed => shown.org = org

\* A map that is on the screen comes to show the present snapshot of the organisation its page
\* is for, over failures to connect, broken connections and changes of the organisation; a page
\* is for the organisation of the cookie again only if it comes again, which a switch in another
\* tab does not ask for (live-topology-map.tsx:385).  Two things leave the map as it is for good:
\* the stream is refused, for a token no longer good or another reason (358-364); and it was
\* opened for another organisation than the page's, another tab having switched before it asked.
UpToDate == view = "map" /\ shown = Snapshot(org, version)
Stuck == tries[used].at = "rejected"
Foreign == ~asked /\ tries[used].org \notin {None, org}
MapCatchesUp ==
    (view = "map" /\ open /\ ~UpToDate) ~> (UpToDate \/ ~open \/ Stuck \/ Foreign)
=============================================================================

-------------------------- MODULE LiveStreamsProofs --------------------------
(***************************************************************************)
(* The Broadcaster and the live views it feeds, for any number of streams, *)
(* requests, attempts and organisations, and any room in a channel.  The   *)
(* Broadcaster never sends on a closed channel: a channel leaves the       *)
(* subscribers only under the write lock, when no broadcast is under way,  *)
(* and is closed only after it has left.  The views use it as it allows,   *)
(* and on top of that: one source per view, each event shown once, and     *)
(* the map's own organisation.                                             *)
(***************************************************************************)
EXTENDS LiveStreams, TLAPS

BInv == ChannelsOK /\ SendsToOpen

LEMMA InitBInv == BroadcasterInit => BInv
  BY BroadcasterAssumption DEF BroadcasterInit, BInv, ChannelsOK, SendsToOpen

LEMMA SubscriberSteps ==
  ASSUME BInv, NEW c \in Conns, Subscribe(c) \/ Unsubscribe(c) \/ Close(c) \/ Receive(c)
  PROVE  BInv'
<1> USE DEF BInv, ChannelsOK
<1>1. CASE Subscribe(c)
  <2>1. ChannelsOK'
    BY <1>1 DEF Subscribe
  <2>2. SendsToOpen'
    BY <1>1 DEF Subscribe, Lockable, SendsToOpen
  <2> QED BY <2>1, <2>2
<1>2. CASE Unsubscribe(c)
  <2>1. ChannelsOK'
    BY <1>2 DEF Unsubscribe
  <2>2. SendsToOpen'
    BY <1>2 DEF Unsubscribe, Lockable, SendsToOpen
  <2> QED BY <2>1, <2>2
<1>3. CASE Close(c)
  <2>1. ChannelsOK'
    BY <1>3 DEF Close
  <2>2. SendsToOpen'
    BY <1>3 DEF Close, SendsToOpen
  <2> QED BY <2>1, <2>2
<1>4. CASE Receive(c)
  <2>1. chan[c] \in Seq(Events) /\ chan[c] # <<>>
    BY <1>4 DEF Receive
  <2>2. Tail(chan[c]) \in Seq(Events) /\ Len(Tail(chan[c])) <= Len(chan[c])
    BY <2>1
  <2>3. ChannelsOK'
    BY <1>4, <2>2, BroadcasterAssumption DEF Receive
  <2>4. SendsToOpen'
    BY <1>4 DEF Receive, SendsToOpen
  <2> QED BY <2>3, <2>4
<1> QED BY <1>1, <1>2, <1>3, <1>4

LEMMA RequestSteps ==
  ASSUME BInv, NEW e \in Events, Broadcast(e) \/ Finish(e)
  PROVE  BInv'
<1> USE DEF BInv, ChannelsOK
<1>1. CASE Broadcast(e)
  <2>1. ChannelsOK'
    BY <1>1 DEF Broadcast, subscribers
  <2>2. SendsToOpen'
    BY <1>1 DEF Broadcast, subscribers, SendsToOpen
  <2> QED BY <2>1, <2>2
<1>2. CASE Finish(e)
  <2>1. ChannelsOK'
    BY <1>2 DEF Finish
  <2>2. SendsToOpen'
    BY <1>2 DEF Finish, SendsToOpen
  <2> QED BY <2>1, <2>2
<1> QED BY <1>1, <1>2

LEMMA SendStep ==
  ASSUME BInv, NEW e \in Events, NEW c \in Conns, Send(e, c)
  PROVE  BInv'
<1> USE DEF BInv, ChannelsOK
<1>1. Offered(c, e) \in Seq(Events) /\ Len(Offered(c, e)) <= Cap
  <2>1. CASE Len(chan[c]) < Cap
    BY <2>1, BroadcasterAssumption DEF Offered
  <2>2. CASE ~(Len(chan[c]) < Cap)
    BY <2>2 DEF Offered
  <2> QED BY <2>1, <2>2
<1>2. ChannelsOK'
  BY <1>1 DEF Send, Sent
<1>3. SendsToOpen'
  BY DEF Send, Sent, SendsToOpen
<1> QED BY <1>2, <1>3

LEMMA BroadcasterKeeps == BInv /\ [BroadcasterNext]_bvars => BInv'
<1> SUFFICES ASSUME BInv, [BroadcasterNext]_bvars PROVE BInv'
  OBVIOUS
<1>1. CASE \E c \in Conns : Subscribe(c) \/ Unsubscribe(c) \/ Close(c) \/ Receive(c)
  BY <1>1, SubscriberSteps
<1>2. CASE \E e \in Events : Broadcast(e) \/ Finish(e)
  BY <1>2, RequestSteps
<1>3. CASE \E e \in Events : \E c \in Conns : Send(e, c)
  BY <1>3, SendStep
<1>4. CASE UNCHANGED bvars
  BY <1>4 DEF bvars, BInv, ChannelsOK, SendsToOpen
<1> QED BY <1>1, <1>2, <1>3, <1>4 DEF BroadcasterNext

(* A broadcast never sends on a closed channel, and no channel holds more    *)
(* than it has room for (audit_broadcaster.go:22-57).                        *)
THEOREM BroadcasterSafe == BroadcasterSpec => [](ChannelsOK /\ SendsToOpen)
<1>1. BInv => ChannelsOK /\ SendsToOpen
  BY DEF BInv
<1> QED BY InitBInv, BroadcasterKeeps, <1>1, PTL DEF BroadcasterSpec

(***************************************************************************)
(* The live views: types.                                                  *)
(***************************************************************************)
Try == [at : {"unused", "asking", "dropped", "failed", "parsing", "connecting", "open", "rejected", "closed"},
        org : Orgs \cup {None}, conn : Conns \cup {None}, expired : BOOLEAN]

Types ==
    /\ view \in {"audit", "map"} /\ open \in BOOLEAN /\ timer \in BOOLEAN
    /\ cookie \in Orgs /\ org \in Orgs /\ asked \in BOOLEAN
    /\ tries \in [1..Attempts -> Try]
    /\ used \in 0..Attempts /\ ref \in 0..used /\ era \in 1..used + 1
    /\ version \in Nat
    /\ polls \subseteq [org : Orgs, version : 0..version]
    /\ polls # {} => view = "map"
    /\ tally \in [failures : Nat, switches : Nat, polls : Nat,
                  crossed : BOOLEAN, settled : BOOLEAN, mixed : BOOLEAN]

\* What the view holds, whose its connections are, and the channels behind the audit stream's.
Held ==
    /\ IF view = "map" THEN shown \in [org : Orgs, version : 0..version]
       ELSE shown \in Seq(Events) /\ Len(shown) <= Kept
    /\ \A s \in 1..used :
          /\ tries[s].at \in {"parsing", "connecting", "open"} => tries[s].org \in Orgs
          /\ view = "audit" /\ tries[s].at = "open" => tries[s].conn \in Conns

LEMMA InitTypes == Init => Types /\ Held
<1> SUFFICES ASSUME Init PROVE Types /\ Held
  OBVIOUS
<1> USE LiveStreamsAssumption
<1>1. Attempts \in Nat /\ used \in 0..Attempts /\ (view = "map" => used = 1) /\ (view # "map" => used = 0)
  BY DEF Init
<1>2. Unused \in Try /\ [Unused EXCEPT !.at = "asking"] \in Try
  BY DEF Unused, Try
<1>3. tries \in [1..Attempts -> Try]
  BY <1>2 DEF Init
<1>4. tally \in [failures : Nat, switches : Nat, polls : Nat,
                 crossed : BOOLEAN, settled : BOOLEAN, mixed : BOOLEAN]
  BY DEF Init
<1>7. open \in BOOLEAN
  BY ZenonT(20) DEF Init
<1>8. ref \in 0..used /\ era \in 1..used + 1 /\ version \in Nat /\ polls = {}
  BY <1>1 DEF Init
<1>9. view \in {"audit", "map"} /\ timer \in BOOLEAN /\ cookie \in Orgs /\ org \in Orgs /\ asked \in BOOLEAN
  BY DEF Init
<1>5. Types
  BY <1>1, <1>3, <1>4, <1>7, <1>8, <1>9 DEF Types
<1>6. Held
  <2>1. \A s \in 1..used : s \in 1..Attempts
    BY <1>1
  <2>2. \A s \in 1..used : tries[s].at = "asking"
    BY <2>1 DEF Init, Unused
  <2>3. IF view = "map" THEN shown \in [org : Orgs, version : 0..version] ELSE shown \in Seq(Events) /\ Len(shown) <= Kept
    BY <1>1 DEF Init, Snapshot
  <2> QED BY <2>2, <2>3 DEF Held
<1> QED BY <1>5, <1>6

(***************************************************************************)
(* What the actions do to the attempts: one of them moves on, or the one   *)
(* whose source is held is closed, and a new one may begin.                *)
(***************************************************************************)
Turned(s, at) ==
    /\ tries' \in [1..Attempts -> Try]
    /\ tries'[s].at = at
    /\ \A t \in 1..Attempts : t # s => tries'[t] = tries[t]

Closed ==
    \A t \in 1..used : /\ tries'[t].at = IF t = ref THEN "closed" ELSE tries[t].at
                       /\ tries'[t].org = tries[t].org /\ tries'[t].conn = tries[t].conn

LEMMA RefClosedType ==
  ASSUME Types
  PROVE  /\ RefClosed \in [1..Attempts -> Try]
         /\ \A t \in 1..Attempts :
                /\ RefClosed[t].at = IF t = ref THEN "closed" ELSE tries[t].at
                /\ RefClosed[t].org = tries[t].org /\ RefClosed[t].conn = tries[t].conn
<1> USE LiveStreamsAssumption
<1>1. CASE ref = 0
  BY <1>1 DEF Types, RefClosed
<1>2. CASE ref # 0
  <2>1. ref \in 1..Attempts
    BY <1>2 DEF Types
  <2>2. [tries[ref] EXCEPT !.at = "closed"] \in Try
    <3>1. tries[ref] \in Try
      BY <2>1 DEF Types
    <3> QED BY <3>1 DEF Try
  <2>3. RefClosed = [tries EXCEPT ![ref] = [tries[ref] EXCEPT !.at = "closed"]]
    BY <1>2 DEF RefClosed
  <2>4. tries[ref] \in Try /\ tries \in [1..Attempts -> Try]
    BY <2>1 DEF Types
  <2>5. RefClosed \in [1..Attempts -> Try]
    BY <2>1, <2>2, <2>3, <2>4
  <2>6. ASSUME NEW t \in 1..Attempts
        PROVE  /\ RefClosed[t].at = IF t = ref THEN "closed" ELSE tries[t].at
               /\ RefClosed[t].org = tries[t].org /\ RefClosed[t].conn = tries[t].conn
    <3>1. CASE t = ref
      <4>1. RefClosed[t] = [tries[t] EXCEPT !.at = "closed"]
        BY <2>3, <2>4, <3>1
      <4> QED BY <2>4, <3>1, <4>1 DEF Try
    <3>2. CASE t # ref
      BY <2>3, <2>4, <3>2
    <3> QED BY <3>1, <3>2
  <2> QED BY <2>5, <2>6
<1> QED BY <1>1, <1>2

LEMMA ConnectedType ==
  ASSUME Types, NEW ts \in [1..Attempts -> Try], used < Attempts
  PROVE  /\ Connected(ts) \in [1..Attempts -> Try]
         /\ Connected(ts)[used + 1].at = "asking"
         /\ \A t \in 1..used : Connected(ts)[t] = ts[t]
<1>1. used + 1 \in 1..Attempts /\ \A t \in 1..used : t \in 1..Attempts /\ t # used + 1
  BY LiveStreamsAssumption DEF Types
<1>2. [ts[used + 1] EXCEPT !.at = "asking"] \in Try
  BY <1>1 DEF Try
<1>3. ts[used + 1] \in Try
  BY <1>1
<1> QED BY <1>1, <1>2, <1>3 DEF Connected, Try

LEMMA SetType ==
  ASSUME Types, NEW s \in 1..used, NEW r \in Try, tries' = [tries EXCEPT ![s] = r]
  PROVE  Turned(s, r.at) /\ tries'[s] = r
<1>1. s \in 1..Attempts
  BY LiveStreamsAssumption DEF Types
<1> QED BY <1>1 DEF Types, Turned

LEMMA SocketInfoTurns ==
  ASSUME Types, NEW s \in 1..used, SocketInfo(s)
  PROVE  IF view = "map" /\ Disposed(s) THEN Turned(s, "dropped")
         ELSE Turned(s, "parsing") /\ tries'[s].org = cookie
<1>1. tries[s] \in Try
  BY LiveStreamsAssumption DEF Types
<1>2. CASE view = "map" /\ Disposed(s)
  <2> DEFINE r == [tries[s] EXCEPT !.at = "dropped"]
  <2>1. tries' = [tries EXCEPT ![s] = r]
    BY <1>2 DEF SocketInfo, Set
  <2>2. r \in Try /\ r.at = "dropped"
    BY <1>1 DEF Try
  <2> HIDE DEF r
  <2>3. Turned(s, r.at)
    BY <2>1, <2>2, SetType
  <2> QED BY <1>2, <2>2, <2>3
<1>3. CASE ~(view = "map" /\ Disposed(s))
  <2> DEFINE r == [tries[s] EXCEPT !.at = "parsing", !.org = cookie]
  <2>1. tries' = [tries EXCEPT ![s] = r]
    BY <1>3 DEF SocketInfo
  <2>2. r \in Try /\ r.at = "parsing" /\ r.org = cookie
    BY <1>1 DEF Try, Types
  <2> HIDE DEF r
  <2>3. Turned(s, r.at) /\ tries'[s] = r
    BY <2>1, <2>2, SetType
  <2> QED BY <1>3, <2>2, <2>3
<1> QED BY <1>2, <1>3

LEMMA FailsTurns ==
  ASSUME Types, NEW s \in 1..used, SocketInfoFails(s)
  PROVE  Turned(s, "failed")
<1>1. tries[s] \in Try
  BY LiveStreamsAssumption DEF Types
<1> DEFINE r == [tries[s] EXCEPT !.at = "failed"]
<1>2. tries' = [tries EXCEPT ![s] = r]
  BY DEF SocketInfoFails, Set
<1>3. r \in Try /\ r.at = "failed"
  BY <1>1 DEF Try
<1> HIDE DEF r
<1>4. Turned(s, r.at)
  BY <1>2, <1>3, SetType
<1> QED BY <1>3, <1>4

LEMMA OpenSourceTurns ==
  ASSUME Types, NEW s \in 1..used, OpenSource(s)
  PROVE  Turned(s, "connecting") /\ tries'[s].org = tries[s].org
<1>1. tries[s] \in Try
  BY LiveStreamsAssumption DEF Types
<1> DEFINE r == [tries[s] EXCEPT !.at = "connecting"]
<1>2. tries' = [tries EXCEPT ![s] = r]
  BY DEF OpenSource, Set
<1>3. r \in Try /\ r.at = "connecting" /\ r.org = tries[s].org
  BY <1>1 DEF Try
<1> HIDE DEF r
<1>4. Turned(s, r.at) /\ tries'[s] = r
  BY <1>2, <1>3, SetType
<1> QED BY <1>3, <1>4

LEMMA AcceptTurns ==
  ASSUME Types, NEW s \in 1..used, Accept(s)
  PROVE  /\ Turned(s, "open") /\ tries'[s].org = tries[s].org
         /\ view = "audit" => \E c \in Conns : Subscribe(c) /\ tries'[s].conn = c
         /\ view # "audit" => UNCHANGED bvars
<1>1. tries[s] \in Try
  BY LiveStreamsAssumption DEF Types
<1>2. CASE view = "audit"
  <2>1. PICK c \in Conns : Subscribe(c) /\ tries' = [tries EXCEPT ![s] = [@ EXCEPT !.at = "open", !.conn = c]]
    BY <1>2 DEF Accept
  <2> DEFINE r == [tries[s] EXCEPT !.at = "open", !.conn = c]
  <2>2. tries' = [tries EXCEPT ![s] = r]
    BY <2>1
  <2>3. r \in Try /\ r.at = "open" /\ r.org = tries[s].org /\ r.conn = c
    BY <1>1 DEF Try
  <2> HIDE DEF r
  <2>4. Turned(s, r.at) /\ tries'[s] = r
    BY <2>2, <2>3, SetType
  <2> QED BY <1>2, <2>1, <2>3, <2>4
<1>3. CASE view # "audit"
  <2> DEFINE r == [tries[s] EXCEPT !.at = "open"]
  <2>1. tries' = [tries EXCEPT ![s] = r] /\ UNCHANGED bvars
    BY <1>3 DEF Accept, Set
  <2>2. r \in Try /\ r.at = "open" /\ r.org = tries[s].org
    BY <1>1 DEF Try
  <2> HIDE DEF r
  <2>3. Turned(s, r.at) /\ tries'[s] = r
    BY <2>1, <2>2, SetType
  <2> QED BY <1>3, <2>1, <2>2, <2>3
<1> QED BY <1>2, <1>3

LEMMA RejectTurns ==
  ASSUME Types, NEW s \in 1..used, Reject(s)
  PROVE  Turned(s, "rejected")
<1>1. tries[s] \in Try
  BY LiveStreamsAssumption DEF Types
<1> DEFINE r == [tries[s] EXCEPT !.at = "rejected"]
<1>2. tries' = [tries EXCEPT ![s] = r]
  BY DEF Reject, Set
<1>3. r \in Try /\ r.at = "rejected"
  BY <1>1 DEF Try
<1> HIDE DEF r
<1>4. Turned(s, r.at)
  BY <1>2, <1>3, SetType
<1> QED BY <1>3, <1>4

LEMMA DropTurns ==
  ASSUME Types, NEW s \in 1..used, Drop(s)
  PROVE  Turned(s, "connecting") /\ tries'[s].org = tries[s].org
<1>1. tries[s] \in Try
  BY LiveStreamsAssumption DEF Types
<1> DEFINE r == [tries[s] EXCEPT !.at = "connecting", !.conn = None]
<1>2. tries' = [tries EXCEPT ![s] = r]
  BY DEF Drop
<1>3. r \in Try /\ r.at = "connecting" /\ r.org = tries[s].org
  BY <1>1 DEF Try
<1> HIDE DEF r
<1>4. Turned(s, r.at) /\ tries'[s] = r
  BY <1>2, <1>3, SetType
<1> QED BY <1>3, <1>4

LEMMA ExpireTurns ==
  ASSUME Types, NEW s \in 1..used, Expire(s)
  PROVE  /\ Turned(s, "open") /\ tries[s].at = "open"
         /\ tries'[s].org = tries[s].org /\ tries'[s].conn = tries[s].conn
<1>1. tries[s] \in Try /\ tries[s].at = "open"
  BY LiveStreamsAssumption DEF Types, Expire
<1> DEFINE r == [tries[s] EXCEPT !.expired = TRUE]
<1>2. tries' = [tries EXCEPT ![s] = r]
  BY DEF Expire
<1>3. r \in Try /\ r.at = "open" /\ r.org = tries[s].org /\ r.conn = tries[s].conn
  BY <1>1 DEF Try
<1> HIDE DEF r
<1>4. Turned(s, r.at) /\ tries'[s] = r
  BY <1>2, <1>3, SetType
<1> QED BY <1>1, <1>3, <1>4

LEMMA ReconnectTurns ==
  ASSUME Types, used < Attempts, tries' = Connected(RefClosed), used' = used + 1
  PROVE  /\ tries' \in [1..Attempts -> Try] /\ tries'[used'].at = "asking" /\ Closed
<1>1. \A t \in 1..used : t \in 1..Attempts
  BY LiveStreamsAssumption DEF Types
<1> QED BY <1>1, RefClosedType, ConnectedType DEF Closed

LEMMA LeftTurns ==
  ASSUME Types, tries' = Left
  PROVE  tries' \in [1..Attempts -> Try] /\ Closed
<1>1. \A t \in 1..used : t \in 1..Attempts
  BY LiveStreamsAssumption DEF Types
<1> QED BY <1>1, RefClosedType DEF Closed, Left

LEMMA OpenPanelTurns ==
  ASSUME Types, OpenPanel
  PROVE  /\ tries' \in [1..Attempts -> Try]
         /\ \A t \in 1..used : tries'[t] = tries[t]
         /\ IF ref = 0 THEN used' = used + 1 /\ used' \in 0..Attempts /\ tries'[used'].at = "asking"
                       ELSE UNCHANGED <<tries, used>>
<1>1. CASE ref = 0
  <2>1. tries' = Connected(tries) /\ used' = used + 1 /\ used < MaxOpens
    BY <1>1 DEF OpenPanel
  <2>2. used < Attempts
    BY <2>1, LiveStreamsAssumption DEF Types
  <2>3. tries \in [1..Attempts -> Try] /\ used' \in 0..Attempts
    BY <2>1, <2>2, LiveStreamsAssumption DEF Types
  <2> QED BY <1>1, <2>1, <2>2, <2>3, ConnectedType
<1>2. CASE ref # 0
  BY <1>2 DEF OpenPanel, Types
<1> QED BY <1>1, <1>2

(***************************************************************************)
(* Types are kept.                                                         *)
(***************************************************************************)
Step(s) ==
    SocketInfo(s) \/ SocketInfoFails(s) \/ OpenSource(s) \/ Accept(s) \/ Reject(s) \/ Drop(s) \/ Expire(s)

CookieMoves == PageStays \/ \E o \in Orgs : SwitchOrg(o) \/ OtherTab(o)

LEMMA AttemptTypes ==
  ASSUME Types, NEW s \in 1..used, Step(s)
  PROVE  Types'
<1>1. tries' \in [1..Attempts -> Try]
  BY SocketInfoTurns, FailsTurns, OpenSourceTurns, AcceptTurns, RejectTurns, DropTurns, ExpireTurns
  DEF Step, Turned
<1>2. UNCHANGED <<view, open, org, cookie, asked, used, era, polls, version>>
  BY DEF Step, SocketInfo, SocketInfoFails, OpenSource, Accept, Reject, Drop, Expire
<1>3. timer' \in BOOLEAN
  <2>1. SocketInfoFails(s) => timer' \in BOOLEAN
    BY ZenonT(20) DEF SocketInfoFails, Retried, Types
  <2>2. Accept(s) => timer' \in BOOLEAN
    BY ZenonT(20) DEF Accept, Types
  <2>3. ~SocketInfoFails(s) /\ ~Accept(s) => timer' = timer
    BY DEF Step, SocketInfo, OpenSource, Reject, Drop, Expire
  <2> QED BY <2>1, <2>2, <2>3 DEF Types
<1>4. ref' \in 0..used
  <2>1. OpenSource(s) => ref' = s
    BY DEF OpenSource
  <2>2. ~OpenSource(s) => ref' = ref
    BY DEF Step, SocketInfo, SocketInfoFails, Accept, Reject, Drop, Expire
  <2>3. used \in Nat /\ s \in 0..used
    BY LiveStreamsAssumption DEF Types
  <2> QED BY <2>1, <2>2, <2>3 DEF Types
<1>5. tally' \in [failures : Nat, switches : Nat, polls : Nat,
                  crossed : BOOLEAN, settled : BOOLEAN, mixed : BOOLEAN]
  <2>1. CASE OpenSource(s)
    <3>1. (tally.mixed \/ (~Disposed(s) /\ tries[s].org # org)) \in BOOLEAN
      BY ZenonT(20) DEF Types
    <3>2. tally' = [tally EXCEPT !.mixed = tally.mixed \/ (~Disposed(s) /\ tries[s].org # org)]
      BY <2>1 DEF OpenSource
    <3> HIDE DEF Disposed
    <3> QED BY <3>1, <3>2 DEF Types
  <2>2. CASE SocketInfoFails(s) \/ Reject(s) \/ Drop(s)
    BY <2>2 DEF SocketInfoFails, Reject, Drop, Types
  <2>3. CASE SocketInfo(s) \/ Accept(s) \/ Expire(s)
    BY <2>3 DEF SocketInfo, Accept, Expire, Types
  <2> QED BY <2>1, <2>2, <2>3 DEF Step
<1> QED BY <1>1, <1>2, <1>3, <1>4, <1>5 DEF Types

LEMMA MapTypes ==
  ASSUME Types, TimerFires \/ LeaveMap \/ PageArrives \/ Poll \/ Changes
                \/ (\E p \in polls : PollArrives(p)) \/ CookieMoves
  PROVE  Types'
<1> DEFINE Tally == [failures : Nat, switches : Nat, polls : Nat,
                     crossed : BOOLEAN, settled : BOOLEAN, mixed : BOOLEAN]
<1>1. CASE TimerFires
  <2>1. used < Attempts /\ tries' = Connected(RefClosed) /\ used' = used + 1
    BY <1>1 DEF TimerFires
  <2>2. tries' \in [1..Attempts -> Try]
    BY <2>1, ReconnectTurns
  <2>3. used' \in 0..Attempts /\ era \in 1..used' + 1 /\ 0 \in 0..used'
    BY <2>1, LiveStreamsAssumption DEF Types
  <2>4. ref' = 0 /\ timer' = FALSE /\ UNCHANGED <<view, open, org, cookie, asked, era, polls, version, tally>>
    BY <1>1 DEF TimerFires
  <2> QED BY <2>2, <2>3, <2>4 DEF Types
<1>2. CASE LeaveMap
  <2>1. tries' \in [1..Attempts -> Try]
    BY <1>2, LeftTurns DEF LeaveMap
  <2>2. (tally.crossed \/ Unstoppable # {}) \in BOOLEAN
    BY ZenonT(20) DEF Types
  <2>3. tally' \in Tally
    BY <1>2, <2>2 DEF LeaveMap, Types
  <2>4. 0 \in 0..used
    BY LiveStreamsAssumption DEF Types
  <2>5. ref' = 0 /\ timer' = FALSE /\ open' = FALSE /\ UNCHANGED <<view, org, cookie, asked, used, era, polls, version>>
    BY <1>2 DEF LeaveMap
  <2> QED BY <2>1, <2>3, <2>4, <2>5 DEF Types
<1>3. CASE PageArrives
  <2>1. used < Attempts /\ tries' = Connected(RefClosed) /\ used' = used + 1 /\ era' = used + 1
    BY <1>3 DEF PageArrives, NewEra
  <2>2. tries' \in [1..Attempts -> Try]
    BY <2>1, ReconnectTurns
  <2>3. used' \in 0..Attempts /\ era' \in 1..used' + 1 /\ 0 \in 0..used'
    BY <2>1, LiveStreamsAssumption DEF Types
  <2>4. (tally.crossed \/ Unstoppable # {}) \in BOOLEAN
    BY ZenonT(20) DEF Types
  <2>5. tally' \in Tally
    BY <1>3, <2>4 DEF PageArrives, Types
  <2>6. org' \in Orgs /\ asked' = FALSE /\ timer' = FALSE /\ ref' \in 0..used'
    BY <1>3, <2>3 DEF PageArrives, Types
  <2>7. UNCHANGED <<view, open, cookie, polls, version>>
    BY <1>3 DEF PageArrives
  <2> QED BY <2>2, <2>3, <2>5, <2>6, <2>7 DEF Types
<1>4. CASE Poll
  <2>1. Snapshot(cookie, version) \in [org : Orgs, version : 0..version]
    BY DEF Snapshot, Types
  <2> QED BY <1>4, <2>1 DEF Poll, Types
<1>5. CASE Changes
  <2>1. version' \in Nat /\ 0..version \subseteq 0..version'
    BY <1>5 DEF Changes, Types
  <2>2. polls' \subseteq [org : Orgs, version : 0..version']
    BY <1>5, <2>1 DEF Changes, Types
  <2> QED BY <1>5, <2>1, <2>2 DEF Changes, Types
<1>6. ASSUME NEW p \in polls, PollArrives(p) PROVE Types'
  <2>1. (tally.mixed \/ p.org # org) \in BOOLEAN
    BY ZenonT(20) DEF Types
  <2> QED BY <1>6, <2>1 DEF PollArrives, Types
<1>7. CASE CookieMoves
  <2>1. UNCHANGED <<view, open, org, tries, used, era, ref, timer, polls, version>> /\ tally' \in Tally
    BY <1>7 DEF CookieMoves, SwitchOrg, OtherTab, Switched, PageStays, Types
  <2>2. cookie' \in Orgs /\ asked' \in BOOLEAN
    BY <1>7 DEF CookieMoves, SwitchOrg, OtherTab, Switched, PageStays, Types
  <2> QED BY <2>1, <2>2 DEF Types
<1> QED BY <1>1, <1>2, <1>3, <1>4, <1>5, <1>6, <1>7

LEMMA OtherTypes ==
  ASSUME Types, OpenPanel \/ ClosePanel \/ Proxied \/ (\E c \in Conns : HandlerEnds(c))
                \/ (\E s \in 1..used : AuditMessage(s) \/ MapMessage(s)) \/ UNCHANGED vars
  PROVE  Types'
<1>1. CASE OpenPanel
  <2>1. /\ tries' \in [1..Attempts -> Try] /\ used' \in 0..Attempts
        /\ ref' \in 0..used' /\ era' \in 1..used' + 1
    <3>1. CASE ref = 0
      <4>1. used' = used + 1 /\ used' \in 0..Attempts /\ tries' \in [1..Attempts -> Try]
        BY <1>1, <3>1, OpenPanelTurns
      <4>2. UNCHANGED <<ref, era>>
        BY <1>1 DEF OpenPanel
      <4> QED BY <4>1, <4>2, LiveStreamsAssumption DEF Types
    <3>2. CASE ref # 0
      <4>1. UNCHANGED <<tries, used, ref, era>>
        BY <1>1, <3>2 DEF OpenPanel
      <4> QED BY <4>1 DEF Types
    <3> QED BY <3>1, <3>2
  <2> QED BY <1>1, <2>1 DEF OpenPanel, Types
<1>2. CASE ClosePanel
  <2>1. tries' \in [1..Attempts -> Try]
    BY <1>2, LeftTurns DEF ClosePanel
  <2>2. (tally.crossed \/ Unstoppable # {}) \in BOOLEAN
    BY ZenonT(20) DEF Types
  <2>3. tally' \in [failures : Nat, switches : Nat, polls : Nat,
                    crossed : BOOLEAN, settled : BOOLEAN, mixed : BOOLEAN]
    BY <1>2, <2>2 DEF ClosePanel, Types
  <2>4. 0 \in 0..used
    BY LiveStreamsAssumption DEF Types
  <2>5. ref' = 0 /\ open' = FALSE /\ UNCHANGED <<view, org, cookie, asked, used, era, timer, polls, version>>
    BY <1>2 DEF ClosePanel
  <2> QED BY <2>1, <2>3, <2>4, <2>5 DEF Types
<1>3. CASE Proxied
  BY <1>3 DEF Proxied, Types
<1>4. CASE \E c \in Conns : HandlerEnds(c)
  BY <1>4 DEF HandlerEnds, Types
<1>5. CASE \E s \in 1..used : AuditMessage(s)
  BY <1>5 DEF AuditMessage, Types
<1>6. ASSUME NEW s \in 1..used, MapMessage(s) PROVE Types'
  <2>1. (tally.settled \/ ~Disposed(s)) \in BOOLEAN
    BY ZenonT(20) DEF Types
  <2>2. tally' \in [failures : Nat, switches : Nat, polls : Nat,
                    crossed : BOOLEAN, settled : BOOLEAN, mixed : BOOLEAN]
    BY <1>6, <2>1 DEF MapMessage, Types
  <2> QED BY <1>6, <2>2 DEF MapMessage, Types
<1>7. CASE UNCHANGED vars
  BY <1>7 DEF vars, Types
<1> QED BY <1>1, <1>2, <1>3, <1>4, <1>5, <1>6, <1>7

LEMMA NextTypes == Types /\ [Next]_vars => Types'
<1> SUFFICES ASSUME Types, [Next]_vars PROVE Types'
  OBVIOUS
<1> QED BY AttemptTypes, MapTypes, OtherTypes DEF Next, CookieMoves, Asking, Step

(***************************************************************************)
(* The live views drive the Broadcaster as it allows: what the audit       *)
(* stream shows and the channels it holds stay in their types, and each    *)
(* step is the Broadcaster's or none of its.                               *)
(***************************************************************************)
LEMMA PushedType ==
  ASSUME Types, shown \in Seq(Events), Len(shown) <= Kept, NEW e \in Events
  PROVE  /\ Pushed(e) \in Seq(Events) /\ Len(Pushed(e)) <= Kept
         /\ Len(Pushed(e)) <= Len(shown) + 1
         /\ \A i \in 1..Len(Pushed(e)) : Pushed(e)[i] = IF i = 1 THEN e ELSE shown[i - 1]
<1> DEFINE q == <<e>> \o shown
           n == IF Len(shown) < Kept THEN Len(shown) + 1 ELSE Kept
<1>1. q \in Seq(Events) /\ Len(q) = Len(shown) + 1
  OBVIOUS
<1>2. \A i \in 1..Len(q) : q[i] = IF i = 1 THEN e ELSE shown[i - 1]
  OBVIOUS
<1>3. n \in 0..Len(q) /\ n <= Kept
  BY <1>1, LiveStreamsAssumption
<1> HIDE DEF q, n
<1>4. /\ SubSeq(q, 1, n) \in Seq(Events) /\ Len(SubSeq(q, 1, n)) = n
      /\ \A i \in 1..n : SubSeq(q, 1, n)[i] = q[i]
  BY <1>1, <1>3
<1>5. Pushed(e) = SubSeq(q, 1, n)
  BY DEF Pushed, q, n
<1> QED BY <1>1, <1>2, <1>3, <1>4, <1>5

LEMMA BroadcasterStep ==
  ASSUME Types, Held, [Next]_vars
  PROVE  [BroadcasterNext]_bvars
<1>1. ASSUME NEW s \in 1..used, Asking(s) \/ Drop(s) \/ Expire(s) \/ MapMessage(s) PROVE [BroadcasterNext]_bvars
  <2>1. CASE Accept(s)
    BY <2>1, AcceptTurns DEF BroadcasterNext, Types
  <2>2. CASE ~Accept(s)
    BY <1>1, <2>2 DEF Asking, SocketInfo, SocketInfoFails, OpenSource, Reject, Drop, Expire, MapMessage
  <2> QED BY <2>1, <2>2
<1>2. ASSUME NEW s \in 1..used, AuditMessage(s) PROVE [BroadcasterNext]_bvars
  BY <1>2 DEF AuditMessage, Held, BroadcasterNext
<1>3. CASE \E c \in Conns : HandlerEnds(c)
  BY <1>3 DEF HandlerEnds, BroadcasterNext
<1>4. CASE Proxied
  BY <1>4 DEF Proxied, BroadcasterNext
<1>5. CASE TimerFires \/ Poll \/ (\E p \in polls : PollArrives(p)) \/ Changes \/ LeaveMap \/ PageArrives
  BY <1>5 DEF TimerFires, Poll, PollArrives, Changes, LeaveMap, PageArrives
<1>6. CASE OpenPanel \/ ClosePanel \/ CookieMoves
  BY <1>6 DEF OpenPanel, ClosePanel, CookieMoves, SwitchOrg, OtherTab, Switched, PageStays
<1>7. CASE UNCHANGED vars
  BY <1>7 DEF vars
<1> QED BY <1>1, <1>2, <1>3, <1>4, <1>5, <1>6, <1>7 DEF Next, CookieMoves

\* What a step can do to an attempt.
Same(s) == tries'[s].at = tries[s].at /\ tries'[s].org = tries[s].org /\ tries'[s].conn = tries[s].conn

LEMMA Moves ==
  ASSUME Types, [Next]_vars, NEW s \in 1..used'
  PROVE  \/ s \in 1..used /\ (Same(s) \/ Step(s))
         \/ s \in 1..used /\ s = ref /\ tries'[s].at = "closed"
         \/ s = used + 1 /\ s = used' /\ tries'[s].at = "asking"
<1> DEFINE Goal == \/ s \in 1..used /\ (Same(s) \/ Step(s))
                   \/ s \in 1..used /\ s = ref /\ tries'[s].at = "closed"
                   \/ s = used + 1 /\ s = used' /\ tries'[s].at = "asking"
<1>0. \A t \in 1..used : t \in 1..Attempts
  BY LiveStreamsAssumption DEF Types
<1>1. ASSUME NEW t \in 1..used, Step(t)
      PROVE  Goal
  <2>1. used' = used
    BY <1>1 DEF Step, SocketInfo, SocketInfoFails, OpenSource, Accept, Reject, Drop, Expire
  <2>2. CASE s # t
    <3>1. tries'[s] = tries[s]
      BY <1>0, <1>1, <2>1, <2>2, SocketInfoTurns, FailsTurns, OpenSourceTurns, AcceptTurns, RejectTurns,
         DropTurns, ExpireTurns DEF Step, Turned
    <3> QED BY <2>1, <3>1 DEF Same
  <2>3. CASE s = t
    BY <1>1, <2>1, <2>3
  <2> QED BY <2>2, <2>3
<1>2. CASE TimerFires \/ PageArrives
  <2>1. used < Attempts /\ tries' = Connected(RefClosed) /\ used' = used + 1
    BY <1>2 DEF TimerFires, PageArrives
  <2>2. tries'[used'].at = "asking" /\ Closed
    BY <2>1, ReconnectTurns
  <2>3. CASE s = used'
    BY <2>1, <2>2, <2>3
  <2>4. CASE s # used'
    <3>1. s \in 1..used
      BY <2>1, <2>4, LiveStreamsAssumption DEF Types
    <3> QED BY <2>2, <3>1 DEF Closed, Same
  <2> QED BY <2>3, <2>4
<1>3. CASE LeaveMap \/ ClosePanel
  <2>1. tries' = Left /\ used' = used
    BY <1>3 DEF LeaveMap, ClosePanel
  <2> QED BY <2>1, LeftTurns DEF Closed, Same
<1>4. CASE OpenPanel
  <2>1. CASE s \in 1..used
    BY <1>4, <2>1, OpenPanelTurns DEF Same
  <2>2. CASE s \notin 1..used
    <3>1. CASE ref = 0
      <4>1. used' = used + 1 /\ tries'[used'].at = "asking"
        BY <1>4, <3>1, OpenPanelTurns
      <4>2. s = used'
        BY <2>2, <4>1, LiveStreamsAssumption DEF Types
      <4> QED BY <4>1, <4>2
    <3>2. CASE ref # 0
      BY <1>4, <2>2, <3>2, OpenPanelTurns
    <3> QED BY <3>1, <3>2
  <2> QED BY <2>1, <2>2
<1>5. CASE \/ Proxied \/ Poll \/ (\E p \in polls : PollArrives(p)) \/ Changes
           \/ (\E c \in Conns : HandlerEnds(c)) \/ CookieMoves
  BY <1>5 DEF Proxied, Poll, PollArrives, Changes, HandlerEnds,
     CookieMoves, SwitchOrg, OtherTab, Switched, PageStays, Same
<1>6. CASE \E t \in 1..used : AuditMessage(t) \/ MapMessage(t)
  BY <1>6 DEF AuditMessage, MapMessage, Same
<1>7. CASE UNCHANGED vars
  BY <1>7 DEF vars, Same
<1> QED BY <1>1, <1>2, <1>3, <1>4, <1>5, <1>6, <1>7 DEF Next, CookieMoves, Asking, Step

LEMMA ViewStays == ASSUME [Next]_vars PROVE view' = view
  BY DEF Next, vars, Asking, SocketInfo, SocketInfoFails, OpenSource, Accept, Reject, Drop, Expire, AuditMessage,
     MapMessage, HandlerEnds, Proxied, TimerFires, Poll, PollArrives, Changes, OpenPanel, ClosePanel, LeaveMap,
     PageArrives, CookieMoves, SwitchOrg, OtherTab, Switched, PageStays

LEMMA ConnectionsHeld ==
  ASSUME Types, Held, [Next]_vars, NEW s \in 1..used'
  PROVE  /\ tries'[s].at \in {"parsing", "connecting", "open"} => tries'[s].org \in Orgs
         /\ view = "audit" /\ tries'[s].at = "open" => tries'[s].conn \in Conns
<1>1. CASE s \in 1..used /\ Same(s)
  BY <1>1 DEF Held, Same
<1>2. CASE s \in 1..used /\ (SocketInfo(s) \/ SocketInfoFails(s) \/ Reject(s))
  BY <1>2, SocketInfoTurns, FailsTurns, RejectTurns DEF Turned, Types
<1>3. CASE s \in 1..used /\ OpenSource(s)
  BY <1>3, OpenSourceTurns DEF Turned, Held, OpenSource
<1>4. CASE s \in 1..used /\ Accept(s)
  BY <1>4, AcceptTurns DEF Turned, Held, Accept
<1>5. CASE s \in 1..used /\ Drop(s)
  BY <1>5, DropTurns DEF Turned, Held, Drop
<1>6. CASE s \in 1..used /\ Expire(s)
  BY <1>6, ExpireTurns DEF Turned, Held
<1>7. CASE tries'[s].at \in {"closed", "asking"}
  BY <1>7
<1> QED BY <1>1, <1>2, <1>3, <1>4, <1>5, <1>6, <1>7, Moves DEF Step

LEMMA ShownType ==
  ASSUME Types, Held, ChannelsOK, [Next]_vars
  PROVE  IF view = "map" THEN shown' \in [org : Orgs, version : 0..version']
         ELSE shown' \in Seq(Events) /\ Len(shown') <= Kept
<1> DEFINE Goal == IF view = "map" THEN shown' \in [org : Orgs, version : 0..version']
                   ELSE shown' \in Seq(Events) /\ Len(shown') <= Kept
<1>1. ASSUME NEW s \in 1..used, AuditMessage(s) PROVE Goal
  <2>1. tries[s].conn \in Conns /\ shown \in Seq(Events) /\ Len(shown) <= Kept /\ view # "map"
    BY <1>1 DEF AuditMessage, Held
  <2>2. chan[tries[s].conn] \in Seq(Events) /\ chan[tries[s].conn] # <<>>
    BY <1>1, <2>1 DEF AuditMessage, Receive, ChannelsOK
  <2>3. Head(chan[tries[s].conn]) \in Events
    BY <2>2
  <2>4. shown' = Pushed(Head(chan[tries[s].conn]))
    BY <1>1 DEF AuditMessage
  <2> QED BY <2>1, <2>3, <2>4, PushedType
<1>2. ASSUME NEW s \in 1..used, MapMessage(s) PROVE Goal
  <2>1. view = "map" /\ version' = version /\ tries[s].org \in Orgs /\ version \in 0..version
    BY <1>2 DEF Types, MapMessage, Held
  <2>2. shown' \in {shown, Snapshot(tries[s].org, version)}
    BY <1>2 DEF MapMessage
  <2> QED BY <2>1, <2>2 DEF Held, Snapshot
<1>3. CASE \E p \in polls : PollArrives(p)
  <2>1. shown' \in polls /\ version' = version
    BY <1>3 DEF PollArrives
  <2> QED BY <2>1 DEF Types
<1>4. CASE Changes
  <2>1. shown' = shown /\ view = "map" /\ 0..version \subseteq 0..version'
    BY <1>4 DEF Changes, Types
  <2> QED BY <2>1 DEF Held
<1>5. CASE ClosePanel
  BY <1>5, LiveStreamsAssumption DEF ClosePanel
<1>6. CASE \/ Proxied \/ Poll \/ OpenPanel \/ TimerFires \/ LeaveMap \/ PageArrives
           \/ (\E c \in Conns : HandlerEnds(c)) \/ CookieMoves \/ UNCHANGED vars
  <2>1. UNCHANGED <<shown, version>>
    BY <1>6 DEF Proxied, Poll, OpenPanel, TimerFires, LeaveMap, PageArrives, HandlerEnds,
       CookieMoves, SwitchOrg, OtherTab, Switched, PageStays, vars
  <2> QED BY <2>1 DEF Held
<1>7. CASE \E s \in 1..used : Asking(s) \/ Drop(s) \/ Expire(s)
  <2>1. UNCHANGED <<shown, version>>
    BY <1>7 DEF Asking, SocketInfo, SocketInfoFails, OpenSource, Accept, Reject, Drop, Expire
  <2> QED BY <2>1 DEF Held
<1> QED BY <1>1, <1>2, <1>3, <1>4, <1>5, <1>6, <1>7 DEF Next, CookieMoves

LEMMA HeldKept ==
  ASSUME Types, Held, ChannelsOK, [Next]_vars
  PROVE  Held'
<1>1. view' = view
  BY ViewStays
<1>2. IF view' = "map" THEN shown' \in [org : Orgs, version : 0..version']
      ELSE shown' \in Seq(Events) /\ Len(shown') <= Kept
  BY <1>1, ShownType
<1>3. \A s \in 1..used' :
          /\ tries'[s].at \in {"parsing", "connecting", "open"} => tries'[s].org \in Orgs
          /\ view' = "audit" /\ tries'[s].at = "open" => tries'[s].conn \in Conns
  BY <1>1, ConnectionsHeld
<1> QED BY <1>2, <1>3 DEF Held

(* The live views use the Broadcaster as it allows: every behaviour of the   *)
(* audit page's stream, reconnecting as it does, is one of the Broadcaster.  *)
THEOREM StreamsRefine == Spec => BroadcasterSpec
<1> DEFINE I == Types /\ Held /\ BInv
<1>1. Init => I
  BY InitTypes, InitBInv DEF Init
<1>2. I /\ [Next]_vars => [BroadcasterNext]_bvars
  BY BroadcasterStep
<1>3. BInv /\ [BroadcasterNext]_bvars => BInv'
  BY BroadcasterKeeps
<1>4. I /\ [Next]_vars => I'
  BY NextTypes, HeldKept, <1>2, <1>3 DEF BInv
<1>5. Init => BroadcasterInit
  BY DEF Init
<1> HIDE DEF I
<1> QED BY <1>1, <1>2, <1>4, <1>5, PTL DEF Spec, BroadcasterSpec

(***************************************************************************)
(* At most one EventSource, and none of a view that is gone.  An attempt   *)
(* that nothing stops is the last one made, while nothing is held yet; the *)
(* map connects again only after the last attempt has failed.              *)
(***************************************************************************)
Paced ==
    /\ view = "map" => used >= 1 /\ era <= used
    /\ timer => view = "map" /\ open /\ tries[used].at = "failed"

Clean == \A s \in 1..used :
    /\ Live(s) => open /\ s = ref
    /\ tries[s].at = "parsing" => open /\ s = used /\ ref = 0
    /\ tries[s].at = "asking" /\ view = "audit" => open /\ s = used /\ ref = 0
    /\ tries[s].at = "asking" /\ s = used => ref = 0

StrayInv == Paced /\ (~tally.crossed => Clean)

LEMMA InitStray == Init => StrayInv
<1> SUFFICES ASSUME Init PROVE StrayInv
  OBVIOUS
<1>1. Types
  BY InitTypes
<1>2. \A s \in 1..used : s \in 1..Attempts /\ s = used /\ view = "map"
  BY <1>1, LiveStreamsAssumption DEF Init, Types
<1>3. \A s \in 1..used : tries[s].at = "asking"
  BY <1>2 DEF Init, Unused
<1>4. Clean
  BY <1>2, <1>3 DEF Init, Clean, Live
<1> QED BY <1>4 DEF Init, StrayInv, Paced

\* An attempt that moves on.
LEMMA StepStray ==
  ASSUME Types, StrayInv, NEW s \in 1..used, Step(s)
  PROVE  StrayInv'
<1>0. used' = used /\ \A t \in 1..used : t \in 1..Attempts
  <2>1. used' = used
    BY DEF Step, SocketInfo, SocketInfoFails, OpenSource, Accept, Reject, Drop, Expire
  <2>2. \A t \in 1..used : t \in 1..Attempts
    BY LiveStreamsAssumption DEF Types
  <2> QED BY <2>1, <2>2
<1>1. UNCHANGED <<view, open, era>> /\ tally'.crossed = tally.crossed
  BY DEF Types, Step, SocketInfo, SocketInfoFails, OpenSource, Accept, Reject, Drop, Expire
<1>2. \A t \in 1..used : t # s => tries'[t] = tries[t]
  BY <1>0, SocketInfoTurns, FailsTurns, OpenSourceTurns, AcceptTurns, RejectTurns, DropTurns, ExpireTurns
  DEF Step, Turned
<1>3. used \in Nat /\ s <= used /\ used \in 1..used
  BY LiveStreamsAssumption DEF Types
<1>4. Paced'
  <2>1. CASE SocketInfoFails(s)
    <3>1. timer' => timer \/ (view = "map" /\ open /\ s = used)
      BY <2>1, <1>3 DEF SocketInfoFails, Retried, Disposed, Superseded, StrayInv, Paced
    <3>2. tries'[s].at = "failed"
      BY <2>1, FailsTurns DEF Turned
    <3>3. ASSUME timer' PROVE view = "map" /\ open /\ tries'[used].at = "failed"
      <4>1. CASE s = used
        BY <3>1, <3>2, <3>3, <4>1 DEF StrayInv, Paced
      <4>2. CASE s # used
        <5>1. timer /\ tries'[used] = tries[used]
          BY <1>2, <1>3, <3>1, <3>3, <4>2
        <5> QED BY <5>1 DEF StrayInv, Paced
      <4> QED BY <4>1, <4>2
    <3> QED BY <1>0, <1>1, <3>3 DEF StrayInv, Paced
  <2>2. CASE ~SocketInfoFails(s)
    <3>1. (timer' => timer) /\ tries[s].at # "failed"
      <4>1. CASE Accept(s)
        <5>1. timer' = (timer /\ Disposed(s)) /\ tries[s].at = "connecting"
          BY <4>1 DEF Accept
        <5>2. tries[s].at # "failed"
          BY <5>1
        <5> HIDE DEF Disposed
        <5> QED BY ONLY <5>1, <5>2, Zenon
      <4>2. CASE ~Accept(s)
        BY <2>2, <4>2 DEF Step, SocketInfo, OpenSource, Reject, Drop, Expire
      <4> QED BY <4>1, <4>2
    <3> QED BY <1>0, <1>1, <1>2, <1>3, <3>1 DEF StrayInv, Paced
  <2> QED BY <2>1, <2>2
<1>5. ASSUME ~tally.crossed, Clean PROVE Clean'
  <2>1. CASE SocketInfo(s)
    <3>1. ref' = ref /\ tries[s].at = "asking"
      BY <2>1 DEF SocketInfo
    <3>2. \/ tries'[s].at = "dropped"
          \/ tries'[s].at = "parsing" /\ (view = "audit" \/ (open /\ s = used))
      BY <2>1, SocketInfoTurns DEF Turned, Disposed, Superseded, Types
    <3> QED BY <1>0, <1>1, <1>2, <1>5, <3>1, <3>2 DEF Clean, Live
  <2>2. CASE SocketInfoFails(s)
    BY <1>0, <1>1, <1>2, <1>5, <2>2, FailsTurns DEF Clean, Live, Turned, SocketInfoFails
  <2>3. CASE OpenSource(s)
    <3>1. ref' = s /\ tries[s].at = "parsing" /\ tries'[s].at = "connecting"
      BY <2>3, OpenSourceTurns DEF OpenSource, Turned
    <3>2. open /\ s = used /\ ref = 0
      BY <1>5, <3>1 DEF Clean
    <3>3. \A t \in 1..used : t # 0
      BY <1>3
    <3> QED BY <1>0, <1>1, <1>2, <1>5, <3>1, <3>2, <3>3 DEF Clean, Live
  <2>4. CASE Accept(s) \/ Reject(s) \/ Drop(s) \/ Expire(s)
    <3>1. ref' = ref /\ Live(s) /\ tries'[s].at \in {"connecting", "open", "rejected"}
      BY <2>4, AcceptTurns, RejectTurns, DropTurns, ExpireTurns
      DEF Accept, Reject, Drop, Expire, Turned, Live
    <3> QED BY <1>0, <1>1, <1>2, <1>5, <3>1 DEF Clean, Live
  <2> QED BY <2>1, <2>2, <2>3, <2>4 DEF Step
<1> QED BY <1>1, <1>4, <1>5 DEF StrayInv

\* The map connects again, for the page it was rendered for or for another.
LEMMA ReconnectStray ==
  ASSUME Types, StrayInv, TimerFires \/ PageArrives
  PROVE  StrayInv'
<1>1. /\ used < Attempts /\ used' = used + 1 /\ ref' = 0 /\ timer' = FALSE
      /\ tries' = Connected(RefClosed) /\ UNCHANGED <<view, open>>
  BY DEF TimerFires, PageArrives
<1>2. tries'[used'].at = "asking" /\ Closed
  BY <1>1, ReconnectTurns
<1>3. used \in Nat /\ \A t \in 1..used' : t = used' \/ (t \in 1..used /\ t # used' /\ t # 0)
  BY <1>1, LiveStreamsAssumption DEF Types
<1>4. view = "map" /\ open
  BY DEF TimerFires, PageArrives, StrayInv, Paced
<1>5. era' <= used' /\ used' >= 1
  BY <1>1, <1>3, <1>4 DEF TimerFires, PageArrives, NewEra, StrayInv, Paced, Types
<1>6. Paced'
  BY <1>1, <1>5 DEF Paced
<1>7. ASSUME ~tally'.crossed PROVE Clean'
  <2>1. ~tally.crossed /\ \A t \in 1..used : tries[t].at # "parsing"
    <3>1. CASE TimerFires
      <4>1. ~tally.crossed /\ tries[used].at = "failed"
        BY <1>7, <3>1 DEF TimerFires, StrayInv, Paced
      <4> QED BY <4>1 DEF StrayInv, Clean
    <3>2. CASE PageArrives
      <4>1. ~(tally.crossed \/ Unstoppable # {})
        BY <1>7, <3>2 DEF PageArrives, Types
      <4> QED BY <4>1 DEF Unstoppable
    <3> QED BY <3>1, <3>2
  <2>2. \A t \in 1..used : ~Live(t)' /\ tries'[t].at # "parsing"
    BY <1>2, <2>1 DEF StrayInv, Clean, Closed, Live
  <2> QED BY <1>1, <1>2, <1>3, <1>4, <2>2 DEF Clean, Live
<1> QED BY <1>6, <1>7 DEF StrayInv

\* The view goes.
LEMMA LeaveStray ==
  ASSUME Types, StrayInv, ClosePanel \/ LeaveMap
  PROVE  StrayInv'
<1>1. /\ used' = used /\ ref' = 0 /\ tries' = Left /\ UNCHANGED <<view, era>>
      /\ timer' => timer /\ view = "audit"
  BY DEF ClosePanel, LeaveMap
<1>2. Closed
  BY <1>1, LeftTurns
<1>3. Paced'
  BY <1>1 DEF StrayInv, Paced
<1>4. ASSUME ~tally'.crossed PROVE Clean'
  <2>1. ~(tally.crossed \/ Unstoppable # {})
    BY <1>4 DEF ClosePanel, LeaveMap, Types
  <2>2. \A t \in 1..used : tries[t].at # "parsing" /\ (view = "audit" => tries[t].at # "asking")
    BY <2>1 DEF Unstoppable
  <2>3. \A t \in 1..used : ~Live(t)' /\ tries'[t].at # "parsing" /\ (view = "audit" => tries'[t].at # "asking")
    BY <1>2, <2>1, <2>2 DEF StrayInv, Clean, Closed, Live
  <2> QED BY <1>1, <2>3 DEF Clean, Live
<1> QED BY <1>3, <1>4 DEF StrayInv

LEMMA OpenPanelStray ==
  ASSUME Types, StrayInv, OpenPanel
  PROVE  StrayInv'
<1>1. view = "audit" /\ ~open /\ open' /\ UNCHANGED <<view, ref, era, timer, tally>>
  BY DEF OpenPanel
<1>2. Paced'
  BY <1>1 DEF StrayInv, Paced
<1>3. ASSUME ~tally.crossed PROVE Clean'
  <2>1. CASE ref = 0
    <3>1. /\ used' = used + 1 /\ tries'[used'].at = "asking" /\ \A t \in 1..used : tries'[t] = tries[t]
      BY <2>1, OpenPanelTurns
    <3>2. \A t \in 1..used' : t = used' \/ t \in 1..used
      BY <3>1, LiveStreamsAssumption DEF Types
    <3> QED BY <1>1, <1>3, <2>1, <3>1, <3>2 DEF StrayInv, Clean, Live
  <2>2. CASE ref # 0
    BY <1>1, <1>3, <2>2, OpenPanelTurns DEF StrayInv, Clean, Live
  <2> QED BY <2>1, <2>2
<1> QED BY <1>1, <1>2, <1>3 DEF StrayInv

LEMMA RestStray ==
  ASSUME Types, StrayInv,
         \/ Proxied \/ Poll \/ Changes \/ (\E p \in polls : PollArrives(p))
         \/ (\E c \in Conns : HandlerEnds(c)) \/ CookieMoves
         \/ (\E s \in 1..used : AuditMessage(s) \/ MapMessage(s)) \/ UNCHANGED vars
  PROVE  StrayInv'
<1>1. UNCHANGED <<view, open, tries, used, era, ref, timer>> /\ tally'.crossed = tally.crossed
  BY DEF Proxied, Poll, Changes, PollArrives, HandlerEnds,
     CookieMoves, SwitchOrg, OtherTab, Switched, PageStays, AuditMessage, MapMessage, vars, Types
<1> QED BY <1>1 DEF StrayInv, Paced, Clean, Live

LEMMA NextStray ==
  ASSUME Types, StrayInv, [Next]_vars
  PROVE  StrayInv'
BY StepStray, ReconnectStray, LeaveStray, OpenPanelStray, RestStray DEF Next, CookieMoves, Asking, Step

(***************************************************************************)
(* The map keeps to its organisation: what is still connected for the page *)
(* it shows was asked for that page's organisation.                        *)
(***************************************************************************)
OrgInv ==
    view = "map" /\ ~tally.mixed =>
        /\ tally.settled => shown.org = org
        /\ \A s \in 1..used : Live(s) /\ ~Disposed(s) => tries[s].org = org

LEMMA InitOrg == Init => OrgInv
<1> SUFFICES ASSUME Init, view = "map" PROVE ~tally.settled /\ \A s \in 1..used : ~Live(s)
  BY DEF OrgInv
<1>1. Types /\ used = 1
  BY InitTypes DEF Init
<1>2. \A s \in 1..used : tries[s].at = "asking"
  BY <1>1, LiveStreamsAssumption DEF Init, Unused
<1> QED BY <1>2 DEF Init, Live

LEMMA StepOrg ==
  ASSUME Types, OrgInv, NEW s \in 1..used, Step(s)
  PROVE  OrgInv'
<1>0. used' = used /\ \A t \in 1..used : t \in 1..Attempts
  <2>1. used' = used
    BY DEF Step, SocketInfo, SocketInfoFails, OpenSource, Accept, Reject, Drop, Expire
  <2>2. \A t \in 1..used : t \in 1..Attempts
    BY LiveStreamsAssumption DEF Types
  <2> QED BY <2>1, <2>2
<1>1. UNCHANGED <<view, open, era, org, shown>> /\ tally'.settled = tally.settled
  BY DEF Types, Step, SocketInfo, SocketInfoFails, OpenSource, Accept, Reject, Drop, Expire
<1>2. \A t \in 1..used : t # s => tries'[t] = tries[t]
  BY <1>0, SocketInfoTurns, FailsTurns, OpenSourceTurns, AcceptTurns, RejectTurns, DropTurns, ExpireTurns
  DEF Step, Turned
<1>3. CASE OpenSource(s)
  <2>1. ~tally'.mixed => ~tally.mixed /\ (~Disposed(s) => tries[s].org = org)
    BY <1>3 DEF OpenSource, Types
  <2>2. tries'[s].org = tries[s].org
    BY <1>3, OpenSourceTurns
  <2> QED BY <1>0, <1>1, <1>2, <2>1, <2>2 DEF OrgInv, Live, Disposed, Superseded
<1>4. CASE ~OpenSource(s)
  <2>1. tally'.mixed = tally.mixed
    BY <1>4 DEF Types, Step, SocketInfo, SocketInfoFails, Accept, Reject, Drop, Expire
  <2>2. tries'[s].at \in {"connecting", "open"} => Live(s) /\ tries'[s].org = tries[s].org
    BY <1>4, SocketInfoTurns, FailsTurns, AcceptTurns, RejectTurns, DropTurns, ExpireTurns
    DEF Step, Turned, Live, Accept, Drop
  <2> QED BY <1>0, <1>1, <1>2, <2>1, <2>2 DEF OrgInv, Live, Disposed, Superseded
<1> QED BY <1>3, <1>4

LEMMA MapOrg ==
  ASSUME Types, OrgInv, TimerFires \/ PageArrives \/ LeaveMap
  PROVE  OrgInv'
<1>1. CASE TimerFires \/ PageArrives
  <2>1. used < Attempts /\ used' = used + 1 /\ tries' = Connected(RefClosed) /\ UNCHANGED <<view, shown>>
    BY <1>1 DEF TimerFires, PageArrives
  <2>2. tries'[used'].at = "asking"
    BY <2>1, ReconnectTurns
  <2>3. \A t \in 1..used' : view = "map" /\ Live(t)' => Disposed(t)'
    BY <2>1, <2>2 DEF Live, Disposed, Superseded
  <2>4. ~tally'.mixed /\ tally'.settled => ~tally.mixed /\ tally.settled /\ org' = org
    BY <1>1 DEF TimerFires, PageArrives, Types
  <2> QED BY <2>1, <2>3, <2>4 DEF OrgInv
<1>2. CASE LeaveMap
  <2>1. ~open' /\ UNCHANGED <<view, org, shown>> /\ tally'.mixed = tally.mixed /\ tally'.settled = tally.settled
    BY <1>2 DEF LeaveMap, Types
  <2> QED BY <2>1 DEF OrgInv, Disposed
<1> QED BY <1>1, <1>2

LEMMA MapMessageOrg ==
  ASSUME Types, OrgInv, NEW s \in 1..used, MapMessage(s)
  PROVE  OrgInv'
<1>1. UNCHANGED <<view, open, org, tries, used, era>> /\ tally'.mixed = tally.mixed
  BY DEF MapMessage, Types
<1>2. Live(s)
  BY DEF MapMessage, Live
<1>3. CASE Taken(s)
  <2>1. shown'.org = tries[s].org /\ ~Disposed(s)
    BY <1>3 DEF MapMessage, Snapshot, Taken
  <2> QED BY <1>1, <1>2, <2>1 DEF OrgInv, Live, Disposed, Superseded
<1>4. CASE ~Taken(s)
  BY <1>1, <1>4 DEF MapMessage, OrgInv, Live, Disposed, Superseded
<1> QED BY <1>3, <1>4

LEMMA RestOrg ==
  ASSUME Types, OrgInv,
         \/ Proxied \/ Poll \/ Changes \/ OpenPanel \/ ClosePanel \/ (\E p \in polls : PollArrives(p))
         \/ (\E c \in Conns : HandlerEnds(c)) \/ CookieMoves
         \/ (\E s \in 1..used : AuditMessage(s)) \/ UNCHANGED vars
  PROVE  OrgInv'
<1>1. CASE OpenPanel \/ ClosePanel \/ \E s \in 1..used : AuditMessage(s)
  <2>1. view' # "map"
    BY <1>1 DEF OpenPanel, ClosePanel, AuditMessage
  <2> QED BY <2>1 DEF OrgInv
<1>2. ASSUME NEW p \in polls, PollArrives(p) PROVE OrgInv'
  <2>1. /\ UNCHANGED <<view, open, org, tries, used, era>> /\ shown' = p
        /\ ~tally'.mixed => ~tally.mixed /\ p.org = org
    BY <1>2 DEF PollArrives, Types
  <2> QED BY <2>1 DEF OrgInv, Live, Disposed, Superseded
<1>3. CASE \/ Proxied \/ Poll \/ Changes \/ (\E c \in Conns : HandlerEnds(c)) \/ CookieMoves
           \/ UNCHANGED vars
  <2>1. UNCHANGED <<view, open, org, shown, tries, used, era>> /\ tally'.mixed = tally.mixed /\ tally'.settled = tally.settled
    BY <1>3 DEF Proxied, Poll, Changes, HandlerEnds,
       CookieMoves, SwitchOrg, OtherTab, Switched, PageStays, vars, Types
  <2> QED BY <2>1 DEF OrgInv, Live, Disposed, Superseded
<1> QED BY <1>1, <1>2, <1>3

LEMMA NextOrg ==
  ASSUME Types, OrgInv, [Next]_vars
  PROVE  OrgInv'
BY StepOrg, MapOrg, MapMessageOrg, RestOrg DEF Next, CookieMoves, Asking, Step

(***************************************************************************)
(* An event is shown once.  It enters a channel once, a broadcast having   *)
(* each subscriber to come to once; a connection that is made again gets a *)
(* channel nothing under way is sent to; and one stream of the panel       *)
(* fills the list.                                                         *)
(***************************************************************************)
Has(q, e) == \E i \in 1..Len(q) : q[i] = e
Distinct(q) == \A i, j \in 1..Len(q) : q[i] = q[j] => i = j

ChanOnce ==
    /\ \A c \in Conns : Distinct(chan[c]) /\ (stage[c] = "unused" => chan[c] = <<>>)
    /\ \A e \in Events : /\ casts[e].at = "done" => casts[e].left = {}
                         /\ \A c \in Conns : casts[e].at = "idle" \/ c \in casts[e].left => ~Has(chan[c], e)

\* What a channel may still bring the list.
Coming(c, e) == Has(chan[c], e) \/ (casts[e].at = "sending" /\ c \in casts[e].left)

ListOnce == view = "audit" =>
    /\ \A e \in Events : casts[e].at = "idle" => ~Has(shown, e)
    /\ ~tally.crossed =>
          /\ Distinct(shown)
          /\ \A s \in 1..used : tries[s].at = "open" =>
                \A e \in Events : Has(shown, e) => ~Coming(tries[s].conn, e)

OnceInv == ChanOnce /\ ListOnce

LEMMA EmptyOnce == Distinct(<<>>) /\ \A e \in Events : ~Has(<<>>, e)
  BY DEF Distinct, Has

LEMMA TailOnce ==
  ASSUME NEW q \in Seq(Events), q # <<>>, Distinct(q)
  PROVE  /\ Distinct(Tail(q)) /\ Has(q, Head(q)) /\ ~Has(Tail(q), Head(q))
         /\ \A e \in Events : Has(Tail(q), e) => Has(q, e)
<1>1. Len(q) \in Nat \ {0} /\ Len(Tail(q)) = Len(q) - 1 /\ Head(q) = q[1]
  OBVIOUS
<1>2. \A i \in 1..Len(Tail(q)) : Tail(q)[i] = q[i + 1] /\ i + 1 \in 1..Len(q) /\ i + 1 # 1
  BY <1>1
<1>3. 1 \in 1..Len(q)
  BY <1>1
<1>4. Distinct(Tail(q))
  <2> SUFFICES ASSUME NEW i \in 1..Len(Tail(q)), NEW j \in 1..Len(Tail(q)), Tail(q)[i] = Tail(q)[j] PROVE i = j
    BY DEF Distinct
  <2>1. i + 1 = j + 1
    BY <1>2 DEF Distinct
  <2> QED BY <2>1
<1>5. Has(q, Head(q)) /\ ~Has(Tail(q), Head(q))
  BY <1>1, <1>2, <1>3 DEF Has, Distinct
<1>6. \A e \in Events : Has(Tail(q), e) => Has(q, e)
  BY <1>2 DEF Has
<1> QED BY <1>4, <1>5, <1>6

LEMMA AppendOnce ==
  ASSUME NEW q \in Seq(Events), NEW e \in Events
  PROVE  /\ Distinct(q) /\ ~Has(q, e) => Distinct(Append(q, e))
         /\ \A f \in Events : Has(Append(q, e), f) => f = e \/ Has(q, f)
<1>1. Len(q) \in Nat /\ Len(Append(q, e)) = Len(q) + 1
  OBVIOUS
<1>2. \A i \in 1..Len(q) + 1 : IF i = Len(q) + 1 THEN Append(q, e)[i] = e
                               ELSE i \in 1..Len(q) /\ Append(q, e)[i] = q[i]
  BY <1>1
<1>3. \A f \in Events : Has(Append(q, e), f) => f = e \/ Has(q, f)
  BY <1>1, <1>2 DEF Has
<1>4. ASSUME Distinct(q), ~Has(q, e) PROVE Distinct(Append(q, e))
  <2> SUFFICES ASSUME NEW i \in 1..Len(q) + 1, NEW j \in 1..Len(q) + 1, Append(q, e)[i] = Append(q, e)[j] PROVE i = j
    BY <1>1 DEF Distinct
  <2>1. CASE i = Len(q) + 1 /\ j = Len(q) + 1
    BY <2>1
  <2>2. CASE i = Len(q) + 1 /\ j # Len(q) + 1
    BY <1>2, <1>4, <2>2 DEF Has
  <2>3. CASE i # Len(q) + 1 /\ j = Len(q) + 1
    BY <1>2, <1>4, <2>3 DEF Has
  <2>4. CASE i # Len(q) + 1 /\ j # Len(q) + 1
    BY <1>2, <1>4, <2>4 DEF Distinct
  <2> QED BY <2>1, <2>2, <2>3, <2>4
<1> QED BY <1>3, <1>4

LEMMA PushedOnce ==
  ASSUME Types, shown \in Seq(Events), Len(shown) <= Kept, NEW e \in Events
  PROVE  /\ Distinct(shown) /\ ~Has(shown, e) => Distinct(Pushed(e))
         /\ \A f \in Events : Has(Pushed(e), f) => f = e \/ Has(shown, f)
<1>1. /\ Len(Pushed(e)) \in Nat /\ Len(shown) \in Nat /\ Len(Pushed(e)) <= Len(shown) + 1
      /\ \A i \in 1..Len(Pushed(e)) : Pushed(e)[i] = IF i = 1 THEN e ELSE shown[i - 1]
  BY PushedType
<1>2. \A i \in 1..Len(Pushed(e)) : IF i = 1 THEN Pushed(e)[i] = e
                                   ELSE i - 1 \in 1..Len(shown) /\ Pushed(e)[i] = shown[i - 1]
  BY <1>1
<1> HIDE DEF Pushed
<1>3. \A f \in Events : Has(Pushed(e), f) => f = e \/ Has(shown, f)
  BY <1>2 DEF Has
<1>4. ASSUME Distinct(shown), ~Has(shown, e) PROVE Distinct(Pushed(e))
  <2> SUFFICES ASSUME NEW i \in 1..Len(Pushed(e)), NEW j \in 1..Len(Pushed(e)), Pushed(e)[i] = Pushed(e)[j] PROVE i = j
    BY DEF Distinct
  <2>1. CASE i = 1 /\ j = 1
    BY <2>1
  <2>2. CASE i = 1 /\ j # 1
    BY <1>2, <1>4, <2>2 DEF Has
  <2>3. CASE i # 1 /\ j = 1
    BY <1>2, <1>4, <2>3 DEF Has
  <2>4. CASE i # 1 /\ j # 1
    <3>1. i - 1 = j - 1
      BY <1>2, <1>4, <2>4 DEF Distinct
    <3> QED BY <3>1
  <2> QED BY <2>1, <2>2, <2>3, <2>4
<1> QED BY <1>3, <1>4

LEMMA InitOnce == Init => OnceInv
<1> SUFFICES ASSUME Init PROVE OnceInv
  OBVIOUS
<1>1. ChanOnce
  BY EmptyOnce DEF Init, BroadcasterInit, ChanOnce
<1>2. ListOnce
  <2>1. CASE view = "audit"
    <3>1. shown = <<>> /\ used = 0
      BY <2>1 DEF Init
    <3> QED BY <3>1, EmptyOnce DEF ListOnce
  <2>2. CASE view # "audit"
    BY <2>2 DEF ListOnce
  <2> QED BY <2>1, <2>2
<1> QED BY <1>1, <1>2 DEF OnceInv

\* What is idle afterwards was idle; what a channel may bring, it could before, but for one
\* that is subscribed now or an event that begins now.
LEMMA ChannelSteps ==
  ASSUME BInv, ChanOnce, NEW c \in Conns, Subscribe(c) \/ Unsubscribe(c) \/ Close(c) \/ Receive(c)
  PROVE  ChanOnce' /\ casts' = casts
         /\ \A d \in Conns, e \in Events : Coming(d, e)' => Coming(d, e)
<1> USE DEF BInv, ChannelsOK
<1>1. CASE Subscribe(c) \/ Unsubscribe(c) \/ Close(c)
  <2>1. UNCHANGED <<chan, casts>> /\ \A d \in Conns : stage'[d] = "unused" => stage[d] = "unused"
    BY <1>1 DEF Subscribe, Unsubscribe, Close
  <2> QED BY <2>1 DEF ChanOnce, Coming, Has, Distinct
<1>2. CASE Receive(c)
  <2>1. /\ UNCHANGED <<stage, casts>> /\ stage[c] = "open" /\ chan[c] \in Seq(Events) /\ chan[c] # <<>>
        /\ chan'[c] = Tail(chan[c]) /\ \A d \in Conns : d # c => chan'[d] = chan[d]
    BY <1>2 DEF Receive
  <2>2. Distinct(chan'[c]) /\ \A e \in Events : Has(chan'[c], e) => Has(chan[c], e)
    BY <2>1, TailOnce DEF ChanOnce
  <2>3. \A d \in Conns : Distinct(chan'[d]) /\ \A e \in Events : Has(chan'[d], e) => Has(chan[d], e)
    BY <2>1, <2>2 DEF ChanOnce
  <2> QED BY <2>1, <2>3 DEF ChanOnce, Coming
<1> QED BY <1>1, <1>2

LEMMA CastSteps ==
  ASSUME BInv, ChanOnce, NEW e \in Events, Broadcast(e) \/ Finish(e)
  PROVE  ChanOnce' /\ chan' = chan
         /\ \A f \in Events : /\ casts'[f].at = "idle" => casts[f].at = "idle"
                              /\ \A d \in Conns : Coming(d, f)' => Coming(d, f) \/ casts[f].at = "idle"
<1> USE DEF BInv, ChannelsOK
<1>1. UNCHANGED <<stage, chan>> /\ \A f \in Events : f # e => casts'[f] = casts[f]
  BY DEF Broadcast, Finish
<1>2. CASE Broadcast(e)
  <2>1. casts[e].at = "idle" /\ casts'[e].at = "sending"
    BY <1>2 DEF Broadcast
  <2> QED BY <1>1, <2>1 DEF ChanOnce, Coming
<1>3. CASE Finish(e)
  <2>1. casts[e].at = "sending" /\ casts'[e].at = "done" /\ casts[e].left = {} /\ casts'[e].left = {}
    BY <1>3 DEF Finish
  <2> QED BY <1>1, <2>1 DEF ChanOnce, Coming
<1> QED BY <1>2, <1>3

LEMMA SendOnce ==
  ASSUME BInv, ChanOnce, NEW e \in Events, NEW c \in Conns, Send(e, c)
  PROVE  ChanOnce'
         /\ \A f \in Events : /\ casts'[f].at = casts[f].at
                              /\ \A d \in Conns : Coming(d, f)' => Coming(d, f)
<1> USE DEF BInv, ChannelsOK
<1>1. /\ stage' = stage /\ stage[c] = "open" /\ casts[e].at = "sending" /\ c \in casts[e].left
      /\ chan'[c] = Offered(c, e) /\ \A d \in Conns : d # c => chan'[d] = chan[d]
  BY DEF Send, SendsToOpen
<1>2. /\ casts'[e].at = "sending" /\ casts'[e].left = casts[e].left \ {c}
      /\ \A f \in Events : f # e => casts'[f] = casts[f]
  BY <1>1 DEF Send, Sent
<1>3. ~Has(chan[c], e) /\ Distinct(chan[c]) /\ chan[c] \in Seq(Events)
  BY <1>1 DEF ChanOnce
<1>4. Distinct(chan'[c]) /\ \A f \in Events : Has(chan'[c], f) => f = e \/ Has(chan[c], f)
  BY <1>1, <1>3, AppendOnce DEF Offered
<1>5. ChanOnce'
  BY <1>1, <1>2, <1>4 DEF ChanOnce
<1>6. ASSUME NEW f \in Events, NEW d \in Conns, Coming(d, f)' PROVE Coming(d, f)
  BY <1>1, <1>2, <1>4, <1>6 DEF Coming
<1> QED BY <1>1, <1>2, <1>5, <1>6

\* Attempts move, and the list stays or is emptied.
LEMMA MovesOnce ==
  ASSUME Types, Held, BInv, OnceInv, [Next]_vars,
         ~(\E s \in 1..used : AuditMessage(s)), ~Proxied, ~(\E c \in Conns : HandlerEnds(c))
  PROVE  OnceInv'
<1> DEFINE Quiet == \/ UNCHANGED bvars
                    \/ \E s \in 1..used, c \in Conns : Subscribe(c) /\ Accept(s) /\ tries'[s].conn = c
<1>1. Quiet /\ (view = "audit" => shown' \in {shown, <<>>}) /\ (tally.crossed => tally'.crossed)
  <2>1. ASSUME NEW s \in 1..used, Step(s) PROVE Quiet /\ shown' = shown /\ tally'.crossed = tally.crossed
    <3>1. CASE Accept(s)
      <4>1. Quiet
        BY <3>1, AcceptTurns DEF Types
      <4> QED BY <3>1, <4>1 DEF Accept
    <3>2. CASE ~Accept(s)
      BY <2>1, <3>2 DEF Step, SocketInfo, SocketInfoFails, OpenSource, Reject, Drop, Expire, Types
    <3> QED BY <3>1, <3>2
  <2>2. CASE OpenPanel \/ ClosePanel \/ LeaveMap \/ TimerFires \/ PageArrives
    BY <2>2 DEF OpenPanel, ClosePanel, LeaveMap, TimerFires, PageArrives, Types
  <2>3. CASE \/ (\E s \in 1..used : MapMessage(s)) \/ Poll \/ (\E p \in polls : PollArrives(p)) \/ Changes
             \/ CookieMoves \/ UNCHANGED vars
    BY <2>3 DEF MapMessage, Poll, PollArrives, Changes,
       CookieMoves, SwitchOrg, OtherTab, Switched, PageStays, vars, Types
  <2> QED BY <2>1, <2>2, <2>3 DEF Next, CookieMoves, Asking, Step
<1>2. /\ ChanOnce' /\ casts' = casts
      /\ \A d \in Conns, e \in Events : Coming(d, e)' => Coming(d, e)
  <2>1. CASE UNCHANGED bvars
    BY <2>1 DEF bvars, OnceInv, ChanOnce, Coming
  <2>2. CASE ~UNCHANGED bvars
    BY <1>1, <2>2, ChannelSteps DEF OnceInv
  <2> QED BY <2>1, <2>2
<1>3. ListOnce'
  <2> SUFFICES ASSUME view = "audit" PROVE ListOnce'
    BY ViewStays DEF ListOnce
  <2>1. \A e \in Events : Has(shown', e) => Has(shown, e)
    BY <1>1, EmptyOnce
  <2>2. \A e \in Events : casts'[e].at = "idle" => ~Has(shown', e)
    BY <1>2, <2>1 DEF OnceInv, ListOnce
  <2>3. ASSUME ~tally'.crossed PROVE Distinct(shown')
    BY <1>1, <2>3, EmptyOnce DEF OnceInv, ListOnce
  <2>4. ASSUME ~tally'.crossed, NEW s \in 1..used', tries'[s].at = "open", NEW e \in Events, Has(shown', e)
        PROVE ~Coming(tries[s].conn, e)'
    <3>1. PICK d \in Conns : tries'[s].conn = d
      BY <2>4, ConnectionsHeld
    <3> SUFFICES ~Coming(d, e)'
      BY <3>1 DEF Coming
    <3>2. CASE s \in 1..used /\ Same(s)
      <4>1. tries[s].at = "open" /\ tries[s].conn = d
        BY <2>4, <3>1, <3>2 DEF Same
      <4>2. ~Coming(d, e)
        BY <1>1, <2>1, <2>4, <3>2, <4>1 DEF OnceInv, ListOnce
      <4> QED BY <1>2, <4>2
    <3>3. CASE s \in 1..used /\ Accept(s)
      <4>1. PICK c \in Conns : Subscribe(c) /\ tries'[s].conn = c
        BY <3>3, AcceptTurns
      <4>2. c = d /\ chan'[c] = <<>> /\ casts'[e].at # "sending"
        BY <3>1, <4>1 DEF Subscribe, Lockable, OnceInv, ChanOnce
      <4> QED BY <4>2, EmptyOnce DEF Coming
    <3>4. CASE s \in 1..used /\ Expire(s)
      <4>1. tries[s].at = "open" /\ tries[s].conn = d
        BY <3>1, <3>4, ExpireTurns
      <4>2. ~Coming(d, e)
        BY <1>1, <2>1, <2>4, <3>4, <4>1 DEF OnceInv, ListOnce
      <4> QED BY <1>2, <4>2
    <3>5. CASE s \in 1..used /\ (SocketInfo(s) \/ SocketInfoFails(s) \/ OpenSource(s) \/ Reject(s) \/ Drop(s))
      BY <2>4, <3>5, SocketInfoTurns, FailsTurns, OpenSourceTurns, RejectTurns, DropTurns DEF Turned
    <3> QED BY <2>4, <3>2, <3>3, <3>4, <3>5, Moves DEF Step
  <2> QED BY <2>2, <2>3, <2>4 DEF ListOnce
<1> QED BY <1>2, <1>3 DEF OnceInv

LEMMA ServerOnce ==
  ASSUME Types, Held, BInv, OnceInv, Proxied \/ \E c \in Conns : HandlerEnds(c)
  PROVE  OnceInv'
<1>1. UNCHANGED <<view, tries, used, shown, tally>>
  BY DEF Proxied, HandlerEnds
<1>2. /\ ChanOnce'
      /\ \A f \in Events : /\ casts'[f].at = "idle" => casts[f].at = "idle"
                           /\ \A d \in Conns : Coming(d, f)' => Coming(d, f) \/ casts[f].at = "idle"
  <2>1. CASE \E c \in Conns : Unsubscribe(c) \/ Close(c)
    BY <2>1, ChannelSteps DEF OnceInv
  <2>2. CASE \E e \in Events : Broadcast(e) \/ Finish(e)
    BY <2>2, CastSteps DEF OnceInv
  <2>3. CASE \E e \in Events, c \in Conns : Send(e, c)
    BY <2>3, SendOnce DEF OnceInv
  <2> QED BY <2>1, <2>2, <2>3 DEF Proxied, HandlerEnds
<1>3. ASSUME view = "audit", NEW s \in 1..used, tries[s].at = "open" PROVE tries[s].conn \in Conns
  BY <1>3 DEF Held
<1>4. ListOnce'
  BY <1>1, <1>2, <1>3 DEF OnceInv, ListOnce
<1> QED BY <1>2, <1>4 DEF OnceInv

LEMMA MessageOnce ==
  ASSUME Types, Held, BInv, StrayInv, OnceInv, NEW s \in 1..used, AuditMessage(s),
         NEW c, c = tries[s].conn, NEW e, e = Head(chan[c])
  PROVE  OnceInv'
<1>1. /\ view = "audit" /\ tries[s].at = "open" /\ Receive(c) /\ shown' = Pushed(e)
      /\ UNCHANGED <<view, tries, used, tally>>
  BY DEF AuditMessage
<1>2. c \in Conns /\ shown \in Seq(Events) /\ Len(shown) <= Kept
  BY <1>1 DEF Held
<1>3. /\ ChanOnce' /\ casts' = casts
      /\ \A d \in Conns, f \in Events : Coming(d, f)' => Coming(d, f)
  BY <1>1, <1>2, ChannelSteps DEF OnceInv
<1>4. chan[c] \in Seq(Events) /\ chan[c] # <<>> /\ Distinct(chan[c]) /\ chan'[c] = Tail(chan[c])
  BY <1>1, <1>2 DEF Receive, BInv, ChannelsOK, OnceInv, ChanOnce
<1>5. e \in Events /\ Has(chan[c], e) /\ ~Has(chan'[c], e)
  BY <1>4, TailOnce
<1>6. casts[e].at # "idle" /\ c \notin casts[e].left
  BY <1>2, <1>5 DEF OnceInv, ChanOnce
<1>7. \A f \in Events : Has(shown', f) => f = e \/ Has(shown, f)
  BY <1>1, <1>2, <1>5, PushedOnce
<1>8. \A f \in Events : casts'[f].at = "idle" => ~Has(shown', f)
  BY <1>1, <1>3, <1>6, <1>7 DEF OnceInv, ListOnce
<1>9. ASSUME ~tally.crossed
      PROVE  /\ Distinct(shown')
             /\ \A t \in 1..used : tries[t].at = "open" =>
                   \A f \in Events : Has(shown', f) => ~Coming(c, f)' /\ t = s
  <2>1. Distinct(shown) /\ ~Has(shown, e)
    BY <1>1, <1>5, <1>9 DEF OnceInv, ListOnce, Coming
  <2>2. Distinct(shown')
    BY <1>1, <1>2, <1>5, <2>1, PushedOnce
  <2>3. \A t \in 1..used : tries[t].at = "open" => t = s
    BY <1>1, <1>9 DEF StrayInv, Clean, Live
  <2>4. ~Coming(c, e)'
    BY <1>3, <1>5, <1>6 DEF Coming
  <2>5. \A f \in Events : Has(shown, f) => ~Coming(c, f)'
    BY <1>1, <1>2, <1>3, <1>9 DEF OnceInv, ListOnce
  <2> QED BY <1>7, <2>2, <2>3, <2>4, <2>5
<1>10. ASSUME ~tally.crossed, NEW t \in 1..used, tries[t].at = "open", NEW f \in Events, Has(shown', f)
       PROVE  ~Coming(tries[t].conn, f)'
  <2>1. t = s /\ ~Coming(c, f)' /\ tries'[t].conn = c
    BY <1>1, <1>9, <1>10
  <2> QED BY <2>1 DEF Coming
<1>11. ListOnce'
  BY <1>1, <1>8, <1>9, <1>10 DEF ListOnce
<1> QED BY <1>3, <1>11 DEF OnceInv

LEMMA NextOnce ==
  ASSUME Types, Held, BInv, StrayInv, OnceInv, [Next]_vars
  PROVE  OnceInv'
BY MovesOnce, ServerOnce, MessageOnce

(***************************************************************************)
(* The theorems.                                                           *)
(***************************************************************************)
Inv == Types /\ Held /\ BInv /\ StrayInv /\ OrgInv /\ OnceInv

LEMMA Invariant == Spec => []Inv
<1>1. Init => Inv
  BY InitTypes, InitBInv, InitStray, InitOrg, InitOnce DEF Init, Inv
<1>2. Inv /\ [Next]_vars => Inv'
  <2> SUFFICES ASSUME Inv, [Next]_vars PROVE Inv'
    OBVIOUS
  <2>1. Types' /\ Held' /\ BInv'
    BY NextTypes, HeldKept, BroadcasterStep, BroadcasterKeeps DEF Inv, BInv
  <2>2. StrayInv' /\ OrgInv' /\ OnceInv'
    BY NextStray, NextOrg, NextOnce DEF Inv
  <2> QED BY <2>1, <2>2 DEF Inv
<1> QED BY <1>1, <1>2, PTL DEF Spec

(* The variables of the live views and of the Broadcaster behind them stay   *)
(* in their types, and no list or channel outgrows its bound.                *)
THEOREM StreamsTyped == Spec => []TypeOK
<1>1. Inv => TypeOK
  BY DEF Inv, Types, Held, BInv, TypeOK, Try
<1> QED BY Invariant, <1>1, PTL

(* A view on the screen has at most one EventSource and one that is gone has *)
(* none, unless it went while an attempt was past its last check             *)
(* (live-audit-stream.tsx:34, live-topology-map.tsx:325).                    *)
THEOREM OneSource == Spec => []NoStrayStream
<1>1. Inv => NoStrayStream
  BY DEF Inv, StrayInv, Clean, NoStrayStream
<1> QED BY Invariant, <1>1, PTL

(* An event is on the audit stream's list once, over any number of breaks    *)
(* and reconnections and however many requests are broadcasting.             *)
THEOREM ShownOnce == Spec => []EventShownOnce
<1>1. Inv => EventShownOnce
  BY DEF Inv, OnceInv, ListOnce, Distinct, EventShownOnce
<1> QED BY Invariant, <1>1, PTL

(* The map shows the organisation its page is for once its stream has        *)
(* delivered, whatever streams of earlier organisations are still connected. *)
THEOREM OwnOrganisation == Spec => []MapKeepsToOrg
<1>1. Inv => MapKeepsToOrg
  BY DEF Inv, OrgInv, MapKeepsToOrg
<1> QED BY Invariant, <1>1, PTL

=============================================================================

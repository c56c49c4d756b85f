------------------------ MODULE ProtectedAppsProofs ------------------------
(***************************************************************************)
(* What protected apps are served with and where sign-ins land, for any    *)
(* number of apps, slugs, sign-ins, tokens and calls.                      *)
(***************************************************************************)
EXTENDS ProtectedApps, TLAPS

RowsOK ==
    /\ app \in [Apps -> Row \cup {None, Gone}]
    /\ session \in [SignIns -> [app: Apps \cup {None}, state: States]]
    /\ token \in [Tokens -> [app: Apps \cup {None}, state: States]]
    /\ signin \in [SignIns -> [app: Apps \cup {None}, slug: Slugs \cup {None},
                               at: {"none", "provider", "spent"}]]
    /\ nonces \subseteq SignIns
    /\ cookies \subseteq SignIns

\* A sign-in that began has an app, and its session is made only once its code is spent.
SignInsOK ==
    \A n \in SignIns :
        /\ signin[n].at # "none" => signin[n].app \in Apps /\ signin[n].slug \in Slugs
        /\ signin[n].at # "spent" => session[n].state = "none"
        /\ session[n].state # "none" => session[n].app = signin[n].app
        /\ session[n].state = "none" => session[n].app = None

TokensOK ==
    \A t \in Tokens : IF token[t].state = "none" THEN token[t].app = None ELSE token[t].app \in Apps

\* What a call knows at its place, and that it is served with nothing that was over.
Knows(v) ==
    v # Idle =>
        /\ v.at \in {"auth", "forward", "exchange", "store", "revoke", "clear", "tokens", "row"} => v.app \in Apps
        /\ v.at \in {"request", "callback", "exchange", "store", "logout"} => v.slug \in Slugs
        /\ v.at \in {"callback", "exchange", "store"} => v.cred \in SignIns /\ signin[v.cred].at # "none"
        /\ v.at \in {"request", "auth"} =>
              \/ v.cred = None
              \/ v.cred \in Tokens /\ token[v.cred].state # "none"
        /\ v.at \in {"exchange", "store"} => signin[v.cred].app = v.app
        /\ v.at = "store" => signin[v.cred].at = "spent" /\ session[v.cred].state = "none"
        /\ v.over \subseteq Over
        /\ v.at \in {"auth", "forward"} => v.app \notin v.over
        /\ v.at = "forward" =>
              /\ v.cred \notin v.over
              /\ v.cred \in SignIns => session[v.cred].state # "none" /\ session[v.cred].app = v.app
              /\ v.cred \in Tokens => token[v.cred].state # "none" /\ token[v.cred].app = v.app
              /\ v.cred = None => v.open

CallsKnow == \A c \in Slots : Knows(call[c])

\* Of the callbacks of one sign-in, one at most has the code.
OneStore ==
    \A c, d \in Slots : At(c, "store") /\ At(d, "store") /\ call[c].cred = call[d].cred => c = d

IInv == RowsOK /\ call \in [Slots -> Call \cup {Idle}] /\ SignInsOK /\ TokensOK /\ CallsKnow /\ OneStore

LEMMA InitIInv == Init => IInv
<1> SUFFICES ASSUME Init PROVE IInv
  OBVIOUS
<1> USE ProtectedAppsAssumption
<1>1. RowsOK /\ call \in [Slots -> Call \cup {Idle}]
  BY DEF Init, RowsOK, States
<1>2. SignInsOK /\ TokensOK /\ CallsKnow /\ OneStore
  BY DEF Init, SignInsOK, TokensOK, CallsKnow, Knows, OneStore, At
<1> QED BY <1>1, <1>2 DEF IInv

-----------------------------------------------------------------------------
(* Steps of calls that leave the tables alone.                             *)

Tables == <<app, session, token, signin>>

LEMMA CallOnly ==
    ASSUME IInv, NEW c \in Slots, NEW v \in Call \cup {Idle}, Knows(v),
           v # Idle => v.at # "store",
           call' = [call EXCEPT ![c] = v], UNCHANGED Tables,
           nonces' \subseteq SignIns, cookies' \subseteq SignIns
    PROVE  IInv'
<1>1. RowsOK' /\ call' \in [Slots -> Call \cup {Idle}] /\ SignInsOK' /\ TokensOK'
  BY DEF IInv, RowsOK, SignInsOK, TokensOK, Tables
<1>2. \A d \in Slots : call'[d] = IF d = c THEN v ELSE call[d]
  BY DEF IInv
<1>3. Over' = Over
  BY DEF Over, Tables
<1>4. CallsKnow'
  BY <1>2, <1>3 DEF IInv, CallsKnow, Knows, Tables
<1>5. OneStore'
  BY <1>2 DEF IInv, OneStore, At
<1> QED BY <1>1, <1>4, <1>5 DEF IInv

LEMMA AtCall ==
    ASSUME IInv, NEW c \in Slots, NEW place, At(c, place)
    PROVE  call[c] \in Call /\ call[c] # Idle /\ Knows(call[c]) /\ call[c].at = place
BY DEF IInv, CallsKnow, At

LEMMA IdleKnows == Knows(Idle)
BY DEF Knows

LEMMA RequestStep ==
    ASSUME IInv, NEW c \in Slots, NEW s \in Slugs, NEW t \in Tokens \cup {None}, Request(c, s, t)
    PROVE  IInv'
<1> DEFINE v == [Blank EXCEPT !.slug = s, !.cred = t, !.over = Over,
                              !.sent = IF t = None THEN CookiesAt(s) ELSE {}]
<1>1. v \in Call /\ v.at = "request"
  BY DEF Blank, Call, RequestPlaces, Over, CookiesAt, IInv, RowsOK
<1>2. Knows(v)
  BY ProtectedAppsAssumption DEF Request, Blank, Knows
<1>3. call' = [call EXCEPT ![c] = v] /\ UNCHANGED Tables /\ UNCHANGED <<nonces, cookies>>
  BY DEF Request, Tables
<1> HIDE DEF v
<1> QED BY <1>1, <1>2, <1>3, CallOnly DEF IInv, RowsOK

LEMMA LookupStep ==
    ASSUME IInv, NEW c \in Slots, NEW a \in Apps, LookupApp(c, a)
    PROVE  IInv'
<1> DEFINE v == [call[c] EXCEPT !.at = "auth", !.app = a, !.open = app[a].open]
<1>1. call[c] \in Call /\ call[c] # Idle /\ Knows(call[c]) /\ call[c].at = "request"
  BY AtCall DEF LookupApp
<1>2. app[a] \in Row
  BY DEF LookupApp, Serves, Exists, IInv, RowsOK
<1>3. v \in Call /\ v.at = "auth"
  BY <1>1, <1>2 DEF Call, RequestPlaces, Row
<1>4. a \notin Over
  BY <1>2, ProtectedAppsAssumption DEF Over, LookupApp, Serves, Exists
<1>5. Knows(v)
  BY <1>1, <1>4 DEF Knows, Call
<1>6. call' = [call EXCEPT ![c] = v] /\ UNCHANGED Tables /\ UNCHANGED <<nonces, cookies>>
  BY DEF LookupApp, Tables, IInv
<1> HIDE DEF v
<1> QED BY <1>3, <1>5, <1>6, CallOnly DEF IInv, RowsOK

\* A request passes with nothing, or with a live row of its app.
LEMMA PassStep ==
    ASSUME IInv, NEW c \in Slots, At(c, "auth"), NEW cred \in SignIns \cup Tokens \cup {None}, Pass(c, cred),
           cred \notin Over,
           cred \in SignIns => session[cred].state = "live" /\ session[cred].app = call[c].app,
           cred \in Tokens => token[cred].state = "live" /\ token[cred].app = call[c].app,
           cred = None => call[c].open
    PROVE  IInv'
<1> DEFINE v == [call[c] EXCEPT !.at = "forward", !.cred = cred, !.sent = {}]
<1>1. call[c] \in Call /\ call[c] # Idle /\ Knows(call[c]) /\ call[c].at = "auth"
  BY AtCall
<1>2. v \in Call /\ v.at = "forward"
  BY <1>1 DEF Call, RequestPlaces
<1>3. Knows(v)
  BY <1>1 DEF Knows, Call
<1>4. call' = [call EXCEPT ![c] = v] /\ UNCHANGED Tables /\ UNCHANGED <<nonces, cookies>>
  BY DEF Pass, Tables, IInv
<1> HIDE DEF v
<1> QED BY <1>2, <1>3, <1>4, CallOnly DEF IInv, RowsOK

LEMMA PassesStep ==
    ASSUME IInv, NEW c \in Slots, PassToken(c) \/ PassSession(c) \/ PassOpen(c)
    PROVE  IInv'
<1> USE ProtectedAppsAssumption
<1>1. CASE PassToken(c)
  <2>1. At(c, "auth") /\ call[c].cred # None /\ Admits(token[call[c].cred], call[c].app) /\ Pass(c, call[c].cred)
    BY <1>1 DEF PassToken
  <2>2. call[c].cred \in Tokens
    BY <2>1, AtCall DEF Knows
  <2>3. token[call[c].cred].state = "live" /\ token[call[c].cred].app = call[c].app
    BY <2>1 DEF Admits, Valid
  <2>4. call[c].cred \notin Over
    BY <2>2, <2>3 DEF Over
  <2> QED BY <2>1, <2>2, <2>3, <2>4, PassStep
<1>2. CASE PassSession(c)
  <2>1. PICK n \in Shown(c) : Admits(session[n], call[c].app) /\ Pass(c, n)
    BY <1>2 DEF PassSession
  <2>2. n \in SignIns
    BY <1>2, AtCall DEF PassSession, Shown, Call
  <2>3. session[n].state = "live" /\ session[n].app = call[c].app
    BY <2>1 DEF Admits, Valid
  <2>4. n \notin Over
    BY <2>2, <2>3 DEF Over
  <2> QED BY <1>2, <2>1, <2>2, <2>3, <2>4, PassStep DEF PassSession
<1>3. CASE PassOpen(c)
  <2>1. None \notin Over
    BY DEF Over
  <2> QED BY <1>3, <2>1, PassStep DEF PassOpen
<1> QED BY <1>1, <1>2, <1>3

LEMMA StopStep == ASSUME IInv, NEW c \in Slots, Stop(c) PROVE IInv'
BY IdleKnows, CallOnly DEF Stop, End, Tables, IInv, RowsOK

LEMMA CallbackStep ==
    ASSUME IInv, NEW c \in Slots, NEW n \in SignIns, Callback(c, n)
    PROVE  IInv'
<1> DEFINE v == [Blank EXCEPT !.at = "callback", !.slug = signin[n].slug,
                              !.cred = n, !.sent = NoncesAt(signin[n].slug)]
<1>1. signin[n].slug \in Slugs /\ signin[n].at # "none"
  BY DEF Callback, IInv, SignInsOK
<1>2. v \in Call /\ v.at = "callback"
  BY <1>1 DEF Blank, Call, OtherPlaces, NoncesAt, IInv, RowsOK
<1>3. Knows(v)
  BY <1>1 DEF Blank, Knows
<1>4. call' = [call EXCEPT ![c] = v] /\ UNCHANGED Tables /\ UNCHANGED <<nonces, cookies>>
  BY DEF Callback, Tables
<1> HIDE DEF v
<1> QED BY <1>2, <1>3, <1>4, CallOnly DEF IInv, RowsOK

LEMMA CheckStep ==
    ASSUME IInv, NEW c \in Slots, NEW a \in Apps, CheckState(c, a)
    PROVE  IInv'
<1> DEFINE v == [call[c] EXCEPT !.at = "exchange", !.app = a, !.sent = {}]
<1>1. call[c] \in Call /\ call[c] # Idle /\ Knows(call[c]) /\ call[c].at = "callback"
  BY AtCall DEF CheckState
<1>2. v \in Call /\ v.at = "exchange"
  BY <1>1 DEF Call, OtherPlaces
<1>3. Knows(v)
  BY <1>1 DEF Knows, Call, CheckState, Matches
<1>4. call' = [call EXCEPT ![c] = v] /\ UNCHANGED Tables /\ UNCHANGED <<nonces, cookies>>
  BY DEF CheckState, Tables, IInv
<1> HIDE DEF v
<1> QED BY <1>2, <1>3, <1>4, CallOnly DEF IInv, RowsOK

LEMMA LogoutStep ==
    ASSUME IInv, NEW c \in Slots,
           \/ \E s \in Slugs : Logout(c, s)
           \/ \E a \in Apps : LookupLogout(c, a)
           \/ ClearCookie(c)
           \/ FailCallback(c)
    PROVE  IInv'
<1>1. ASSUME NEW s \in Slugs, Logout(c, s) PROVE IInv'
  <2> DEFINE v == [Blank EXCEPT !.at = "logout", !.slug = s, !.sent = CookiesAt(s)]
  <2>1. v \in Call /\ v.at = "logout"
    BY DEF Blank, Call, OtherPlaces, CookiesAt, IInv, RowsOK
  <2>2. Knows(v)
    BY DEF Blank, Knows
  <2>3. call' = [call EXCEPT ![c] = v] /\ UNCHANGED Tables /\ UNCHANGED <<nonces, cookies>>
    BY <1>1 DEF Logout, Tables
  <2> HIDE DEF v
  <2> QED BY <2>1, <2>2, <2>3, CallOnly DEF IInv, RowsOK
<1>2. ASSUME NEW a \in Apps, LookupLogout(c, a) PROVE IInv'
  <2> DEFINE v == [call[c] EXCEPT !.at = "revoke", !.app = a]
  <2>1. call[c] \in Call /\ call[c] # Idle /\ Knows(call[c]) /\ call[c].at = "logout"
    BY <1>2, AtCall DEF LookupLogout
  <2>2. v \in Call /\ v.at = "revoke"
    BY <2>1 DEF Call, OtherPlaces
  <2>3. Knows(v)
    BY <2>1 DEF Knows, Call
  <2>4. call' = [call EXCEPT ![c] = v] /\ UNCHANGED Tables /\ UNCHANGED <<nonces, cookies>>
    BY <1>2 DEF LookupLogout, Tables, IInv
  <2> HIDE DEF v
  <2> QED BY <2>2, <2>3, <2>4, CallOnly DEF IInv, RowsOK
<1>3. CASE ClearCookie(c) \/ FailCallback(c)
  BY <1>3, IdleKnows, CallOnly DEF ClearCookie, FailCallback, End, Tables, IInv, RowsOK
<1> QED BY <1>1, <1>2, <1>3

-----------------------------------------------------------------------------
(* Steps that change the tables.                                           *)

\* No step makes a row undone, or another app's, and what is over stays over.
Grows ==
    /\ Over \subseteq Over'
    /\ \A n \in SignIns : signin[n].at # "none" =>
          /\ signin'[n].app = signin[n].app
          /\ signin'[n].at # "none"
          /\ signin[n].at = "spent" => signin'[n].at = "spent"
    /\ \A n \in SignIns : session[n].state # "none" =>
          session'[n].state # "none" /\ session'[n].app = session[n].app
    /\ \A t \in Tokens : token[t].state # "none" =>
          token'[t].state # "none" /\ token'[t].app = token[t].app

LEMMA KnowsStill ==
    ASSUME IInv, Grows, NEW v \in Call \cup {Idle}, Knows(v),
           v # Idle /\ v.at = "store" => session'[v.cred].state = "none"
    PROVE  Knows(v)'
<1>1. CASE v = Idle
  BY <1>1 DEF Knows
<1>2. CASE v # Idle
  <2>1. v.over \subseteq Over'
    BY <1>2 DEF Knows, Grows
  <2>2. v.at \in {"callback", "exchange", "store"} => v.cred \in SignIns /\ signin'[v.cred].at # "none"
    BY <1>2 DEF Knows, Grows
  <2>3. v.at \in {"request", "auth"} => v.cred = None \/ (v.cred \in Tokens /\ token'[v.cred].state # "none")
    BY <1>2 DEF Knows, Grows
  <2>4. v.at \in {"exchange", "store"} => signin'[v.cred].app = v.app
    BY <1>2 DEF Knows, Grows
  <2>5. v.at = "store" => signin'[v.cred].at = "spent" /\ session'[v.cred].state = "none"
    BY <1>2 DEF Knows, Grows
  <2>6. v.at = "forward" =>
          /\ v.cred \in SignIns => session'[v.cred].state # "none" /\ session'[v.cred].app = v.app
          /\ v.cred \in Tokens => token'[v.cred].state # "none" /\ token'[v.cred].app = v.app
    BY <1>2 DEF Knows, Grows
  <2> QED BY <1>2, <2>1, <2>2, <2>3, <2>4, <2>5, <2>6 DEF Knows
<1> QED BY <1>1, <1>2

\* Nobody's call moves.
LEMMA TablesOnly ==
    ASSUME IInv, Grows, RowsOK', SignInsOK', TokensOK', call' = call,
           \A n \in SignIns : session[n].state = "none" => session'[n].state = "none"
    PROVE  IInv'
<1>1. \A c \in Slots : Knows(call[c])'
  <2> TAKE c \in Slots
  <2>1. call[c] \in Call \cup {Idle} /\ Knows(call[c])
    BY DEF IInv, CallsKnow
  <2>2. call[c] # Idle /\ call[c].at = "store" => session'[call[c].cred].state = "none"
    BY <2>1 DEF Knows
  <2>3. \A v \in Call \cup {Idle} :
          Knows(v) /\ (v # Idle /\ v.at = "store" => session'[v.cred].state = "none") => Knows(v)'
    BY KnowsStill
  <2>4. Knows(call[c])'
    BY <2>1, <2>2, <2>3 DEF Knows
  <2> QED BY <2>4
<1>2. CallsKnow' /\ OneStore'
  BY <1>1 DEF CallsKnow, OneStore, IInv, At
<1> QED BY <1>2 DEF IInv

\* A call moves, and the others keep the sign-ins they are storing to themselves.
LEMMA TablesAndCall ==
    ASSUME IInv, Grows, RowsOK', SignInsOK', TokensOK', NEW c \in Slots, NEW v \in Call \cup {Idle},
           Knows(v)', call' = [call EXCEPT ![c] = v],
           \A d \in Slots \ {c} : At(d, "store") =>
              /\ session'[call[d].cred].state = "none"
              /\ v # Idle /\ v.at = "store" => v.cred # call[d].cred
    PROVE  IInv'
<1>1. call' \in [Slots -> Call \cup {Idle}] /\ \A d \in Slots : call'[d] = IF d = c THEN v ELSE call[d]
  BY DEF IInv
<1>2. \A d \in Slots : Knows(call[d])'
  <2> TAKE d \in Slots
  <2>1. CASE d = c
    BY <1>1, <2>1 DEF Knows
  <2>2. CASE d # c
    <3>1. call[d] \in Call \cup {Idle} /\ Knows(call[d])
      BY DEF IInv, CallsKnow
    <3>2. call[d] # Idle /\ call[d].at = "store" => session'[call[d].cred].state = "none"
      BY <2>2 DEF At
    <3>3. \A w \in Call \cup {Idle} :
            Knows(w) /\ (w # Idle /\ w.at = "store" => session'[w.cred].state = "none") => Knows(w)'
      BY KnowsStill
    <3>4. call'[d] = call[d]
      BY <1>1, <2>2
    <3> QED BY <3>1, <3>2, <3>3, <3>4 DEF Knows
  <2> QED BY <2>1, <2>2
<1>3. OneStore'
  BY <1>1 DEF OneStore, IInv, At
<1> QED BY <1>1, <1>2, <1>3 DEF IInv, CallsKnow

LEMMA LoginStep ==
    ASSUME IInv, NEW n \in SignIns, NEW a \in Apps, NEW s \in Slugs, Login(n, a, s)
    PROVE  IInv'
<1>1. RowsOK' /\ SignInsOK' /\ TokensOK'
  BY DEF Login, NonceOf, NoncesAt, IInv, RowsOK, SignInsOK, TokensOK
<1>2. Grows
  BY DEF Grows, Login, IInv, RowsOK, Over
<1> QED BY <1>1, <1>2, TablesOnly DEF Login

LEMMA ExchangeStep ==
    ASSUME IInv, NEW c \in Slots, Exchange(c)
    PROVE  IInv'
<1> PICK v : v = [call[c] EXCEPT !.at = "store"]
  OBVIOUS
<1> PICK n : n = call[c].cred
  OBVIOUS
<1>1. call[c] \in Call /\ call[c] # Idle /\ Knows(call[c]) /\ call[c].at = "exchange"
  BY AtCall DEF Exchange
<1>2. n \in SignIns /\ signin[n].at = "provider" /\ signin[n].app = call[c].app /\ session[n].state = "none"
  BY <1>1 DEF Knows, Exchange, IInv, SignInsOK
<1>3. v \in Call /\ v.at = "store" /\ v.cred = n
  BY <1>1 DEF Call, OtherPlaces
<1>4. signin' = [signin EXCEPT ![n].at = "spent"]
  BY DEF Exchange
<1>5. RowsOK' /\ SignInsOK' /\ TokensOK'
  BY <1>2, <1>4 DEF Exchange, IInv, RowsOK, SignInsOK, TokensOK
<1>6. Grows
  BY <1>2, <1>4 DEF Grows, Exchange, IInv, RowsOK, Over
<1>7. Knows(v)'
  <2>1. signin'[n].at = "spent" /\ signin'[n].app = call[c].app
    BY <1>2, <1>4 DEF IInv, RowsOK
  <2>2. v.app \in Apps /\ v.slug \in Slugs /\ v.app = call[c].app /\ v.over = call[c].over /\ v.over \subseteq Over
    BY <1>1 DEF Knows, Call
  <2> QED BY <1>2, <1>3, <1>6, <2>1, <2>2 DEF Knows, Exchange, Grows
<1>8. \A d \in Slots \ {c} : At(d, "store") =>
        /\ session'[call[d].cred].state = "none"
        /\ v # Idle /\ v.at = "store" => v.cred # call[d].cred
  BY <1>2, <1>3, AtCall DEF Knows, Exchange
<1>9. call' = [call EXCEPT ![c] = v]
  BY DEF Exchange, IInv
<1> QED BY <1>3, <1>5, <1>6, <1>7, <1>8, <1>9, TablesAndCall

LEMMA CreateSessionStep ==
    ASSUME IInv, NEW c \in Slots, CreateSession(c)
    PROVE  IInv'
<1> DEFINE n == call[c].cred
<1>1. call[c] \in Call /\ call[c] # Idle /\ Knows(call[c]) /\ call[c].at = "store"
  BY AtCall DEF CreateSession
<1>2. n \in SignIns /\ signin[n].at = "spent" /\ signin[n].app = call[c].app /\ session[n].state = "none"
      /\ call[c].app \in Apps
  BY <1>1 DEF Knows
<1>3. session' = [session EXCEPT ![n] = [app |-> call[c].app, state |-> "live"]]
  BY DEF CreateSession, NewSession
<1>4. RowsOK' /\ SignInsOK' /\ TokensOK'
  BY <1>2, <1>3, ProtectedAppsAssumption
     DEF CreateSession, NonceOf, NoncesAt, CookieOf, CookiesAt, IInv, RowsOK, SignInsOK, TokensOK, States
<1>5. Grows
  BY <1>2, <1>3 DEF Grows, CreateSession, IInv, RowsOK, Over
<1>6. \A d \in Slots \ {c} : At(d, "store") => session'[call[d].cred].state = "none"
  <2> TAKE d \in Slots \ {c}
  <2> HAVE At(d, "store")
  <2>1. call[d].cred # n
    BY DEF CreateSession, IInv, OneStore
  <2>2. call[d].cred \in SignIns /\ session[call[d].cred].state = "none"
    BY AtCall DEF Knows
  <2> QED BY <1>3, <2>1, <2>2 DEF IInv, RowsOK
<1>7. call' = [call EXCEPT ![c] = Idle]
  BY DEF CreateSession, End
<1>8. Knows(Idle)'
  BY DEF Knows
<1> QED BY <1>4, <1>5, <1>6, <1>7, <1>8, TablesAndCall

\* Ending some sessions that are there.
LEMMA EndSome ==
    ASSUME IInv, UNCHANGED <<app, token, signin, nonces, cookies>>,
           session' \in [SignIns -> [app: Apps \cup {None}, state: States]],
           \A n \in SignIns : session'[n] # session[n] =>
              /\ session[n].state # "none" /\ session'[n].state = "ended"
              /\ session'[n].app = session[n].app
    PROVE  /\ Grows /\ RowsOK' /\ SignInsOK' /\ TokensOK'
           /\ \A d \in Slots : At(d, "store") => session'[call[d].cred].state = "none"
<1>1. RowsOK' /\ SignInsOK' /\ TokensOK'
  BY DEF IInv, RowsOK, SignInsOK, TokensOK
<1>2. Grows
  BY DEF Grows, IInv, RowsOK, Over
<1>3. \A d \in Slots : At(d, "store") => session'[call[d].cred].state = "none"
  <2> TAKE d \in Slots
  <2> HAVE At(d, "store")
  <2> QED BY AtCall DEF Knows
<1> QED BY <1>1, <1>2, <1>3

LEMMA RevokeOwnStep ==
    ASSUME IInv, NEW c \in Slots, RevokeOwn(c)
    PROVE  IInv'
<1> PICK v : v = [call[c] EXCEPT !.at = "clear", !.sent = {}]
  OBVIOUS
<1>1. call[c] \in Call /\ call[c] # Idle /\ Knows(call[c]) /\ call[c].at = "revoke"
  BY AtCall DEF RevokeOwn
<1>2. v \in Call /\ v.at = "clear"
  BY <1>1 DEF Call, OtherPlaces
<1>3. Knows(v)
  BY <1>1 DEF Knows, Call
<1>4. call' = [call EXCEPT ![c] = v] /\ UNCHANGED <<app, token, signin, nonces, cookies>>
  BY DEF RevokeOwn, IInv
<1>5. /\ session' \in [SignIns -> [app: Apps \cup {None}, state: States]]
      /\ \A n \in SignIns : session'[n] # session[n] =>
            /\ session[n].state # "none" /\ session'[n].state = "ended"
            /\ session'[n].app = session[n].app
  BY DEF RevokeOwn, Ended, IInv, RowsOK, States
<1>6. /\ Grows /\ RowsOK' /\ SignInsOK' /\ TokensOK'
      /\ \A d \in Slots : At(d, "store") => session'[call[d].cred].state = "none"
  BY <1>4, <1>5, EndSome
<1>7. Knows(v)'
  BY <1>2, <1>3, <1>6, KnowsStill
<1> QED BY <1>2, <1>4, <1>6, <1>7, TablesAndCall

LEMMA EndSessionStep ==
    ASSUME IInv, NEW n \in SignIns, EndSession(n)
    PROVE  IInv'
<1>1. session' \in [SignIns -> [app: Apps \cup {None}, state: States]]
  BY DEF EndSession, Ended, IInv, RowsOK, States
<1>2. \A m \in SignIns : session'[m] # session[m] =>
        /\ session[m].state # "none" /\ session'[m].state = "ended"
        /\ session'[m].app = session[m].app
  BY DEF EndSession, Ended, IInv, RowsOK
<1>3. Grows /\ RowsOK' /\ SignInsOK' /\ TokensOK'
  BY <1>1, <1>2, EndSome DEF EndSession
<1>4. \A m \in SignIns : session[m].state = "none" => session'[m].state = "none"
  BY <1>2
<1> QED BY <1>3, <1>4, TablesOnly DEF EndSession

LEMMA DeleteSessionsStep ==
    ASSUME IInv, NEW c \in Slots, NEW a \in Apps, DeleteSessions(c, a)
    PROVE  IInv'
<1> PICK v : v = [Blank EXCEPT !.at = "tokens", !.app = a]
  OBVIOUS
<1>1. v \in Call /\ v.at = "tokens"
  BY DEF Blank, Call, OtherPlaces
<1>2. Knows(v)
  BY DEF Knows, Blank
<1>3. call' = [call EXCEPT ![c] = v] /\ UNCHANGED <<app, token, signin, nonces, cookies>>
  BY DEF DeleteSessions
<1>4. session' = [n \in SignIns |-> IF session[n].app = a THEN [session[n] EXCEPT !.state = "ended"] ELSE session[n]]
  BY DEF DeleteSessions, Deleted, IInv, RowsOK
<1>5. session' \in [SignIns -> [app: Apps \cup {None}, state: States]]
  BY <1>4 DEF IInv, RowsOK, States
<1>6. \A n \in SignIns : session'[n] # session[n] =>
        /\ session[n].state # "none" /\ session'[n].state = "ended"
        /\ session'[n].app = session[n].app
  BY <1>4, ProtectedAppsAssumption DEF IInv, RowsOK, SignInsOK
<1>7. /\ Grows /\ RowsOK' /\ SignInsOK' /\ TokensOK'
      /\ \A d \in Slots : At(d, "store") => session'[call[d].cred].state = "none"
  BY <1>3, <1>5, <1>6, EndSome
<1>8. Knows(v)'
  BY <1>1, <1>2, <1>7, KnowsStill
<1> QED BY <1>1, <1>3, <1>7, <1>8, TablesAndCall

LEMMA DeleteTokensStep ==
    ASSUME IInv, NEW c \in Slots, DeleteTokens(c)
    PROVE  IInv'
<1> PICK v : v = [call[c] EXCEPT !.at = "row"]
  OBVIOUS
<1>1. call[c] \in Call /\ call[c] # Idle /\ Knows(call[c]) /\ call[c].at = "tokens"
  BY AtCall DEF DeleteTokens
<1>2. v \in Call /\ v.at = "row"
  BY <1>1 DEF Call, OtherPlaces
<1>3. Knows(v)
  BY <1>1 DEF Knows, Call
<1>4. call' = [call EXCEPT ![c] = v] /\ UNCHANGED <<app, session, signin, nonces, cookies>>
  BY DEF DeleteTokens, IInv
<1>5. call[c].app \in Apps
  BY <1>1 DEF Knows
<1>6. token' = [t \in Tokens |-> IF token[t].app = call[c].app THEN [token[t] EXCEPT !.state = "ended"] ELSE token[t]]
  BY DEF DeleteTokens, Deleted, IInv, RowsOK
<1>7. RowsOK' /\ SignInsOK' /\ TokensOK'
  BY <1>4, <1>5, <1>6, ProtectedAppsAssumption DEF IInv, RowsOK, SignInsOK, TokensOK, States
<1>8. Grows
  BY <1>4, <1>6 DEF Grows, IInv, RowsOK, Over
<1>9. \A d \in Slots : At(d, "store") => session'[call[d].cred].state = "none"
  <2> TAKE d \in Slots
  <2> HAVE At(d, "store")
  <2> QED BY <1>4, AtCall DEF Knows
<1>10. Knows(v)'
  BY <1>2, <1>3, <1>8, KnowsStill
<1> QED BY <1>2, <1>4, <1>7, <1>8, <1>9, <1>10, TablesAndCall

LEMMA DeleteRowStep ==
    ASSUME IInv, NEW c \in Slots, DeleteRow(c)
    PROVE  IInv'
<1>1. RowsOK' /\ SignInsOK' /\ TokensOK'
  BY DEF DeleteRow, IInv, RowsOK, SignInsOK, TokensOK
<1>2. Grows
  BY ProtectedAppsAssumption DEF Grows, DeleteRow, IInv, RowsOK, Over
<1>3. call' = [call EXCEPT ![c] = Idle] /\ session' = session
  BY DEF DeleteRow, End
<1>4. \A d \in Slots : At(d, "store") => session'[call[d].cred].state = "none"
  <2> TAKE d \in Slots
  <2> HAVE At(d, "store")
  <2> QED BY <1>3, AtCall DEF Knows
<1>5. Knows(Idle)'
  BY DEF Knows
<1> QED BY <1>1, <1>2, <1>3, <1>4, <1>5, TablesAndCall

LEMMA OperateStep ==
    ASSUME IInv, Operate
    PROVE  IInv'
<1>1. ASSUME NEW a \in Apps, NEW s \in Slugs, NEW open \in BOOLEAN,
             CreateApp(a, s, open) \/ UpdateApp(a, s, open)
      PROVE  IInv'
  <2>1. app' = [app EXCEPT ![a] = [slug |-> s, open |-> open]] /\ app[a] # Gone
        /\ UNCHANGED <<session, token, signin, nonces, cookies, call>>
    BY <1>1, ProtectedAppsAssumption DEF CreateApp, UpdateApp, Exists
  <2>2. RowsOK' /\ SignInsOK' /\ TokensOK'
    BY <2>1 DEF IInv, RowsOK, SignInsOK, TokensOK, Row
  <2>3. Grows
    BY <2>1 DEF Grows, IInv, RowsOK, Over
  <2> QED BY <2>1, <2>2, <2>3, TablesOnly
<1>2. ASSUME NEW t \in Tokens, NEW a \in Apps, CreateToken(t, a)
      PROVE  IInv'
  <2>1. RowsOK' /\ SignInsOK' /\ TokensOK'
    BY <1>2 DEF CreateToken, IInv, RowsOK, SignInsOK, TokensOK, States
  <2>2. Grows
    BY <1>2 DEF Grows, CreateToken, IInv, RowsOK, Over
  <2> QED BY <1>2, <2>1, <2>2, TablesOnly DEF CreateToken
<1>3. ASSUME NEW t \in Tokens, EndToken(t)
      PROVE  IInv'
  <2>1. RowsOK' /\ SignInsOK' /\ TokensOK'
    BY <1>3 DEF EndToken, Ended, IInv, RowsOK, SignInsOK, TokensOK, States
  <2>2. Grows
    BY <1>3 DEF Grows, EndToken, Ended, IInv, RowsOK, Over
  <2> QED BY <1>3, <2>1, <2>2, TablesOnly DEF EndToken
<1> QED BY <1>1, <1>2, <1>3, EndSessionStep DEF Operate

-----------------------------------------------------------------------------
(* The theorems.                                                           *)

LEMMA IInvStep == IInv /\ [Next]_vars => IInv'
<1> SUFFICES ASSUME IInv, [Next]_vars PROVE IInv'
  OBVIOUS
<1>1. ASSUME NEW c \in Slots, Visit(c) PROVE IInv'
  BY <1>1, RequestStep, LookupStep, PassesStep, StopStep DEF Visit
<1>2. ASSUME NEW c \in Slots, Sign(c) PROVE IInv'
  BY <1>2, CallbackStep, CheckStep, LogoutStep, ExchangeStep, CreateSessionStep, RevokeOwnStep DEF Sign
<1>3. ASSUME NEW c \in Slots, Delete(c) PROVE IInv'
  BY <1>3, DeleteSessionsStep, DeleteTokensStep, DeleteRowStep DEF Delete
<1>4. CASE UNCHANGED vars
  BY <1>4 DEF vars, IInv, RowsOK, SignInsOK, TokensOK, CallsKnow, Knows, OneStore, At, Over
<1> QED BY <1>1, <1>2, <1>3, <1>4, OperateStep, LoginStep DEF Next

\* The invariant from which the four properties follow: what a call at each place has read is
\* still true of the tables, or has only ended since.
THEOREM SpecIInv == Spec => []IInv
BY InitIInv, IInvStep, PTL DEF Spec

\* The tables, the cookies and the calls keep their types.
THEOREM SpecTypeOK == Spec => []TypeOK
<1>1. IInv => TypeOK
  BY DEF IInv, RowsOK, TypeOK
<1> QED BY <1>1, SpecIInv, PTL

\* No request is forwarded with a session, a token or an app that had ended when it arrived,
\* for any number of apps, calls and deletions that stop half-way.
THEOREM SpecServedInTime == Spec => []ServedInTime
<1>1. IInv => ServedInTime
  BY AtCall DEF ServedInTime, Knows
<1> QED BY <1>1, SpecIInv, PTL

\* A request is forwarded to the app that its session or token was issued for.
THEOREM SpecServedForItsApp == Spec => []ServedForItsApp
<1>1. IInv => ServedForItsApp
  BY AtCall DEF ServedForItsApp, Knows
<1> QED BY <1>1, SpecIInv, PTL

\* A session belongs to the app at which its sign-in began, however slugs change hands.
THEOREM SpecSignInLandsWhereItBegan == Spec => []SignInLandsWhereItBegan
<1>1. IInv => SignInLandsWhereItBegan
  BY DEF IInv, SignInsOK, SignInLandsWhereItBegan
<1> QED BY <1>1, SpecIInv, PTL
=============================================================================

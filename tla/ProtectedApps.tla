---------------------------- MODULE ProtectedApps ----------------------------
(***************************************************************************)
(* Protected apps: upstream services behind /app/{slug}/ that a browser    *)
(* reaches with a session and a script with an app token.  A sign-in       *)
(* crosses three redirects: the login leaves a nonce in a cookie and the   *)
(* app's id in the state parameter, the provider hands out a code, and the *)
(* callback checks, exchanges and makes a session.  Meanwhile operators    *)
(* create, change and delete apps, and their slugs change hands.           *)
(*                                                                         *)
(* One browser with any number of tabs; calls of its tabs, of scripts and  *)
(* of operators interleave on all replicas, which share the tables.  Each  *)
(* statement is an action, but for lookups whose result alone decides what *)
(* comes next.  Any call may end early: refused by an IP rule or a limit,  *)
(* an error, a client that is gone.                                        *)
(*                                                                         *)
(* Abstracted: what is proxied and how it is rewritten; discovery of the   *)
(* provider's endpoints and its settings, which may fail; claims; last_used*)
(* columns, which nothing reads back.  Modes that ask for a credential     *)
(* differ in their answer without one, not in what they let through.       *)
(***************************************************************************)
EXTENDS Naturals, FiniteSets

CONSTANTS
    Apps,           \* app ids
    Slugs,
    SignIns,        \* each has a nonce, a code and at most one session
    Tokens,         \* app tokens
    Slots,          \* concurrent calls
    None, Gone, Idle

RequestPlaces == {"request", "auth", "forward"}
OtherPlaces == {"callback", "exchange", "store", "logout", "revoke", "clear", "tokens", "row"}

Call == [at: RequestPlaces \cup OtherPlaces, slug: Slugs \cup {None}, cred: SignIns \cup Tokens \cup {None},
         sent: SUBSET SignIns, app: Apps \cup {None}, open: BOOLEAN,
         over: SUBSET (Apps \cup SignIns \cup Tokens)]

Row == [slug: Slugs, open: BOOLEAN]
\* To every reader a revoked, an expired and a deleted row are the same.
States == {"none", "live", "ended"}

ASSUME ProtectedAppsAssumption ==
    /\ None \notin Apps \cup Slugs \cup SignIns \cup Tokens \cup Row
    /\ Gone \notin Row \cup {None}
    /\ Idle \notin Call
    /\ SignIns \cap Tokens = {} /\ Apps \cap (SignIns \cup Tokens) = {}

VARIABLES
    app,         \* protected_apps: a row, None before it is created, Gone after it is deleted
    session,     \* app_sessions: the app and the state of the session of each sign-in
    token,       \* app_tokens
    signin,      \* what the redirect to the provider carries, and how far the user came there
    nonces,      \* nonce cookies of the browser, one per app and slug
    cookies,     \* session cookies of the browser, one per app and slug
    call         \* per slot: the call under way

vars == <<app, session, token, signin, nonces, cookies, call>>

Init ==
    /\ app = [a \in Apps |-> None]
    /\ session = [n \in SignIns |-> [app |-> None, state |-> "none"]]
    /\ token = [t \in Tokens |-> [app |-> None, state |-> "none"]]
    /\ signin = [n \in SignIns |-> [app |-> None, slug |-> None, at |-> "none"]]
    /\ nonces = {}
    /\ cookies = {}
    /\ call = [c \in Slots |-> Idle]

At(c, place) == call[c] # Idle /\ call[c].at = place

End(c) == call' = [call EXCEPT ![c] = Idle]

Exists(a) == app[a] \notin {None, Gone}

\* GetProtectedAppBySlug; slug is UNIQUE.
Serves(a, s) == Exists(a) /\ app[a].slug = s

\* The app, session or token is over: a call that starts now must not be served with it.
Over ==
    {a \in Apps : app[a] = Gone}
      \cup {n \in SignIns : session[n].state = "ended"}
      \cup {t \in Tokens : token[t].state = "ended"}

Blank == [at |-> "request", slug |-> None, cred |-> None, sent |-> {}, app |-> None,
          open |-> FALSE, over |-> {}]

-----------------------------------------------------------------------------
(* Cookies.  Their names hold the app's id, their path the slug.           *)

NoncesAt(s) == {n \in nonces : signin[n].slug = s}

NonceOf(a, s) == {n \in NoncesAt(s) : signin[n].app = a}

CookiesAt(s) == {n \in cookies : signin[n].slug = s}

CookieOf(a, s) == {n \in CookiesAt(s) : session[n].app = a}

-----------------------------------------------------------------------------
(* handleApp.                                                              *)

\* A request arrives, with a bearer token or with the cookies the browser has for its path.
Request(c, s, t) ==
    /\ call[c] = Idle
    /\ t # None => token[t].state # "none"
    /\ call' = [call EXCEPT ![c] = [Blank EXCEPT !.slug = s, !.cred = t, !.over = Over,
                                                 !.sent = IF t = None THEN CookiesAt(s) ELSE {}]]
    /\ UNCHANGED <<app, session, token, signin, nonces, cookies>>

LookupApp(c, a) ==
    /\ At(c, "request")
    /\ Serves(a, call[c].slug)
    /\ call' = [call EXCEPT ![c].at = "auth", ![c].app = a, ![c].open = app[a].open]
    /\ UNCHANGED <<app, session, token, signin, nonces, cookies>>

MutAnyRow(row) == row.state # "none"

\* GetAppSessionByToken and ValidateAppToken: WHERE revoked = false, or active, and not expired.
Valid(row) == row.state = "live"

MutAnyApp(row, a) == Valid(row)

Admits(row, a) == Valid(row) /\ row.app = a

\* The cookie with the app's id in its name, or none.
Shown(c) == {n \in call[c].sent : session[n].app = call[c].app}

Pass(c, cred) ==
    /\ call' = [call EXCEPT ![c].at = "forward", ![c].cred = cred, ![c].sent = {}]
    /\ UNCHANGED <<app, session, token, signin, nonces, cookies>>

PassToken(c) ==
    /\ At(c, "auth")
    /\ call[c].cred # None
    /\ Admits(token[call[c].cred], call[c].app)
    /\ Pass(c, call[c].cred)

PassSession(c) ==
    /\ At(c, "auth")
    /\ call[c].cred = None
    /\ \E n \in Shown(c) : Admits(session[n], call[c].app) /\ Pass(c, n)

\* A cookie that is no longer good is not passed over.
PassOpen(c) ==
    /\ At(c, "auth")
    /\ call[c].cred = None
    /\ Shown(c) = {}
    /\ call[c].open
    /\ Pass(c, None)

\* An answer, a refusal, an error, or a client that is gone.
Stop(c) ==
    /\ call[c] # Idle
    /\ End(c)
    /\ UNCHANGED <<app, session, token, signin, nonces, cookies>>

-----------------------------------------------------------------------------
(* Signing in.                                                             *)

\* handleAppLogin: of an app in any mode.  The nonce replaces that of another tab.  That it
\* lasts ten minutes is in Stop: a callback without its nonce is refused.
Login(n, a, s) ==
    /\ signin[n].at = "none"
    /\ Serves(a, s)
    /\ signin' = [signin EXCEPT ![n] = [app |-> a, slug |-> s, at |-> "provider"]]
    /\ nonces' = (nonces \ NonceOf(a, s)) \cup {n}
    /\ UNCHANGED <<app, session, token, cookies, call>>

\* The provider sends the browser back, with a code or without, and perhaps the user reloads.
Callback(c, n) ==
    /\ call[c] = Idle
    /\ signin[n].at # "none"
    /\ call' = [call EXCEPT ![c] = [Blank EXCEPT !.at = "callback", !.slug = signin[n].slug,
                                                 !.cred = n, !.sent = NoncesAt(signin[n].slug)]]
    /\ UNCHANGED <<app, session, token, signin, nonces, cookies>>

MutNonceOnly(n, a, sent) == n \in sent

\* The state names the app, and the nonce in the app's cookie is the state's.
Matches(n, a, sent) == signin[n].app = a /\ n \in sent

CheckState(c, a) ==
    /\ At(c, "callback")
    /\ Serves(a, call[c].slug)
    /\ Matches(call[c].cred, a, call[c].sent)
    /\ call' = [call EXCEPT ![c].at = "exchange", ![c].app = a, ![c].sent = {}]
    /\ UNCHANGED <<app, session, token, signin, nonces, cookies>>

\* Every answer after the check clears the nonce cookie the browser has by then.
FailCallback(c) ==
    /\ At(c, "exchange") \/ At(c, "store")
    /\ nonces' = nonces \ NonceOf(call[c].app, call[c].slug)
    /\ End(c)
    /\ UNCHANGED <<app, session, token, signin, cookies>>

\* The provider takes its code once.
Exchange(c) ==
    /\ At(c, "exchange")
    /\ signin[call[c].cred].at = "provider"
    /\ signin' = [signin EXCEPT ![call[c].cred].at = "spent"]
    /\ call' = [call EXCEPT ![c].at = "store"]
    /\ UNCHANGED <<app, session, token, nonces, cookies>>


NewSession(c) == [app |-> call[c].app, state |-> "live"]

\* The answer with the cookies may not reach the browser.
CreateSession(c) ==
    LET n == call[c].cred
        a == call[c].app
        s == call[c].slug
    IN
    /\ At(c, "store")
    /\ session' = [session EXCEPT ![n] = NewSession(c)]
    /\ \/ nonces' = nonces \ NonceOf(a, s) /\ cookies' = (cookies \ CookieOf(a, s)) \cup {n}
       \/ UNCHANGED <<nonces, cookies>>
    /\ End(c)
    /\ UNCHANGED <<app, token, signin>>

\* handleAppLogout.
Logout(c, s) ==
    /\ call[c] = Idle
    /\ call' = [call EXCEPT ![c] = [Blank EXCEPT !.at = "logout", !.slug = s, !.sent = CookiesAt(s)]]
    /\ UNCHANGED <<app, session, token, signin, nonces, cookies>>

LookupLogout(c, a) ==
    /\ At(c, "logout")
    /\ Serves(a, call[c].slug)
    /\ call' = [call EXCEPT ![c].at = "revoke", ![c].app = a]
    /\ UNCHANGED <<app, session, token, signin, nonces, cookies>>

Ended(row) == IF row.state = "live" THEN [row EXCEPT !.state = "ended"] ELSE row

\* An error here is ignored.
RevokeOwn(c) ==
    /\ At(c, "revoke")
    /\ \/ session' = [n \in SignIns |-> IF n \in Shown(c) THEN Ended(session[n]) ELSE session[n]]
       \/ session' = session
    /\ call' = [call EXCEPT ![c].at = "clear", ![c].sent = {}]
    /\ UNCHANGED <<app, token, signin, nonces, cookies>>

ClearCookie(c) ==
    /\ At(c, "clear")
    /\ cookies' = cookies \ CookieOf(call[c].app, call[c].slug)
    /\ End(c)
    /\ UNCHANGED <<app, session, token, signin, nonces>>

-----------------------------------------------------------------------------
(* Operators.                                                              *)

Free(s) == \A a \in Apps : ~Serves(a, s)

CreateApp(a, s, open) ==
    /\ app[a] = None
    /\ Free(s)
    /\ app' = [app EXCEPT ![a] = [slug |-> s, open |-> open]]
    /\ UNCHANGED <<session, token, signin, nonces, cookies, call>>

UpdateApp(a, s, open) ==
    /\ Exists(a)
    /\ Free(s) \/ Serves(a, s)
    /\ app' = [app EXCEPT ![a] = [slug |-> s, open |-> open]]
    /\ UNCHANGED <<session, token, signin, nonces, cookies, call>>

Deleted(rows, a) ==
    [r \in DOMAIN rows |-> IF rows[r].app = a THEN [rows[r] EXCEPT !.state = "ended"] ELSE rows[r]]

\* DeleteProtectedApp: sessions, then tokens, then the row, of an app that is there or was.
DeleteSessions(c, a) ==
    /\ call[c] = Idle
    /\ app[a] # None
    /\ session' = Deleted(session, a)
    /\ call' = [call EXCEPT ![c] = [Blank EXCEPT !.at = "tokens", !.app = a]]
    /\ UNCHANGED <<app, token, signin, nonces, cookies>>

DeleteTokens(c) ==
    /\ At(c, "tokens")
    /\ token' = Deleted(token, call[c].app)
    /\ call' = [call EXCEPT ![c].at = "row"]
    /\ UNCHANGED <<app, session, signin, nonces, cookies>>

DeleteRow(c) ==
    /\ At(c, "row")
    /\ app' = [app EXCEPT ![call[c].app] = Gone]
    /\ End(c)
    /\ UNCHANGED <<session, token, signin, nonces, cookies>>

\* handleAppTokens does not ask whether the app is still there.
CreateToken(t, a) ==
    /\ token[t].state = "none"
    /\ app[a] # None
    /\ token' = [token EXCEPT ![t] = [app |-> a, state |-> "live"]]
    /\ UNCHANGED <<app, session, signin, nonces, cookies, call>>

\* DeleteAppToken, or the token expires.
EndToken(t) ==
    /\ token[t].state = "live"
    /\ token' = [token EXCEPT ![t] = Ended(token[t])]
    /\ UNCHANGED <<app, session, signin, nonces, cookies, call>>

\* RevokeAppSession by an operator, or the session expires, twelve hours after the sign-in.
EndSession(n) ==
    /\ session[n].state = "live"
    /\ session' = [session EXCEPT ![n] = Ended(session[n])]
    /\ UNCHANGED <<app, token, signin, nonces, cookies, call>>

-----------------------------------------------------------------------------
Visit(c) ==
    \/ \E s \in Slugs, t \in Tokens \cup {None} : Request(c, s, t)
    \/ \E a \in Apps : LookupApp(c, a)
    \/ PassToken(c) \/ PassSession(c) \/ PassOpen(c)
    \/ Stop(c)

Sign(c) ==
    \/ \E n \in SignIns : Callback(c, n)
    \/ \E a \in Apps : CheckState(c, a)
    \/ FailCallback(c) \/ Exchange(c) \/ CreateSession(c)
    \/ \E s \in Slugs : Logout(c, s)
    \/ \E a \in Apps : LookupLogout(c, a)
    \/ RevokeOwn(c) \/ ClearCookie(c)

Delete(c) ==
    \/ \E a \in Apps : DeleteSessions(c, a)
    \/ DeleteTokens(c) \/ DeleteRow(c)

Operate ==
    \/ \E a \in Apps, s \in Slugs, open \in BOOLEAN : CreateApp(a, s, open) \/ UpdateApp(a, s, open)
    \/ \E t \in Tokens, a \in Apps : CreateToken(t, a)
    \/ \E t \in Tokens : EndToken(t)
    \/ \E n \in SignIns : EndSession(n)

Next ==
    \/ \E c \in Slots : Visit(c) \/ Sign(c) \/ Delete(c)
    \/ Operate
    \/ \E n \in SignIns, a \in Apps, s \in Slugs : Login(n, a, s)

Spec == Init /\ [][Next]_vars

-----------------------------------------------------------------------------
TypeOK ==
    /\ app \in [Apps -> Row \cup {None, Gone}]
    /\ session \in [SignIns -> [app: Apps \cup {None}, state: States]]
    /\ token \in [Tokens -> [app: Apps \cup {None}, state: States]]
    /\ signin \in [SignIns -> [app: Apps \cup {None}, slug: Slugs \cup {None},
                               at: {"none", "provider", "spent"}]]
    /\ nonces \subseteq SignIns
    /\ cookies \subseteq SignIns
    /\ call \in [Slots -> Call \cup {Idle}]

\* "Active sessions can be revoked individually, immediately invalidating the user's proxy
\* access" (docs/wiki/Protected-Apps.md): a request is never forwarded with a session, a token
\* or an app that had ended when the request arrived, whoever ended it, and whatever a
\* deletion that stopped half-way or was overtaken by a callback left in the tables.
ServedInTime ==
    \A c \in Slots : At(c, "forward") => {call[c].cred, call[c].app} \cap call[c].over = {}

\* What a request is forwarded with was issued for the app whose upstream gets it, although
\* slugs change hands and a token is not looked up by app; without anything, the app was open.
ServedForItsApp ==
    \A c \in Slots : At(c, "forward") =>
        /\ call[c].cred \in SignIns => session[call[c].cred].app = call[c].app
        /\ call[c].cred \in Tokens => token[call[c].cred].app = call[c].app
        /\ call[c].cred = None => call[c].open

\* A session belongs to the app at which its sign-in began, whichever app has the slug when
\* the provider sends the browser back.
SignInLandsWhereItBegan ==
    \A n \in SignIns : session[n].state # "none" => session[n].app = signin[n].app
=============================================================================

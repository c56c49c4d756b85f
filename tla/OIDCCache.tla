------------------------------ MODULE OIDCCache ------------------------------
(***************************************************************************)
(* The console's cache of the sign-in provider's settings (lib/auth.ts),   *)
(* kept on globalThis by one Node.js process: the pages and API routes     *)
(* that ask for the settings, the fetches that refresh them, and the       *)
(* administrators who save them, and then have the cache dropped.          *)
(*                                                                         *)
(* JavaScript between two awaits is one action: a question to the cache,   *)
(* the callback of a fetch with the answers of all who awaited it, the     *)
(* drop.  The backend reads the settings at some moment of a fetch.        *)
(*                                                                         *)
(* Abstracted: what the settings consist of (NoConfig is a missing, a      *)
(* disabled or an incomplete record).  The expiry is kept as the ticks     *)
(* left until it.                                                          *)
(***************************************************************************)
EXTENDS Naturals, FiniteSets

CONSTANTS
    Settings,           \* complete, enabled provider settings
    BackendEnv,         \* what the backend answers without a record, from its environment
    FrontendEnv,        \* what the console uses without an answer, from its environment
    Visitors, Admins,   \* slots for requests that ask the cache, and for settings forms
    Fetches,            \* slots for fetches in flight
    Ttl,                \* OIDC_TTL_MS, in ticks
    MaxSaves,           \* bound: saves in a behaviour
    NoConfig, Nil

Configs == Settings \cup {BackendEnv, FrontendEnv, NoConfig}
Callers == Visitors \cup Admins

ASSUME CacheAssumption ==
    /\ NoConfig \notin Settings
    /\ Nil \notin Fetches \cup Admins
    /\ IsFiniteSet(Fetches)
    /\ Visitors \cap Admins = {}
    /\ Ttl \in Nat \ {0}
    /\ MaxSaves \in Nat

VARIABLES
    saved,      \* the record of the backend's database
    up,         \* the backend answers
    cache,      \* oidcCacheValue, ticks until oidcCacheExpiry, and whether its fetch failed
    pending,    \* oidcCachePending
    fetch,      \* the fetches in flight
    call,       \* where each caller is with getResolvedOIDC
    settingsForm,       \* where each administrator is with the settings form
    saves,
    reloads,    \* history: drops of the cache
    saver,      \* history: the administrator whose save was the last (Nil: the wizard)
    announced,  \* history: that save's own drop of the cache is done
    overlap     \* history: a fetch that read before the last save was in flight at its drop

cacheVars == <<saved, up, cache, pending, fetch, call>>
history == <<saves, reloads, saver, announced, overlap>>
allVars == <<cacheVars, settingsForm, history>>

NoFetch == [at |-> "free", result |-> NoConfig, failed |-> FALSE, old |-> FALSE]
NoCall  == [at |-> "idle", on |-> Nil, got |-> NoConfig, failed |-> FALSE, sure |-> FALSE]

CacheInit ==
    /\ saved \in Settings \cup {NoConfig}
    /\ up = TRUE
    /\ cache = [value |-> NoConfig, fresh |-> 0, failed |-> FALSE]
    /\ pending = Nil
    /\ fetch = [f \in Fetches |-> NoFetch]
    /\ call = [p \in Callers |-> NoCall]
    /\ settingsForm = [a \in Admins |-> "idle"]
    /\ saves = 0
    /\ reloads = 0
    /\ saver = Nil
    /\ announced = TRUE
    /\ overlap = FALSE

InFlight == {f \in Fetches : fetch[f].at # "free"}


\* resolveOIDCConfig: the record, else what the environments provide.
Provided(c) ==
    IF c # NoConfig THEN c ELSE IF BackendEnv # NoConfig THEN BackendEnv ELSE FrontendEnv

-----------------------------------------------------------------------------
(* getResolvedOIDC.                                                        *)

SettingsAnswer(c, value, failed) == [c EXCEPT !.at = "answered", !.on = Nil,
                                      !.got = value, !.failed = failed]


\* A refresh is under way that callers may share.
Joinable == pending # Nil

\* From the cache while it is fresh, else from the pending fetch, else from a new one.
AskSettings(p) ==
    LET asked == [NoCall EXCEPT !.at = "waiting", !.sure = announced] IN
    /\ call[p].at = "idle"
    /\ \/ /\ cache.fresh > 0
          /\ call' = [call EXCEPT ![p] = SettingsAnswer(asked, cache.value, cache.failed)]
          /\ UNCHANGED <<pending, fetch>>
       \/ /\ cache.fresh = 0 /\ Joinable
          /\ call' = [call EXCEPT ![p] = [asked EXCEPT !.on = pending]]
          /\ UNCHANGED <<pending, fetch>>
       \/ /\ cache.fresh = 0 /\ ~Joinable
          /\ \E f \in Fetches \ InFlight :
                /\ pending' = f
                /\ fetch' = [fetch EXCEPT ![f].at = "asked"]
                /\ call' = [call EXCEPT ![p] = [asked EXCEPT !.on = f]]
    /\ UNCHANGED <<saved, up, cache, history>>

\* handleInternalOIDCProviderConfig.
BackendReads(f) ==
    /\ fetch[f].at = "asked"
    /\ up
    /\ fetch' = [fetch EXCEPT ![f].at = "read", ![f].result = Provided(saved)]
    /\ UNCHANGED <<saved, up, cache, pending, call, settingsForm, history>>

\* No answer, or an error: fetchOIDCProviderConfig returns null, and raises nothing.
FetchFails(f) ==
    /\ fetch[f].at = "asked"
    /\ ~up
    /\ fetch' = [fetch EXCEPT ![f] = [at |-> "read", result |-> FrontendEnv,
                                      failed |-> TRUE, old |-> FALSE]]
    /\ UNCHANGED <<saved, up, cache, pending, call, settingsForm, history>>

MutNeverCleared(f) == pending

\* oidcCachePending = null, whichever fetch is pending now.
AfterSettle(f) == Nil

\* The callback of a fetch stores its result, and everyone who awaited it resumes.
Settle(f) ==
    LET r == fetch[f] IN
    /\ r.at = "read"
    /\ cache' = [value |-> r.result, fresh |-> Ttl, failed |-> r.failed]
    /\ pending' = AfterSettle(f)
    /\ fetch' = [fetch EXCEPT ![f] = NoFetch]
    /\ call' = [p \in Callers |->
                  IF call[p].on = f THEN SettingsAnswer(call[p], r.result, r.failed) ELSE call[p]]
    /\ UNCHANGED <<saved, up, settingsForm, history>>

-----------------------------------------------------------------------------
(* Requests, forms, and the environment.                                   *)

Visit(v) == AskSettings(v) /\ UNCHANGED settingsForm

Leave(p) ==
    /\ call[p].at = "answered"
    /\ call' = [call EXCEPT ![p] = NoCall]

Respond(v) ==
    /\ Leave(v)
    /\ UNCHANGED <<saved, up, cache, pending, fetch, settingsForm, history>>

\* PUT /api/admin/settings/oidc asks the cache too, for the administrator's session, ...
SubmitForm(a) ==
    /\ settingsForm[a] = "idle"
    /\ saves < MaxSaves
    /\ AskSettings(a)
    /\ settingsForm' = [settingsForm EXCEPT ![a] = "saving"]

\* History: what was read, or asked, before a save is not what it announces.
Outdated(by) ==
    /\ saves' = saves + 1
    /\ saver' = by
    /\ announced' = FALSE
    /\ overlap' = FALSE
    /\ fetch' = [f \in Fetches |->
                    IF fetch[f].at = "read" /\ ~fetch[f].failed
                    THEN [fetch[f] EXCEPT !.old = TRUE] ELSE fetch[f]]

\* ... and then the backend stores the record.
SaveSettings(a, c) ==
    /\ settingsForm[a] = "saving"
    /\ call[a].at = "answered"
    /\ up
    /\ saves < MaxSaves
    /\ saved' = c
    /\ Outdated(a)
    /\ call' = [p \in Callers |-> IF p = a THEN NoCall ELSE [call[p] EXCEPT !.sure = FALSE]]
    /\ settingsForm' = [settingsForm EXCEPT ![a] = "saved"]
    /\ UNCHANGED <<up, cache, pending, reloads>>

\* The setup wizard stores the record without a session, and drops nothing.
CompleteSetup(c) ==
    /\ saves = 0 /\ saved = NoConfig
    /\ up
    /\ saves < MaxSaves
    /\ saved' = c
    /\ Outdated(Nil)
    /\ call' = [p \in Callers |-> [call[p] EXCEPT !.sure = FALSE]]
    /\ UNCHANGED <<up, cache, pending, settingsForm, reloads>>

\* The form then posts the reload, whose route asks the cache for the session, ...
RequestReload(a) ==
    /\ settingsForm[a] = "saved"
    /\ AskSettings(a)
    /\ settingsForm' = [settingsForm EXCEPT ![a] = "reloading"]

MutBustPendingOnly == cache

\* oidcCacheExpiry = 0.
Busted == [cache EXCEPT !.fresh = 0]

\* ... awaits more, and calls bustOIDCCache.
Reload(a) ==
    /\ settingsForm[a] = "reloading"
    /\ Leave(a)
    /\ cache' = Busted
    /\ pending' = Nil
    /\ settingsForm' = [settingsForm EXCEPT ![a] = "idle"]
    /\ reloads' = reloads + 1
    /\ announced' = (announced \/ saver = a)
    /\ overlap' = IF saver = a THEN \E f \in Fetches : fetch[f].old ELSE overlap
    /\ UNCHANGED <<saved, up, fetch, saves, saver>>

\* The save failed, or the reload is lost: the form does not look at it.
AbandonForm(a) ==
    \/ /\ settingsForm[a] = "saved"
       /\ settingsForm' = [settingsForm EXCEPT ![a] = "idle"]
       /\ UNCHANGED <<cacheVars, history>>
    \/ /\ settingsForm[a] \in {"saving", "reloading"}
       /\ Leave(a)
       /\ settingsForm' = [settingsForm EXCEPT ![a] = "idle"]
       /\ UNCHANGED <<saved, up, cache, pending, fetch, history>>

Tick ==
    /\ cache.fresh > 0
    /\ cache' = [cache EXCEPT !.fresh = @ - 1]
    /\ UNCHANGED <<saved, up, pending, fetch, call, settingsForm, history>>

Toggle ==
    /\ up' = ~up
    /\ UNCHANGED <<saved, cache, pending, fetch, call, settingsForm, history>>

CacheNext ==
    \/ \E v \in Visitors : Visit(v) \/ Respond(v)
    \/ \E f \in Fetches : BackendReads(f) \/ FetchFails(f) \/ Settle(f)
    \/ \E a \in Admins :
        \/ SubmitForm(a) \/ RequestReload(a) \/ Reload(a) \/ AbandonForm(a)
        \/ \E c \in Settings \cup {NoConfig} : SaveSettings(a, c)
    \/ \E c \in Settings : CompleteSetup(c)
    \/ Tick \/ Toggle

CacheSpec == CacheInit /\ [][CacheNext]_allVars

\* Time passes, fetches end (a read or an error, then the callback), and pages, each of
\* which asks for a session, keep being requested.
FairSpec ==
    /\ CacheSpec
    /\ WF_allVars(Tick)
    /\ \A f \in Fetches : WF_allVars(BackendReads(f) \/ FetchFails(f)) /\ WF_allVars(Settle(f))
    /\ \A v \in Visitors : WF_allVars(Visit(v)) /\ WF_allVars(Respond(v))

-----------------------------------------------------------------------------
CacheTypeOK ==
    /\ saved \in Settings \cup {NoConfig}
    /\ up \in BOOLEAN
    /\ cache \in [value: Configs, fresh: 0..Ttl, failed: BOOLEAN]
    /\ pending \in Fetches \cup {Nil}
    /\ fetch \in [Fetches -> [at: {"free", "asked", "read"}, result: Configs,
                              failed: BOOLEAN, old: BOOLEAN]]
    /\ call \in [Callers -> [at: {"idle", "waiting", "answered"}, on: Fetches \cup {Nil},
                             got: Configs, failed: BOOLEAN, sure: BOOLEAN]]
    /\ settingsForm \in [Admins -> {"idle", "saving", "saved", "reloading"}]
    /\ saves \in 0..MaxSaves
    /\ reloads \in Nat
    /\ saver \in Admins \cup {Nil}
    /\ announced \in BOOLEAN
    /\ overlap \in BOOLEAN

\* "Deduplicate concurrent refreshes": callers share one fetch, and only a drop of the
\* cache while a fetch is in flight adds another; the callback of an older fetch, which
\* forgets the newer one, does not.
OneFetchPerReload == Cardinality(InFlight) <= 1 + reloads

\* Whoever asks after the drop that followed the last save gets the saved settings, or the
\* environment's if the backend failed, unless a fetch that had read before the save was
\* still in flight at the drop.
StaleOnlyByOverlap ==
    \A p \in Callers :
        call[p].at = "answered" /\ call[p].sure /\ ~call[p].failed /\ ~overlap
            => call[p].got = Provided(saved)

\* "Changes [...] take effect without requiring a service restart": once the settings stay
\* and the backend answers, the cache holds them for good, reload or no reload.
SettingsTakeEffect ==
    \A c \in Settings \cup {NoConfig} :
        <>[](saved = c /\ up) => <>[](cache.value = Provided(c) /\ ~cache.failed)
=============================================================================

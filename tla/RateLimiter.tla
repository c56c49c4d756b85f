---------------------------- MODULE RateLimiter ----------------------------
(***************************************************************************)
(* The in-memory token buckets (rate_limiter.go) as handleProxy uses them: *)
(* a request reads its route's and its token's limits from the records it  *)
(* looked up, picks the bucket key, and calls Allow some time later.       *)
(* Operators change limits in between.                                     *)
(*                                                                         *)
(* Tokens are counted in fractions: Unit of them make one request, and a   *)
(* bucket of rpm gains rpm fractions per tick, so Unit ticks are a minute. *)
(* The code's float64 arithmetic is taken as exact.  lastRefill is kept as *)
(* the ticks since then, and stops growing when the bucket would be full:  *)
(* more waiting adds nothing.                                              *)
(***************************************************************************)
EXTENDS Integers

CONSTANTS
    Routes, Tokens,
    AnyRoute,         \* the route part of a key "token:<id>"
    Limits,           \* the settings an operator may give a route or a token
    Unit,             \* fractions in one request, ticks in one minute
    Calls,            \* slots for concurrent requests
    MaxWindow,        \* bound: the longest window observed, in ticks
    NoBucket, NoCall

Bucket == [tokens: Nat, maxTokens: Nat, refillRate: Nat, idle: Nat]

ASSUME LimiterAssumption ==
    /\ Limits \subseteq [rpm: Nat, burst: Nat]
    /\ Limits # {}
    /\ Unit \in Nat \ {0}
    /\ MaxWindow \in Nat
    /\ AnyRoute \notin Routes
    /\ NoBucket \notin Bucket

Keys == (Routes \cup {AnyRoute}) \X Tokens

VARIABLES
    routeLimit, tokenLimit,   \* the rows' rate_limit_rpm and rate_limit_burst
    call,                     \* per slot: the key and the limit a request will ask with
    bucket,                   \* rl.buckets
    window                    \* history: requests admitted per key since some moment

limiterVars == <<routeLimit, tokenLimit, call, bucket, window>>

Call == [key: Keys, limit: [rpm: Nat, burst: Nat]]

LimiterInit ==
    /\ routeLimit \in [Routes -> Limits]
    /\ tokenLimit \in [Tokens -> Limits]
    /\ call = [c \in Calls |-> NoCall]
    /\ bucket = [k \in Keys |-> NoBucket]
    /\ window = [on |-> FALSE, elapsed |-> 0, admitted |-> [k \in Keys |-> 0]]

(***************************************************************************)
(* handleProxy: the route's limit comes first, the token's when the route  *)
(* has none, and a route's bucket is kept per token.                       *)
(***************************************************************************)
Chosen(r, t) ==
    IF routeLimit[r].rpm = 0 /\ tokenLimit[t].rpm > 0
    THEN [key |-> <<AnyRoute, t>>, limit |-> tokenLimit[t]]
    ELSE [key |-> <<r, t>>, limit |-> routeLimit[r]]

\* A request with its records in hand.  One without a limit never asks the limiter.
Arrive(c, r, t) ==
    /\ call[c] = NoCall
    /\ Chosen(r, t).limit.rpm > 0
    /\ call' = [call EXCEPT ![c] = Chosen(r, t)]
    /\ UNCHANGED <<routeLimit, tokenLimit, bucket, window>>

(***************************************************************************)
(* Allow, under rl.mu.                                                     *)
(***************************************************************************)
Least(a, b) == IF a <= b THEN a ELSE b
Greatest(a, b) == IF a >= b THEN a ELSE b

\* burst <= 0 asks for a tenth of the rate, and at least one request.
EffectiveBurst(limit) ==
    IF limit.burst > 0 THEN limit.burst ELSE Greatest(1, limit.rpm \div 10)

NewBucket(limit) ==
    [tokens |-> Unit * EffectiveBurst(limit), maxTokens |-> Unit * EffectiveBurst(limit),
     refillRate |-> limit.rpm, idle |-> 0]

Level(b) == Least(b.maxTokens, b.tokens + b.idle * b.refillRate)

\* Mutants, for the checks that a property notices a bug in the code.
MutRefillOverflows(b) == [b EXCEPT !.tokens = @ + b.idle * b.refillRate, !.idle = 0]
MutRefillWholeRequests(b) ==
    [b EXCEPT !.tokens = Least(b.maxTokens, @ + Unit * ((b.idle * b.refillRate) \div Unit)),
              !.idle = 0]

Refilled(b) == [b EXCEPT !.tokens = Level(b), !.idle = 0]

Found(q) == IF bucket[q.key] = NoBucket THEN NewBucket(q.limit) ELSE bucket[q.key]


Spent(b) == [b EXCEPT !.tokens = @ - Unit]

Admit(c) ==
    LET q == call[c]
        b == Refilled(Found(q))
    IN  /\ q # NoCall
        /\ b.tokens >= Unit
        /\ bucket' = [bucket EXCEPT ![q.key] = Spent(b)]
        /\ window' = IF window.on
                     THEN [window EXCEPT !.admitted[q.key] = @ + 1]
                     ELSE window
        /\ call' = [call EXCEPT ![c] = NoCall]
        /\ UNCHANGED <<routeLimit, tokenLimit>>

\* 429: the refill is kept, no token is taken.
Reject(c) ==
    LET q == call[c]
        b == Refilled(Found(q))
    IN  /\ q # NoCall
        /\ b.tokens < Unit
        /\ bucket' = [bucket EXCEPT ![q.key] = b]
        /\ call' = [call EXCEPT ![c] = NoCall]
        /\ UNCHANGED <<routeLimit, tokenLimit, window>>

(***************************************************************************)
(* Operators, the clock, and the observer.                                 *)
(***************************************************************************)
UpdateRoute(r, l) ==
    /\ routeLimit[r] # l
    /\ routeLimit' = [routeLimit EXCEPT ![r] = l]
    /\ UNCHANGED <<tokenLimit, call, bucket, window>>

Waits(b) == [b EXCEPT !.idle = IF Level(b) = b.maxTokens THEN @ ELSE @ + 1]

NoWindow == [on |-> FALSE, elapsed |-> 0, admitted |-> [k \in Keys |-> 0]]

LimiterTick ==
    /\ bucket' = [k \in Keys |-> IF bucket[k] = NoBucket THEN NoBucket ELSE Waits(bucket[k])]
    /\ window' = IF window.on /\ window.elapsed < MaxWindow
                 THEN [window EXCEPT !.elapsed = @ + 1]
                 ELSE NoWindow
    /\ UNCHANGED <<routeLimit, tokenLimit, call>>

\* An observer starts counting, at any moment.
StartWindow ==
    /\ ~window.on
    /\ window' = [NoWindow EXCEPT !.on = TRUE]
    /\ UNCHANGED <<routeLimit, tokenLimit, call, bucket>>

LimiterNext ==
    \/ \E c \in Calls, r \in Routes, t \in Tokens : Arrive(c, r, t)
    \/ \E c \in Calls : Admit(c) \/ Reject(c)
    \/ \E r \in Routes, l \in Limits : UpdateRoute(r, l)
    \/ LimiterTick
    \/ StartWindow

LimiterSpec == LimiterInit /\ [][LimiterNext]_limiterVars

\* Time passes whatever the clients do.
LimiterFairSpec == LimiterSpec /\ WF_limiterVars(LimiterTick)

-----------------------------------------------------------------------------
LimiterTypeOK ==
    /\ routeLimit \in [Routes -> Limits]
    /\ tokenLimit \in [Tokens -> Limits]
    /\ call \in [Calls -> Call \cup {NoCall}]
    /\ bucket \in [Keys -> Bucket \cup {NoBucket}]
    /\ window \in [on: BOOLEAN, elapsed: 0..MaxWindow, admitted: [Keys -> Nat]]

\* The promise of a token bucket: in a window of any length, starting at any moment, a
\* key is admitted at most its burst and what its rate earns in that time, whatever the
\* order of calls, waits, rejections and changes of settings.
WindowBound ==
    \A k \in Keys :
        IF bucket[k] = NoBucket
        THEN window.admitted[k] = 0
        ELSE Unit * window.admitted[k]
                <= bucket[k].maxTokens + window.elapsed * bucket[k].refillRate

\* A throttled key earns its next request however often its client retries: rejected
\* calls move lastRefill without losing the fraction earned so far.
ThrottledRecovers ==
    \A k \in Keys :
        (bucket[k] # NoBucket /\ Level(bucket[k]) < Unit)
            ~> (bucket[k] # NoBucket /\ Level(bucket[k]) >= Unit)
=============================================================================

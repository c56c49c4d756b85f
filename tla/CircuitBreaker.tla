--------------------------- MODULE CircuitBreaker ---------------------------
(***************************************************************************)
(* The circuit breaker of one route (circuit_breaker.go): the in-memory    *)
(* record, its row in circuit_breakers, the proxied requests that consult  *)
(* and update it, the operators that force it, and the restart that loads  *)
(* it back.  Routes share nothing but the manager's mutex, so one route is *)
(* the whole story.                                                        *)
(*                                                                         *)
(* Every critical section under circuitBreakerManager.mu is one action.    *)
(* AllowRequest reads the record after it has released the lock, so its    *)
(* reads are actions of their own.  A snapshot taken by persistAsync is    *)
(* written by a goroutine at any later time, in any order.                 *)
(*                                                                         *)
(* Data abstraction.  openedAt is kept as an age that saturates once the   *)
(* open period is over, and failureCount saturates at the threshold: the   *)
(* code only asks "age > cbOpenDuration" and "count >= threshold".  The    *)
(* other timestamps are never read back.                                   *)
(***************************************************************************)
EXTENDS Naturals

CONSTANTS
    Requests,         \* slots for concurrent proxied requests
    Admins,           \* slots for concurrent operator calls
    Threshold,        \* cbFailureThreshold
    OpenDuration,     \* cbOpenDuration, in ticks
    MaxRestarts,      \* bound: restarts of the process in a behaviour
    NoBreaker         \* no entry in the map / no row / no snapshot

Closed   == "closed"
Open     == "open"
HalfOpen == "half_open"
States   == {Closed, Open, HalfOpen}

Expired == OpenDuration + 1

Breaker == [state: States, failureCount: 0..Threshold, age: 0..Expired, locked: BOOLEAN]

ASSUME BreakerAssumption ==
    /\ Threshold \in Nat \ {0}
    /\ OpenDuration \in Nat
    /\ MaxRestarts \in Nat
    /\ Requests \cap Admins = {}
    /\ NoBreaker \notin Breaker

VARIABLES
    cb,         \* m.breakers[routeID], or NoBreaker
    row,        \* its row in the table, or NoBreaker
    pc,         \* where each request and each operator call is
    seen,       \* the state field at a request's lookup (Closed when it is not reading)
    snap,       \* the record a request or an operator call still has to write
    restarts

vars == <<cb, row, pc, seen, snap, restarts>>

Procs == Requests \cup Admins

Init ==
    /\ cb = NoBreaker
    /\ row = NoBreaker
    /\ pc = [p \in Procs |-> "idle"]
    /\ seen = [r \in Requests |-> Closed]
    /\ snap = [p \in Procs |-> NoBreaker]
    /\ restarts = 0

Goto(p, l) == pc' = [pc EXCEPT ![p] = l]

(***************************************************************************)
(* AllowRequest, called by handleProxy for an authenticated request.       *)
(***************************************************************************)

\* The map lookup under RLock.  Without an entry the request is allowed.
Lookup(r) ==
    /\ pc[r] = "idle"
    /\ Goto(r, IF cb = NoBreaker THEN "allowed" ELSE "lookedUp")
    /\ seen' = [seen EXCEPT ![r] = IF cb = NoBreaker THEN Closed ELSE cb.state]
    /\ UNCHANGED <<cb, row, snap, restarts>>

\* switch cb.state, read without the lock.
ReadState(r) ==
    /\ pc[r] = "lookedUp"
    /\ Goto(r, IF cb.state = Open THEN "sawOpen" ELSE "allowed")
    /\ seen' = [seen EXCEPT ![r] = Closed]
    /\ UNCHANGED <<cb, row, snap, restarts>>

\* The same read torn by a concurrent write: a Go string is a pointer and a
\* length, and a mix of two states matches no case, so the default branch allows.
ReadTornState(r) ==
    /\ pc[r] = "lookedUp"
    /\ cb.state # seen[r]
    /\ Goto(r, "allowed")
    /\ seen' = [seen EXCEPT ![r] = Closed]
    /\ UNCHANGED <<cb, row, snap, restarts>>

MutNeverOver(b) == b.locked /\ b.age > OpenDuration

OpenPeriodOver(b) == ~b.locked /\ b.age > OpenDuration

\* !cb.locked && time.Since(cb.openedAt) > cbOpenDuration, still without the lock.
CheckElapsed(r) ==
    /\ pc[r] = "sawOpen"
    /\ Goto(r, IF OpenPeriodOver(cb) THEN "toHalfOpen" ELSE "idle")
    /\ UNCHANGED <<cb, row, seen, snap, restarts>>

\* The critical section that follows: it does not look at the record again.
EnterHalfOpen(r) ==
    /\ pc[r] = "toHalfOpen"
    /\ cb' = [cb EXCEPT !.state = HalfOpen]
    /\ Goto(r, "allowed")
    /\ UNCHANGED <<row, seen, snap, restarts>>

(***************************************************************************)
(* The outcome of an allowed request.                                      *)
(***************************************************************************)

\* The rate limiter or an unparsable upstream ends the request: no outcome is recorded.
LeaveUnrecorded(r) ==
    /\ pc[r] = "allowed"
    /\ Goto(r, "idle")
    /\ UNCHANGED <<cb, row, seen, snap, restarts>>

\* Mutants, for the checks that a property notices a bug in the code.
MutAnySuccessCloses(b) == [b EXCEPT !.state = Closed, !.failureCount = 0]
MutSuccessIgnoresLock(b) ==
    IF b.state = HalfOpen THEN [b EXCEPT !.state = Closed, !.failureCount = 0] ELSE b
MutSuccessKeepsCount(b) ==
    IF b.state = HalfOpen /\ ~b.locked THEN [b EXCEPT !.state = Closed] ELSE b

AfterSuccess(b) ==
    IF b.state = HalfOpen /\ ~b.locked
    THEN [b EXCEPT !.state = Closed, !.failureCount = 0]
    ELSE b

RecordSuccess(r) ==
    /\ pc[r] = "allowed"
    /\ IF cb = NoBreaker
       THEN Goto(r, "idle") /\ UNCHANGED <<cb, snap>>
       ELSE /\ cb' = AfterSuccess(cb)
            /\ snap' = [snap EXCEPT ![r] = cb']
            /\ Goto(r, "persisting")
    /\ UNCHANGED <<row, seen, restarts>>

NewBreaker == [state |-> Closed, failureCount |-> 0, age |-> Expired, locked |-> FALSE]

Current == IF cb = NoBreaker THEN NewBreaker ELSE cb


Counted(b) == [b EXCEPT !.failureCount = IF @ < Threshold THEN @ + 1 ELSE @]

MutReopenUnlocks(b) == [b EXCEPT !.state = Open, !.age = 0, !.locked = FALSE]

Reopened(b) == [b EXCEPT !.state = Open, !.age = 0]

AfterFailure(b) ==
    IF b.state = HalfOpen \/ Counted(b).failureCount >= Threshold
    THEN Reopened(Counted(b))
    ELSE Counted(b)

RecordFailure(r) ==
    /\ pc[r] = "allowed"
    /\ cb' = AfterFailure(Current)
    /\ snap' = [snap EXCEPT ![r] = cb']
    /\ Goto(r, "persisting")
    /\ UNCHANGED <<row, seen, restarts>>

(***************************************************************************)
(* ForceState, called by handleCircuitBreakerByID.                         *)
(***************************************************************************)
Forced(b, s) ==
    CASE s = Closed   -> [b EXCEPT !.state = s, !.failureCount = 0, !.locked = FALSE]
      [] s = Open     -> [b EXCEPT !.state = s, !.age = 0, !.locked = TRUE]
      [] s = HalfOpen -> [b EXCEPT !.state = s, !.locked = FALSE]

ForceState(a, s) ==
    /\ pc[a] = "idle"
    /\ cb' = Forced(Current, s)
    /\ snap' = [snap EXCEPT ![a] = cb']
    /\ Goto(a, "persisting")
    /\ UNCHANGED <<row, seen, restarts>>

\* The synchronous write, then the 200 response.
ForcePersist(a) ==
    /\ pc[a] = "persisting"
    /\ row' = snap[a]
    /\ snap' = [snap EXCEPT ![a] = NoBreaker]
    /\ Goto(a, "idle")
    /\ UNCHANGED <<cb, seen, restarts>>

\* The upsert that a goroutine of persistAsync runs: the whole row, last writer wins.
PersistAsync(r) ==
    /\ pc[r] = "persisting"
    /\ row' = snap[r]
    /\ snap' = [snap EXCEPT ![r] = NoBreaker]
    /\ Goto(r, "idle")
    /\ UNCHANGED <<cb, seen, restarts>>

\* Either write fails: the goroutine logs, the operator gets a 500, the memory stays changed.
PersistFails(p) ==
    /\ pc[p] = "persisting"
    /\ snap' = [snap EXCEPT ![p] = NoBreaker]
    /\ Goto(p, "idle")
    /\ UNCHANGED <<cb, row, seen, restarts>>

(***************************************************************************)
(* The clock and the process.                                              *)
(***************************************************************************)
Aged(b) ==
    IF b = NoBreaker \/ b.age = Expired THEN b ELSE [b EXCEPT !.age = @ + 1]

\* One tick of the clock: every openedAt, in memory or written down, gets older.
Tick ==
    /\ cb' = Aged(cb)
    /\ row' = Aged(row)
    /\ snap' = [p \in Procs |-> Aged(snap[p])]
    /\ UNCHANGED <<pc, seen, restarts>>

\* The process stops: requests, goroutines and memory are gone.  NewService then
\* runs LoadFromStore; when the read fails it starts with an empty map.
Restart(loads) ==
    /\ restarts < MaxRestarts
    /\ restarts' = restarts + 1
    /\ cb' = IF loads THEN row ELSE NoBreaker
    /\ pc' = [p \in Procs |-> "idle"]
    /\ seen' = [r \in Requests |-> Closed]
    /\ snap' = [p \in Procs |-> NoBreaker]
    /\ UNCHANGED row

AllowRequest(r) ==
    Lookup(r) \/ ReadState(r) \/ ReadTornState(r) \/ CheckElapsed(r) \/ EnterHalfOpen(r)

Outcome(r) == LeaveUnrecorded(r) \/ RecordSuccess(r) \/ RecordFailure(r)

Next ==
    \/ \E r \in Requests : AllowRequest(r) \/ Outcome(r) \/ PersistAsync(r)
    \/ \E a \in Admins : (\E s \in States : ForceState(a, s)) \/ ForcePersist(a)
    \/ \E p \in Procs : PersistFails(p)
    \/ \E loads \in BOOLEAN : Restart(loads)
    \/ Tick

Spec == Init /\ [][Next]_vars

(***************************************************************************)
(* Fairness: clients keep sending requests, a handler or goroutine that    *)
(* runs goes on running, an upstream call ends (the transport has          *)
(* timeouts), and time passes.  Operators and restarts are never forced.   *)
(***************************************************************************)
Fairness ==
    /\ \A r \in Requests : WF_vars(AllowRequest(r) \/ Outcome(r) \/ PersistAsync(r))
    /\ WF_vars(Tick)

FairSpec == Spec /\ Fairness

-----------------------------------------------------------------------------
Records == {cb, row} \cup {snap[p] : p \in Procs}

TypeOK ==
    /\ cb \in Breaker \cup {NoBreaker}
    /\ row \in Breaker \cup {NoBreaker}
    /\ pc \in [Procs -> {"idle", "lookedUp", "sawOpen", "toHalfOpen", "allowed", "persisting"}]
    /\ \A a \in Admins : pc[a] \in {"idle", "persisting"}
    /\ seen \in [Requests -> States]
    /\ snap \in [Procs -> Breaker \cup {NoBreaker}]
    /\ restarts \in 0..MaxRestarts

\* A closed breaker has failures to go, in memory, on its way to the database and in
\* it: whatever closed it started the count again, and no restart, stale write or
\* racing transition makes one that trips at the first failure or never.
ClosedBelowThreshold ==
    \A b \in Records \ {NoBreaker} : b.state = Closed => b.failureCount < Threshold

\* What an operator holds open is never closed by traffic, nor written or loaded as
\* closed: the lock is set with "open" and goes with the state in every copy.
HeldNeverClosed ==
    \A b \in Records \ {NoBreaker} : b.locked => b.state # Closed

\* Only an operator, or a restart that loads another row, takes the lock off: no
\* interleaving of requests in flight does (RecordFailure reopens, it does not unlock).
OnlyOperatorReleases ==
    [][cb # NoBreaker /\ cb.locked /\ (cb' = NoBreaker \/ ~cb'.locked)
       => \/ restarts' # restarts
          \/ \E a \in Admins : ForceState(a, Closed) \/ ForceState(a, HalfOpen)]_vars

\* The answer to a request that was admitted before the breaker opened comes back
\* late: it does not close the breaker.  Open goes to closed through half_open only.
OpenClosesThroughTrial ==
    [][cb # NoBreaker /\ cb' # NoBreaker /\ cb.state = Open /\ cb'.state = Closed
       => restarts' # restarts \/ \E a \in Admins : ForceState(a, Closed)]_vars

\* A breaker that traffic opened is tried again: it does not stay open for ever while
\* requests arrive, however often late failures start its open period anew.
OpenIsTriedAgain ==
    (cb # NoBreaker /\ cb.state = Open /\ ~cb.locked)
        ~> (cb = NoBreaker \/ cb.state # Open \/ cb.locked)
=============================================================================

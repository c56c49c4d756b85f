---------------------------- MODULE GatewayProofs -----------------------------
(***************************************************************************)
(* What a proxied request goes through: the circuit breaker and the rate   *)
(* limiter, each for every value of its constants.                         *)
(***************************************************************************)
EXTENDS CircuitBreaker, RateLimiter, TLAPS

(***************************************************************************)
(* What CircuitBreaker keeps for every number of requests, operators and   *)
(* restarts, every threshold and every open period.  One predicate on a    *)
(* record, Sound, is preserved by every operator that computes a record;   *)
(* the inductive invariant says every copy of the record satisfies it, and *)
(* that a request past its lookup, or a write, has a record to work on.    *)
(***************************************************************************)

Sound(b) ==
    /\ b \in Breaker
    /\ b.state = Closed => b.failureCount < Threshold
    /\ b.locked => b.state # Closed

Engaged == {"lookedUp", "sawOpen", "toHalfOpen", "persisting"}

IInv ==
    /\ TypeOK
    /\ cb # NoBreaker => Sound(cb)
    /\ row # NoBreaker => Sound(row)
    /\ \A p \in Procs : snap[p] # NoBreaker => Sound(snap[p])
    /\ \A p \in Procs : pc[p] \in Engaged => cb # NoBreaker
    /\ \A p \in Procs : pc[p] = "persisting" => snap[p] # NoBreaker

-----------------------------------------------------------------------------
(* The operators on one record. *)

\* A recovered or merely successful breaker is sound: closing resets the count.
LEMMA SuccessSound == ASSUME NEW b, Sound(b) PROVE Sound(AfterSuccess(b))
<1>1. CASE b.state = HalfOpen /\ ~b.locked
  <2>1. AfterSuccess(b) = [b EXCEPT !.state = Closed, !.failureCount = 0]
    BY <1>1 DEF AfterSuccess
  <2>2. 0 \in 0..Threshold /\ 0 < Threshold /\ Closed \in States
    BY BreakerAssumption DEF States
  <2> QED BY <1>1, <2>1, <2>2 DEF Sound, Breaker
<1>2. CASE ~(b.state = HalfOpen /\ ~b.locked)
  BY <1>2 DEF AfterSuccess
<1> QED BY <1>1, <1>2

\* A failure leaves a closed breaker below the threshold or opens it, and keeps the lock.
LEMMA FailureSound == ASSUME NEW b, Sound(b) PROVE Sound(AfterFailure(b))
<1>1. Counted(b) \in Breaker /\ Counted(b).state = b.state /\ Counted(b).locked = b.locked
  BY BreakerAssumption DEF Sound, Counted, Breaker
<1>2. CASE b.state = HalfOpen \/ Counted(b).failureCount >= Threshold
  <2>1. AfterFailure(b) = [Counted(b) EXCEPT !.state = Open, !.age = 0]
    BY <1>2 DEF AfterFailure, Reopened
  <2>2. 0 \in 0..Expired /\ Open \in States /\ Open # Closed
    BY BreakerAssumption DEF Expired, States, Open, Closed
  <2> QED BY <1>1, <2>1, <2>2 DEF Sound, Breaker
<1>3. CASE ~(b.state = HalfOpen \/ Counted(b).failureCount >= Threshold)
  <2>1. AfterFailure(b) = Counted(b)
    BY <1>3 DEF AfterFailure
  <2>2. Counted(b).failureCount < Threshold
    BY <1>1, <1>3, BreakerAssumption DEF Breaker
  <2> QED BY <1>1, <2>1, <2>2 DEF Sound
<1> QED BY <1>2, <1>3

\* The record a first failure or a first ForceState creates is sound.
LEMMA NewSound == Sound(NewBreaker)
  BY BreakerAssumption DEF Sound, NewBreaker, Breaker, States, Closed, Open, HalfOpen, Expired

\* An operator's state comes with the count and the lock that fit it.
LEMMA ForcedSound == ASSUME NEW b, Sound(b), NEW s \in States PROVE Sound(Forced(b, s))
<1>1. /\ 0 \in 0..Threshold /\ 0 < Threshold /\ 0 \in 0..Expired
      /\ Closed \in States /\ Open \in States /\ HalfOpen \in States
      /\ Closed # Open /\ Closed # HalfOpen /\ Open # HalfOpen
  BY BreakerAssumption DEF Expired, States, Closed, Open, HalfOpen
<1>2. CASE s = Closed
  <2>1. Forced(b, s) = [b EXCEPT !.state = Closed, !.failureCount = 0, !.locked = FALSE]
    BY <1>1, <1>2 DEF Forced
  <2> QED BY <1>1, <2>1 DEF Sound, Breaker
<1>3. CASE s = Open
  <2>1. Forced(b, s) = [b EXCEPT !.state = Open, !.age = 0, !.locked = TRUE]
    BY <1>1, <1>3 DEF Forced
  <2> QED BY <1>1, <2>1 DEF Sound, Breaker
<1>4. CASE s = HalfOpen
  <2>1. Forced(b, s) = [b EXCEPT !.state = HalfOpen, !.locked = FALSE]
    BY <1>1, <1>4 DEF Forced
  <2> QED BY <1>1, <2>1 DEF Sound, Breaker
<1> QED BY <1>2, <1>3, <1>4 DEF States

\* Time changes a record's age and nothing else.
LEMMA AgedSound ==
    ASSUME NEW b, b = NoBreaker \/ Sound(b)
    PROVE  /\ b = NoBreaker => Aged(b) = NoBreaker
           /\ b # NoBreaker => Aged(b) # NoBreaker /\ Sound(Aged(b))
<1>1. CASE b = NoBreaker BY <1>1 DEF Aged
<1>2. CASE b # NoBreaker /\ b.age = Expired BY <1>2 DEF Aged
<1>3. CASE b # NoBreaker /\ b.age # Expired
  <2>1. Aged(b) = [b EXCEPT !.age = b.age + 1]
    BY <1>3 DEF Aged
  <2>2. b.age + 1 \in 0..Expired
    BY <1>3, BreakerAssumption DEF Sound, Breaker, Expired
  <2>3. Sound(Aged(b))
    BY <1>3, <2>1, <2>2 DEF Sound, Breaker
  <2> QED BY <1>3, <2>3, BreakerAssumption DEF Sound
<1> QED BY <1>1, <1>2, <1>3

-----------------------------------------------------------------------------
LEMMA InitIInv == Init => IInv
<1> SUFFICES ASSUME Init PROVE IInv
  OBVIOUS
<1>1. TypeOK
  <2>1. pc \in [Procs -> {"idle"}] /\ snap \in [Procs -> {NoBreaker}]
    BY DEF Init
  <2>2. seen \in [Requests -> States] /\ \A a \in Admins : pc[a] = "idle"
    BY DEF Init, States, Procs
  <2>3. restarts \in 0..MaxRestarts
    BY BreakerAssumption DEF Init
  <2> QED BY <2>1, <2>2, <2>3 DEF Init, TypeOK
<1>2. \A p \in Procs : pc[p] = "idle" /\ snap[p] = NoBreaker
  BY DEF Init
<1> QED BY <1>1, <1>2 DEF Init, IInv, Engaged

LEMMA NextIInv == IInv /\ [Next]_vars => IInv'
<1> SUFFICES ASSUME IInv, [Next]_vars PROVE IInv'
  OBVIOUS
<1> USE DEF IInv, TypeOK, Procs, Goto, Engaged
<1>0. \A b : Sound(b) => b \in Breaker /\ b # NoBreaker
  BY BreakerAssumption DEF Sound
<1>1. Sound(Current)
  BY NewSound DEF Current
<1>2. ASSUME NEW r \in Requests, Lookup(r) PROVE IInv'
  BY <1>0, <1>2, BreakerAssumption DEF Lookup, Breaker, States, Closed
<1>3. ASSUME NEW r \in Requests, ReadState(r) PROVE IInv'
  BY <1>3, BreakerAssumption DEF ReadState, States
<1>4. ASSUME NEW r \in Requests, ReadTornState(r) PROVE IInv'
  BY <1>4, BreakerAssumption DEF ReadTornState, States
<1>5. ASSUME NEW r \in Requests, CheckElapsed(r) PROVE IInv'
  BY <1>5, BreakerAssumption DEF CheckElapsed
<1>6. ASSUME NEW r \in Requests, EnterHalfOpen(r) PROVE IInv'
  <2>1. cb # NoBreaker /\ Sound(cb)
    BY <1>6 DEF EnterHalfOpen
  <2>2. Sound(cb')
    BY <1>6, <2>1 DEF EnterHalfOpen, Sound, Breaker, States, HalfOpen, Closed
  <2> QED BY <1>0, <1>6, <2>2, BreakerAssumption DEF EnterHalfOpen
<1>7. ASSUME NEW r \in Requests, LeaveUnrecorded(r) PROVE IInv'
  BY <1>7, BreakerAssumption DEF LeaveUnrecorded
<1>8. ASSUME NEW r \in Requests, RecordSuccess(r) PROVE IInv'
  <2>1. CASE cb = NoBreaker
    BY <1>8, <2>1, BreakerAssumption DEF RecordSuccess
  <2>2. CASE cb # NoBreaker
    <3>1. Sound(cb')
      BY <1>8, <2>2, SuccessSound DEF RecordSuccess
    <3> QED BY <1>0, <1>8, <2>2, <3>1, BreakerAssumption DEF RecordSuccess
  <2> QED BY <2>1, <2>2
<1>9. ASSUME NEW r \in Requests, RecordFailure(r) PROVE IInv'
  <2>1. Sound(cb')
    BY <1>1, <1>9, FailureSound DEF RecordFailure
  <2> QED BY <1>0, <1>9, <2>1, BreakerAssumption DEF RecordFailure
<1>10. ASSUME NEW a \in Admins, NEW s \in States, ForceState(a, s) PROVE IInv'
  <2>1. Sound(cb')
    BY <1>1, <1>10, ForcedSound DEF ForceState
  <2> QED BY <1>0, <1>10, <2>1, BreakerAssumption DEF ForceState
<1>11. ASSUME NEW a \in Admins, ForcePersist(a) PROVE IInv'
  <2>1. snap[a] # NoBreaker /\ Sound(snap[a])
    BY <1>11 DEF ForcePersist
  <2>2. \A p \in Procs : pc'[p] \in Engaged => pc[p] \in Engaged
    BY <1>11 DEF ForcePersist
  <2> QED BY <1>11, <2>1, <2>2, BreakerAssumption DEF ForcePersist, Sound
<1>12. ASSUME NEW r \in Requests, PersistAsync(r) PROVE IInv'
  BY <1>12, BreakerAssumption DEF PersistAsync
<1>13. ASSUME NEW p \in Procs, PersistFails(p) PROVE IInv'
  BY <1>13, BreakerAssumption DEF PersistFails
<1>14. ASSUME Tick PROVE IInv'
  <2>1. \A p \in Procs : snap'[p] = Aged(snap[p])
    BY <1>14 DEF Tick
  <2>2. cb' \in Breaker \cup {NoBreaker} /\ (cb' # NoBreaker <=> cb # NoBreaker)
        /\ (cb' # NoBreaker => Sound(cb'))
    BY <1>0, <1>14, AgedSound DEF Tick
  <2>3. row' \in Breaker \cup {NoBreaker} /\ (row' # NoBreaker => Sound(row'))
    BY <1>0, <1>14, AgedSound DEF Tick
  <2>4. \A p \in Procs : /\ snap'[p] \in Breaker \cup {NoBreaker}
                         /\ snap'[p] # NoBreaker <=> snap[p] # NoBreaker
                         /\ snap'[p] # NoBreaker => Sound(snap'[p])
    BY <1>0, <2>1, AgedSound
  <2> QED BY <1>14, <2>2, <2>3, <2>4 DEF Tick
<1>15. ASSUME NEW loads \in BOOLEAN, Restart(loads) PROVE IInv'
  <2>1. /\ pc' = [p \in Procs |-> "idle"]
        /\ snap' = [p \in Procs |-> NoBreaker]
        /\ seen' \in [Requests -> States]
    BY <1>15 DEF Restart, States
  <2>2. cb' \in Breaker \cup {NoBreaker} /\ (cb' # NoBreaker => Sound(cb'))
    BY <1>15 DEF Restart, Sound
  <2>3. restarts' \in 0..MaxRestarts /\ row' = row
    BY <1>15, BreakerAssumption DEF Restart
  <2> QED BY <2>1, <2>2, <2>3, BreakerAssumption DEF Sound
<1>16. CASE UNCHANGED vars
  BY <1>16 DEF vars, Sound
<1> QED
  BY <1>2, <1>3, <1>4, <1>5, <1>6, <1>7, <1>8, <1>9, <1>10, <1>11, <1>12, <1>13, <1>14,
     <1>15, <1>16 DEF Next, AllowRequest, Outcome

\* The inductive invariant holds in every behaviour.
THEOREM SpecIInv == Spec => []IInv
<1>1. Init => IInv BY InitIInv
<1>2. IInv /\ [Next]_vars => IInv' BY NextIInv
<1> QED BY <1>1, <1>2, PTL DEF Spec

\* Type correctness.
THEOREM SpecTypeOK == Spec => []TypeOK
<1>1. IInv => TypeOK BY DEF IInv
<1> QED BY <1>1, SpecIInv, PTL

\* A closed breaker, in memory, in flight or stored, is below the threshold.
THEOREM SpecClosedBelowThreshold == Spec => []ClosedBelowThreshold
<1>1. IInv => ClosedBelowThreshold
  BY DEF IInv, ClosedBelowThreshold, Records, Sound
<1> QED BY <1>1, SpecIInv, PTL

\* What an operator holds open is closed in no copy of the record.
THEOREM SpecHeldNeverClosed == Spec => []HeldNeverClosed
<1>1. IInv => HeldNeverClosed
  BY DEF IInv, HeldNeverClosed, Records, Sound
<1> QED BY <1>1, SpecIInv, PTL

-----------------------------------------------------------------------------
(* What a step may never do. *)

\* Traffic leaves the lock on, and never closes what is open.
Stays(b, c) == (b.locked => c.locked) /\ (b.state = Open => c.state # Closed)

LEMMA TrafficStays ==
    ASSUME NEW b \in Breaker
    PROVE  Stays(b, AfterSuccess(b)) /\ Stays(b, AfterFailure(b)) /\ Stays(b, [b EXCEPT !.state = HalfOpen])
<1>1. Open # Closed /\ HalfOpen # Closed /\ Open # HalfOpen
  BY DEF Open, Closed, HalfOpen
<1>2. Stays(b, [b EXCEPT !.state = HalfOpen])
  BY <1>1 DEF Stays, Breaker
<1>3. Stays(b, AfterSuccess(b))
  <2>1. CASE b.state = HalfOpen /\ ~b.locked
    BY <1>1, <2>1 DEF Stays
  <2>2. CASE ~(b.state = HalfOpen /\ ~b.locked)
    BY <1>1, <2>2 DEF Stays, AfterSuccess
  <2> QED BY <2>1, <2>2
<1>4. Stays(b, AfterFailure(b))
  <2>1. Counted(b) \in Breaker /\ Counted(b).state = b.state /\ Counted(b).locked = b.locked
    BY BreakerAssumption DEF Counted, Breaker
  <2>2. Reopened(Counted(b)).state = Open /\ Reopened(Counted(b)).locked = b.locked
    BY <2>1 DEF Reopened, Breaker
  <2>3. AfterFailure(b) \in {Counted(b), Reopened(Counted(b))}
    BY DEF AfterFailure
  <2> QED BY <1>1, <2>1, <2>2, <2>3 DEF Stays
<1> QED BY <1>2, <1>3, <1>4

\* A record gets older and changes in nothing else.
LEMMA AgedStays ==
    ASSUME NEW b \in Breaker
    PROVE  Aged(b) # NoBreaker /\ Stays(b, Aged(b))
<1>1. CASE b.age = Expired
  BY <1>1, BreakerAssumption DEF Aged, Stays, Open, Closed
<1>2. CASE b.age # Expired
  <2>1. Aged(b) = [b EXCEPT !.age = b.age + 1] /\ b # NoBreaker
    BY <1>2, BreakerAssumption DEF Aged
  <2>2. Aged(b) \in Breaker /\ Aged(b).state = b.state /\ Aged(b).locked = b.locked
    BY <1>2, <2>1, BreakerAssumption DEF Breaker, Expired
  <2> QED BY <2>2, BreakerAssumption DEF Stays, Open, Closed
<1> QED BY <1>1, <1>2

LEMMA OnlyAdminsMove ==
    ASSUME IInv, [Next]_vars, cb # NoBreaker
    PROVE  \/ restarts' # restarts
           \/ \E a \in Admins : ForceState(a, Closed) \/ (ForceState(a, HalfOpen) /\ cb'.state = HalfOpen)
           \/ cb' # NoBreaker /\ Stays(cb, cb')
<1> DEFINE Goal == \/ restarts' # restarts
                   \/ \E a \in Admins : ForceState(a, Closed) \/ (ForceState(a, HalfOpen) /\ cb'.state = HalfOpen)
                   \/ cb' # NoBreaker /\ Stays(cb, cb')
<1>1. cb \in Breaker /\ Current = cb /\ \A b \in Breaker : b # NoBreaker
  BY BreakerAssumption DEF IInv, TypeOK, Current
<1>2. Open # Closed /\ HalfOpen # Closed
  BY DEF Open, Closed, HalfOpen
<1>3. CASE cb' = cb
  BY <1>2, <1>3 DEF Stays
<1>4. ASSUME NEW r \in Requests, EnterHalfOpen(r) \/ RecordSuccess(r) \/ RecordFailure(r) PROVE Goal
  <2>1. Sound(cb)
    BY DEF IInv
  <2>2. cb' \in {[cb EXCEPT !.state = HalfOpen], AfterSuccess(cb), AfterFailure(cb)}
    BY <1>1, <1>4 DEF EnterHalfOpen, RecordSuccess, RecordFailure
  <2>3. [cb EXCEPT !.state = HalfOpen] \in Breaker
    BY <1>1 DEF Breaker, States
  <2>4. AfterSuccess(cb) \in Breaker /\ AfterFailure(cb) \in Breaker
    BY <2>1, SuccessSound, FailureSound DEF Sound
  <2> QED BY <1>1, <2>2, <2>3, <2>4, TrafficStays
<1>5. ASSUME NEW a \in Admins, NEW s \in States, ForceState(a, s) PROVE Goal
  <2>1. cb' = Forced(cb, s)
    BY <1>1, <1>5 DEF ForceState
  <2>2. CASE s = Closed
    BY <1>5, <2>2
  <2>3. CASE s = HalfOpen
    <3>1. cb' = [cb EXCEPT !.state = HalfOpen, !.locked = FALSE]
      BY <1>2, <2>1, <2>3 DEF Forced, Open, HalfOpen, Closed
    <3>2. cb'.state = HalfOpen
      BY <1>1, <3>1 DEF Breaker
    <3> QED BY <1>5, <2>3, <3>2
  <2>4. CASE s = Open
    <3>1. cb' = [cb EXCEPT !.state = Open, !.age = 0, !.locked = TRUE]
      BY <1>2, <2>1, <2>4 DEF Forced, Open, HalfOpen, Closed
    <3>2. cb'.state = Open /\ cb'.locked
      BY <1>1, <3>1 DEF Breaker
    <3>3. cb' # NoBreaker
      BY <1>1, <2>1, ForcedSound DEF IInv, Sound
    <3> QED BY <1>2, <3>2, <3>3 DEF Stays
  <2> QED BY <2>2, <2>3, <2>4 DEF States
<1>6. CASE Tick
  BY <1>1, <1>6, AgedStays DEF Tick
<1>7. CASE \E loads \in BOOLEAN : Restart(loads)
  BY <1>7, BreakerAssumption DEF Restart, IInv, TypeOK
<1>8. CASE \/ \E r \in Requests : Lookup(r) \/ ReadState(r) \/ ReadTornState(r) \/ CheckElapsed(r)
                                  \/ LeaveUnrecorded(r) \/ PersistAsync(r)
           \/ \E a \in Admins : ForcePersist(a)
           \/ \E p \in Procs : PersistFails(p)
           \/ UNCHANGED vars
  <2>1. cb' = cb
    BY <1>8 DEF Lookup, ReadState, ReadTornState, CheckElapsed, LeaveUnrecorded, PersistAsync, ForcePersist,
       PersistFails, vars
  <2> QED BY <1>3, <2>1
<1> QED BY <1>4, <1>5, <1>6, <1>7, <1>8 DEF Next, AllowRequest, Outcome

\* Only an operator, or a restart, takes the lock off, whatever requests are in flight.
THEOREM SpecOnlyOperatorReleases == Spec => OnlyOperatorReleases
<1> DEFINE A == cb # NoBreaker /\ cb.locked /\ (cb' = NoBreaker \/ ~cb'.locked)
                  => \/ restarts' # restarts
                     \/ \E a \in Admins : ForceState(a, Closed) \/ ForceState(a, HalfOpen)
<1>1. IInv /\ [Next]_vars => A
  BY OnlyAdminsMove DEF Stays
<1> QED BY <1>1, SpecIInv, PTL DEF Spec, OnlyOperatorReleases

\* No late answer closes an open breaker: it goes to closed through half_open only.
THEOREM SpecOpenClosesThroughTrial == Spec => OpenClosesThroughTrial
<1> DEFINE A == cb # NoBreaker /\ cb' # NoBreaker /\ cb.state = Open /\ cb'.state = Closed
                  => restarts' # restarts \/ \E a \in Admins : ForceState(a, Closed)
<1>1. IInv /\ [Next]_vars => A
  <2>1. HalfOpen # Closed
    BY DEF HalfOpen, Closed
  <2> QED BY <2>1, OnlyAdminsMove DEF Stays
<1> QED BY <1>1, SpecIInv, PTL DEF Spec, OpenClosesThroughTrial

-------------------------------------------------------------------------------
(***************************************************************************)
(* WindowBound for every rate, burst, window and number of callers.  The   *)
(* invariant that carries it counts what is still in the bucket, the part  *)
(* not refilled yet included: what was admitted in the window and what     *)
(* could be admitted now come out of the burst and the window's earnings.  *)
(***************************************************************************)

Funded(b, admitted, elapsed) ==
    /\ b.tokens <= b.maxTokens
    /\ Unit * admitted + Level(b) <= b.maxTokens + elapsed * b.refillRate

LimiterInv ==
    /\ LimiterTypeOK
    /\ \A k \in Keys :
          IF bucket[k] = NoBucket
          THEN window.admitted[k] = 0
          ELSE Funded(bucket[k], window.admitted[k], window.elapsed)

-----------------------------------------------------------------------------
\* A bucket's level is a number of fractions between its tokens and its size.
LEMMA LevelRange ==
    ASSUME NEW b \in Bucket, b.tokens <= b.maxTokens
    PROVE  /\ Level(b) \in Nat
           /\ b.tokens <= Level(b)
           /\ Level(b) <= b.maxTokens
<1>1. b.idle * b.refillRate \in Nat
  BY DEF Bucket
<1> QED BY <1>1 DEF Level, Least, Bucket

\* The default burst is at least one request.
LEMMA NewBucketFull ==
    ASSUME NEW l \in [rpm: Nat, burst: Nat]
    PROVE  /\ NewBucket(l) \in Bucket
           /\ NewBucket(l).tokens = NewBucket(l).maxTokens
           /\ NewBucket(l).idle = 0
<1>1. EffectiveBurst(l) \in Nat
  BY DEF EffectiveBurst, Greatest
<1>2. Unit * EffectiveBurst(l) \in Nat
  BY <1>1, LimiterAssumption
<1> QED BY <1>2 DEF NewBucket, Bucket

\* Refilling puts a bucket's level into its tokens and leaves its size and rate alone.
LEMMA RefilledBucket ==
    ASSUME NEW b \in Bucket, b.tokens <= b.maxTokens
    PROVE  /\ Refilled(b) \in Bucket
           /\ Refilled(b).tokens = Level(b)
           /\ Refilled(b).maxTokens = b.maxTokens
           /\ Refilled(b).refillRate = b.refillRate
           /\ Refilled(b).idle = 0
  BY LevelRange DEF Refilled, Bucket

\* Right after a refill the level is the tokens.
LEMMA LevelNow ==
    ASSUME NEW b \in Bucket, b.tokens <= b.maxTokens, b.idle = 0
    PROVE  Level(b) = b.tokens
<1>1. b.idle * b.refillRate = 0
  BY DEF Bucket
<1> QED BY <1>1 DEF Level, Least, Bucket

\* A tick adds at most one tick's earnings to the level.
LEMMA WaitsEarns ==
    ASSUME NEW b \in Bucket, b.tokens <= b.maxTokens
    PROVE  /\ Waits(b) \in Bucket
           /\ Waits(b).tokens = b.tokens
           /\ Waits(b).maxTokens = b.maxTokens
           /\ Waits(b).refillRate = b.refillRate
           /\ Level(Waits(b)) <= Level(b) + b.refillRate
           /\ Level(Waits(b)) <= b.maxTokens
<1>1. CASE Level(b) = b.maxTokens
  <2>1. Waits(b) = b
    BY <1>1 DEF Waits, Bucket
  <2> QED BY <2>1, LevelRange DEF Bucket
<1>2. CASE Level(b) # b.maxTokens
  <2>1. Waits(b) = [b EXCEPT !.idle = b.idle + 1]
    BY <1>2 DEF Waits
  <2>2. (b.idle + 1) * b.refillRate = b.idle * b.refillRate + b.refillRate
    BY DEF Bucket
  <2>3. b.idle * b.refillRate \in Nat
    BY DEF Bucket
  <2>4. Level(Waits(b)) = Least(b.maxTokens, b.tokens + (b.idle * b.refillRate + b.refillRate))
    BY <2>1, <2>2 DEF Level, Bucket
  <2> QED BY <2>1, <2>3, <2>4 DEF Level, Least, Bucket
<1> QED BY <1>1, <1>2

-----------------------------------------------------------------------------
\* The bucket a call works on is funded: an old one by the invariant, a new one because
\* nothing was admitted from it and it starts full.
LEMMA FoundFunded ==
    ASSUME LimiterInv, NEW c \in Calls, call[c] # NoCall
    PROVE  LET q == call[c] IN
           /\ q.key \in Keys
           /\ Found(q) \in Bucket
           /\ Funded(Found(q), window.admitted[q.key], window.elapsed)
<1> DEFINE q == call[c]
<1>1. q \in Call /\ q.key \in Keys /\ q.limit \in [rpm: Nat, burst: Nat]
  BY DEF LimiterInv, LimiterTypeOK, Call
<1>2. CASE bucket[q.key] = NoBucket
  <2>1. Found(q) = NewBucket(q.limit) /\ window.admitted[q.key] = 0
    BY <1>1, <1>2 DEF Found, LimiterInv
  <2>2. Found(q) \in Bucket /\ Found(q).tokens = Found(q).maxTokens /\ Found(q).idle = 0
    BY <1>1, <2>1, NewBucketFull
  <2>3. Found(q).maxTokens \in Nat /\ Found(q).refillRate \in Nat /\ window.elapsed \in Nat
    BY <2>2, LimiterAssumption DEF Bucket, LimiterInv, LimiterTypeOK
  <2>4. window.elapsed * Found(q).refillRate \in Nat
    BY <2>3
  <2>5. Level(Found(q)) = Found(q).tokens
    BY <2>2, <2>3, LevelNow
  <2>6. Unit * 0 = 0
    BY LimiterAssumption
  <2> QED BY <1>1, <2>1, <2>2, <2>3, <2>4, <2>5, <2>6 DEF Funded
<1>3. CASE bucket[q.key] # NoBucket
  BY <1>1, <1>3 DEF Found, LimiterInv, LimiterTypeOK
<1> QED BY <1>1, <1>2, <1>3

LEMMA InitLimiterInv == LimiterInit => LimiterInv
<1> SUFFICES ASSUME LimiterInit PROVE LimiterInv
  OBVIOUS
<1>1. call \in [Calls -> Call \cup {NoCall}] /\ bucket \in [Keys -> Bucket \cup {NoBucket}]
  BY DEF LimiterInit
<1>2. window.admitted = [k \in Keys |-> 0]
  BY DEF LimiterInit
<1>3. window \in [on: BOOLEAN, elapsed: 0..MaxWindow, admitted: [Keys -> Nat]]
  BY LimiterAssumption DEF LimiterInit
<1> QED BY <1>1, <1>2, <1>3 DEF LimiterInit, LimiterInv, LimiterTypeOK

LEMMA AdmitIInv == ASSUME LimiterInv, NEW c \in Calls, Admit(c) PROVE LimiterInv'
<1> DEFINE q == call[c]
           b == Refilled(Found(q))
           k == q.key
<1>1. /\ k \in Keys /\ Found(q) \in Bucket
      /\ Funded(Found(q), window.admitted[k], window.elapsed)
  BY FoundFunded DEF Admit
<1>2. /\ b \in Bucket /\ b.tokens = Level(Found(q)) /\ b.idle = 0
      /\ b.maxTokens = Found(q).maxTokens /\ b.refillRate = Found(q).refillRate
      /\ b.tokens <= b.maxTokens
  BY <1>1, RefilledBucket, LevelRange DEF Funded
<1>3. /\ Spent(b) \in Bucket /\ Spent(b).tokens = b.tokens - Unit /\ Spent(b).idle = 0
      /\ Spent(b).maxTokens = b.maxTokens /\ Spent(b).refillRate = b.refillRate
      /\ Spent(b).tokens <= Spent(b).maxTokens
  BY <1>2, LimiterAssumption DEF Admit, Spent, Bucket
<1>4. Level(Spent(b)) = b.tokens - Unit
  BY <1>3, LevelNow
<1>5. /\ window'.elapsed = window.elapsed /\ window'.on = window.on
      /\ window'.admitted \in [Keys -> Nat]
      /\ window'.admitted[k] \in {window.admitted[k], window.admitted[k] + 1}
      /\ \A j \in Keys \ {k} : window'.admitted[j] = window.admitted[j]
      /\ window' \in [on: BOOLEAN, elapsed: 0..MaxWindow, admitted: [Keys -> Nat]]
  <2>1. CASE window.on
    <3>1. window' = [window EXCEPT !.admitted[k] = @ + 1]
      BY <2>1 DEF Admit
    <3>2. /\ window' = [window EXCEPT !.admitted = [window.admitted EXCEPT ![k] = @ + 1]]
          /\ [window.admitted EXCEPT ![k] = @ + 1] \in [Keys -> Nat]
      BY <1>1, <3>1 DEF LimiterInv, LimiterTypeOK
    <3> QED BY <1>1, <3>2 DEF LimiterInv, LimiterTypeOK
  <2>2. CASE ~window.on
    BY <1>1, <2>2 DEF Admit, LimiterInv, LimiterTypeOK
  <2> QED BY <2>1, <2>2
<1>6. Funded(Spent(b), window'.admitted[k], window'.elapsed)
  <2> DEFINE w == window.admitted[k]
             earned == window.elapsed * b.refillRate
  <2>1. w \in Nat /\ Unit \in Nat /\ b.tokens \in Nat /\ b.maxTokens \in Nat
    BY <1>1, <1>2, LimiterAssumption DEF LimiterInv, LimiterTypeOK, Bucket
  <2>2. earned \in Int
    BY <1>2 DEF LimiterInv, LimiterTypeOK, Bucket
  <2>3. Unit * w \in Int /\ Unit * (w + 1) = Unit * w + Unit
    BY <2>1
  <2>4. Unit * w + b.tokens <= b.maxTokens + earned
    BY <1>1, <1>2 DEF Funded
  <2>5. Unit * w + (b.tokens - Unit) <= b.maxTokens + earned
    BY <2>1, <2>2, <2>3, <2>4
  <2>6. Unit * (w + 1) + (b.tokens - Unit) <= b.maxTokens + earned
    BY <2>1, <2>2, <2>3, <2>4
  <2> QED BY <1>3, <1>4, <1>5, <2>5, <2>6 DEF Funded
<1>7. bucket' = [bucket EXCEPT ![k] = Spent(b)]
  BY DEF Admit
<1>8. LimiterTypeOK'
  BY <1>1, <1>3, <1>5, <1>7 DEF LimiterInv, LimiterTypeOK, Admit
<1>9. ASSUME NEW j \in Keys
      PROVE  IF bucket'[j] = NoBucket
             THEN window'.admitted[j] = 0
             ELSE Funded(bucket'[j], window'.admitted[j], window'.elapsed)
  <2>1. CASE j = k
    <3>1. bucket'[j] = Spent(b)
      BY <1>1, <1>7, <2>1 DEF LimiterInv, LimiterTypeOK
    <3>2. Spent(b) # NoBucket
      BY <1>3, LimiterAssumption
    <3> QED BY <1>6, <2>1, <3>1, <3>2
  <2>2. CASE j # k
    BY <1>5, <1>7, <2>2 DEF LimiterInv, LimiterTypeOK
  <2> QED BY <2>1, <2>2
<1> QED BY <1>8, <1>9 DEF LimiterInv

LEMMA RejectIInv == ASSUME LimiterInv, NEW c \in Calls, Reject(c) PROVE LimiterInv'
<1> DEFINE q == call[c]
           b == Refilled(Found(q))
           k == q.key
<1>1. /\ k \in Keys /\ Found(q) \in Bucket
      /\ Funded(Found(q), window.admitted[k], window.elapsed)
  BY FoundFunded DEF Reject
<1>2. /\ b \in Bucket /\ b.tokens = Level(Found(q)) /\ b.idle = 0
      /\ b.maxTokens = Found(q).maxTokens /\ b.refillRate = Found(q).refillRate
      /\ b.tokens <= b.maxTokens
  BY <1>1, RefilledBucket, LevelRange DEF Funded
<1>3. Level(b) = b.tokens
  BY <1>2, LevelNow
<1>4. Funded(b, window.admitted[k], window.elapsed)
  BY <1>1, <1>2, <1>3 DEF Funded
<1>5. b # NoBucket
  BY <1>2, LimiterAssumption
<1>6. bucket' = [bucket EXCEPT ![k] = b] /\ UNCHANGED <<routeLimit, tokenLimit, window>>
  BY DEF Reject
<1>7. LimiterTypeOK'
  BY <1>1, <1>2, <1>6 DEF LimiterInv, LimiterTypeOK, Reject
<1> QED BY <1>1, <1>4, <1>5, <1>6, <1>7 DEF LimiterInv, LimiterTypeOK

LEMMA TickIInv == ASSUME LimiterInv, LimiterTick PROVE LimiterInv'
<1>1. ASSUME NEW k \in Keys, bucket[k] # NoBucket
      PROVE  /\ bucket'[k] \in Bucket
             /\ Funded(bucket'[k], window'.admitted[k], window'.elapsed)
  <2> DEFINE b == bucket[k]
  <2>1. b \in Bucket /\ Funded(b, window.admitted[k], window.elapsed)
    BY <1>1 DEF LimiterInv, LimiterTypeOK
  <2>2. bucket'[k] = Waits(b)
    BY <1>1 DEF LimiterTick
  <2>3. /\ Waits(b) \in Bucket /\ Waits(b).tokens = b.tokens
        /\ Waits(b).maxTokens = b.maxTokens /\ Waits(b).refillRate = b.refillRate
        /\ Level(Waits(b)) <= Level(b) + b.refillRate /\ Level(Waits(b)) <= b.maxTokens
    BY <2>1, WaitsEarns DEF Funded
  <2>4. Level(b) \in Nat /\ Level(Waits(b)) \in Nat
    BY <2>1, <2>3, LevelRange DEF Funded
  <2>5. CASE window.on /\ window.elapsed < MaxWindow
    <3>1. window'.elapsed = window.elapsed + 1 /\ window'.admitted = window.admitted
      BY <2>5 DEF LimiterTick
    <3>2. window.elapsed \in Nat /\ window.admitted[k] \in Nat /\ b.refillRate \in Nat
          /\ b.maxTokens \in Nat
      BY <2>1, LimiterAssumption DEF LimiterInv, LimiterTypeOK, Bucket
    <3>3. (window.elapsed + 1) * b.refillRate = window.elapsed * b.refillRate + b.refillRate
      BY <3>2
    <3>4. window.elapsed * b.refillRate \in Int /\ Unit * window.admitted[k] \in Int
      BY <3>2, LimiterAssumption
    <3>5. Unit * window.admitted[k] + Level(b) <= b.maxTokens + window.elapsed * b.refillRate
      BY <2>1 DEF Funded
    <3>6. Unit * window.admitted[k] + Level(Waits(b))
            <= b.maxTokens + (window.elapsed * b.refillRate + b.refillRate)
      BY <2>3, <2>4, <3>2, <3>4, <3>5
    <3> QED BY <2>1, <2>2, <2>3, <3>1, <3>3, <3>6 DEF Funded
  <2>6. CASE ~(window.on /\ window.elapsed < MaxWindow)
    <3>1. window'.elapsed = 0 /\ window'.admitted[k] = 0
      BY <2>6 DEF LimiterTick, NoWindow
    <3>2. Unit * 0 = 0 /\ 0 * b.refillRate = 0 /\ b.maxTokens \in Nat
      BY <2>1, LimiterAssumption DEF Bucket
    <3> QED BY <2>1, <2>2, <2>3, <2>4, <3>1, <3>2 DEF Funded
  <2> QED BY <2>2, <2>3, <2>5, <2>6
<1>2. ASSUME NEW k \in Keys, bucket[k] = NoBucket
      PROVE  bucket'[k] = NoBucket /\ window'.admitted[k] = 0
  BY <1>2 DEF LimiterTick, NoWindow, LimiterInv
<1>3. window' \in [on: BOOLEAN, elapsed: 0..MaxWindow, admitted: [Keys -> Nat]]
  <2>1. CASE window.on /\ window.elapsed < MaxWindow
    <3>1. window' = [window EXCEPT !.elapsed = window.elapsed + 1]
      BY <2>1 DEF LimiterTick
    <3>2. window.elapsed + 1 \in 0..MaxWindow
      BY <2>1, LimiterAssumption DEF LimiterInv, LimiterTypeOK
    <3> QED BY <3>1, <3>2 DEF LimiterInv, LimiterTypeOK
  <2>2. CASE ~(window.on /\ window.elapsed < MaxWindow)
    BY <2>2, LimiterAssumption DEF LimiterTick, NoWindow
  <2> QED BY <2>1, <2>2
<1>4. bucket' \in [Keys -> Bucket \cup {NoBucket}]
  BY <1>1, <1>2 DEF LimiterTick
<1>5. NoBucket \notin Bucket
  BY LimiterAssumption
<1> QED BY <1>1, <1>2, <1>3, <1>4, <1>5 DEF LimiterInv, LimiterTypeOK, LimiterTick

LEMMA StartWindowIInv == ASSUME LimiterInv, StartWindow PROVE LimiterInv'
<1>1. window'.on = TRUE /\ window'.elapsed = 0 /\ window'.admitted = [k \in Keys |-> 0]
  BY DEF StartWindow, NoWindow
<1>2. ASSUME NEW k \in Keys, bucket[k] # NoBucket
      PROVE  Funded(bucket[k], 0, 0)
  <2>1. bucket[k] \in Bucket /\ bucket[k].tokens <= bucket[k].maxTokens
    BY <1>2 DEF LimiterInv, LimiterTypeOK, Funded
  <2>2. Level(bucket[k]) \in Nat /\ Level(bucket[k]) <= bucket[k].maxTokens
    BY <2>1, LevelRange
  <2>3. Unit * 0 = 0 /\ 0 * bucket[k].refillRate = 0 /\ bucket[k].maxTokens \in Nat
    BY <2>1, LimiterAssumption DEF Bucket
  <2> QED BY <2>1, <2>2, <2>3 DEF Funded
<1>3. window' \in [on: BOOLEAN, elapsed: 0..MaxWindow, admitted: [Keys -> Nat]]
  <2>1. window' = [on |-> TRUE, elapsed |-> 0, admitted |-> [k \in Keys |-> 0]]
    BY DEF StartWindow, NoWindow
  <2>2. 0 \in 0..MaxWindow /\ [k \in Keys |-> 0] \in [Keys -> Nat]
    BY LimiterAssumption
  <2> QED BY <2>1, <2>2
<1> QED BY <1>1, <1>2, <1>3 DEF LimiterInv, LimiterTypeOK, StartWindow

LEMMA NextLimiterInv == LimiterInv /\ [LimiterNext]_limiterVars => LimiterInv'
<1> SUFFICES ASSUME LimiterInv, [LimiterNext]_limiterVars PROVE LimiterInv'
  OBVIOUS
<1>1. ASSUME NEW c \in Calls, NEW r \in Routes, NEW t \in Tokens, Arrive(c, r, t) PROVE LimiterInv'
  <2>1. Chosen(r, t) \in Call
    BY LimiterAssumption DEF Chosen, Call, Keys, LimiterInv, LimiterTypeOK
  <2> QED BY <1>1, <2>1 DEF Arrive, LimiterInv, LimiterTypeOK
<1>2. ASSUME NEW c \in Calls, Admit(c) PROVE LimiterInv'
  BY <1>2, AdmitIInv
<1>3. ASSUME NEW c \in Calls, Reject(c) PROVE LimiterInv'
  BY <1>3, RejectIInv
<1>4. ASSUME NEW r \in Routes, NEW l \in Limits, UpdateRoute(r, l) PROVE LimiterInv'
  BY <1>4 DEF UpdateRoute, LimiterInv, LimiterTypeOK
<1>5. CASE LimiterTick BY <1>5, TickIInv
<1>6. CASE StartWindow BY <1>6, StartWindowIInv
<1>7. CASE UNCHANGED limiterVars BY <1>7 DEF limiterVars, LimiterInv, LimiterTypeOK
<1> QED BY <1>1, <1>2, <1>3, <1>4, <1>5, <1>6, <1>7 DEF LimiterNext

\* The inductive invariant holds in every behaviour.
THEOREM SpecLimiterInv == LimiterSpec => []LimiterInv
<1>1. LimiterInit => LimiterInv BY InitLimiterInv
<1>2. LimiterInv /\ [LimiterNext]_limiterVars => LimiterInv' BY NextLimiterInv
<1> QED BY <1>1, <1>2, PTL DEF LimiterSpec

\* Type correctness.
THEOREM SpecLimiterTypeOK == LimiterSpec => []LimiterTypeOK
<1>1. LimiterInv => LimiterTypeOK BY DEF LimiterInv
<1> QED BY <1>1, SpecLimiterInv, PTL

\* No window of any length admits a key more than its burst and its rate allow.
THEOREM SpecWindowBound == LimiterSpec => []WindowBound
<1>1. LimiterInv => WindowBound
  <2> SUFFICES ASSUME LimiterInv, NEW k \in Keys, bucket[k] # NoBucket
               PROVE  Unit * window.admitted[k]
                        <= bucket[k].maxTokens + window.elapsed * bucket[k].refillRate
    BY DEF WindowBound, LimiterInv
  <2>1. bucket[k] \in Bucket /\ Funded(bucket[k], window.admitted[k], window.elapsed)
    BY DEF LimiterInv, LimiterTypeOK
  <2>2. Level(bucket[k]) \in Nat
    BY <2>1, LevelRange DEF Funded
  <2>3. /\ Unit * window.admitted[k] \in Int
        /\ bucket[k].maxTokens + window.elapsed * bucket[k].refillRate \in Int
    BY <2>1, LimiterAssumption DEF LimiterInv, LimiterTypeOK, Bucket
  <2> QED BY <2>1, <2>2, <2>3 DEF Funded
<1> QED BY <1>1, SpecLimiterInv, PTL
===============================================================================

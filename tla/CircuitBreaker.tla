--------------------------- MODULE CircuitBreaker ---------------------------
(***************************************************************************)
(* The per-host circuit breaker (circuitbreaker.go) and the way Client.Do  *)
(* uses it: a caller asks allow(host), performs the request and reports    *)
(* the outcome with recordSuccess or recordFailure.                        *)
(*                                                                         *)
(* A step is one critical section of cb.mu, or one call made outside it:   *)
(* the read-locked fast path of allow, its write-locked slow path, a       *)
(* record, and the metrics call made after the lock is released.  The      *)
(* gauge of the metrics sink is therefore written in an order of its own.  *)
(***************************************************************************)
EXTENDS Integers, FiniteSets

CONSTANTS Host,                 \* keys of the breakers map
          Caller,               \* goroutines inside Client.Do
          MaxFailures,          \* CircuitBreakerConfig.MaxFailures
          OpenTimeout,          \* CircuitBreakerConfig.OpenTimeout, in ticks
          HalfOpenMaxRequests,  \* CircuitBreakerConfig.HalfOpenMaxRequests
          HookEffects           \* what Config.RequestHooks may do to a call

\* The two integers are not validated by newCircuitBreaker: 0 is legal.
ASSUME ConfigAssumption ==
    /\ MaxFailures \in Int
    /\ HalfOpenMaxRequests \in Int
    /\ OpenTimeout \in Nat
    /\ HookEffects \subseteq {"fail", "rewrite"}

ASSUME SetAssumption == Host # {} /\ IsFiniteSet(Caller)

VARIABLES known,    \* hosts with an entry in cb.breakers
          hb,       \* the hostBreaker of each host (of a known host)
          age,      \* ticks since hb[h].lastStateChange, capped at OpenTimeout
          gauge,    \* last value the metrics sink was given for each host
          pc,       \* where each caller is
          target,   \* the host of each caller's last call into the breaker
          emit,     \* the gauge value a caller has still to emit, or "none"
          probes,   \* ghost: calls admitted in the current half-open period
                    \* of a host that have not ended
          streak    \* ghost: failures recorded since the last success,
                    \* capped at the threshold

breakerVars == <<known, hb, age, gauge, pc, target, emit, probes, streak>>

State == {"Closed", "Open", "HalfOpen"}

\* A count compared with ">=" before any use acts as if it were at least one.
AtLeastOne(n) == IF n > 1 THEN n ELSE 1
Threshold == AtLeastOne(MaxFailures)
Quota     == AtLeastOne(HalfOpenMaxRequests)

Breaker == [state           : State,
            failures        : 0 .. Threshold,
            halfOpenSuccess : 0 .. Quota - 1,
            halfOpenAllowed : 0 .. Quota]

NewBreaker == [state |-> "Closed", failures |-> 0,
               halfOpenSuccess |-> 0, halfOpenAllowed |-> 0]

----------------------------------------------------------------------------
(* The state changes of one hostBreaker, made under the write lock.         *)

\* Fault: the timeout is over one tick early.
ElapsedEarly(h) == age[h] + 1 >= OpenTimeout

Elapsed(h) == age[h] >= OpenTimeout

\* Fault: the quota is compared with ">".
FullOffByOne(b) == b.halfOpenAllowed > HalfOpenMaxRequests

HalfOpenFull(b) == b.halfOpenAllowed >= HalfOpenMaxRequests

\* Open -> HalfOpen: the transition request is counted.
EnterHalfOpen(b) == [b EXCEPT !.state = "HalfOpen", !.halfOpenAllowed = 1]

AdmitOneMore(b) == [b EXCEPT !.halfOpenAllowed = @ + 1]

\* Fault: the success at hand is not counted before the comparison.
ClosesLate(b) == b.halfOpenSuccess >= HalfOpenMaxRequests

\* Fault: a success of the period is not counted.
SuccessLost(b) == b

\* In half-open, a success is counted and the last one wanted closes.
ClosesIt(b) == b.halfOpenSuccess + 1 >= HalfOpenMaxRequests
OneMoreSuccess(b) == [b EXCEPT !.halfOpenSuccess = @ + 1]

\* Fault: failures need not be consecutive.
ForgetNothing(b) == b

\* Fault: one failure too many is waited for.
TripsLate(b) == b.failures >= MaxFailures

\* In closed, a success forgets the failures and a failure may be one too many.
ForgetFailures(b) == [b EXCEPT !.failures = 0]
Trips(b) == b.failures + 1 >= MaxFailures
OneMoreFailure(b) ==
    [b EXCEPT !.failures = @ + 1, !.state = IF Trips(b) THEN "Open" ELSE @]

\* HalfOpen -> Open: the period's counters are cleared, failures is kept.
Reopen(b) ==
    [b EXCEPT !.state = "Open", !.halfOpenSuccess = 0, !.halfOpenAllowed = 0]

----------------------------------------------------------------------------
Init ==
    /\ known = {}
    /\ hb = [h \in Host |-> NewBreaker]
    /\ age = [h \in Host |-> 0]
    /\ gauge = [h \in Host |-> "unset"]
    /\ pc = [c \in Caller |-> "idle"]
    /\ target = [c \in Caller |-> CHOOSE h \in Host : TRUE]
    /\ emit = [c \in Caller |-> "none"]
    /\ probes = [h \in Host |-> {}]
    /\ streak = [h \in Host |-> 0]

\* getOrCreateBreaker: a new entry is Closed and emits its gauge under the lock.
GetOrCreate(h) ==
    /\ known' = known \cup {h}
    /\ gauge' = IF h \in known THEN gauge ELSE [gauge EXCEPT ![h] = "Closed"]

\* The fast path of allow: the host is known and Closed under the read lock.
AllowFast(c, h) ==
    /\ pc[c] = "idle" /\ emit[c] = "none"
    /\ h \in known
    /\ hb[h].state = "Closed"
    /\ pc' = [pc EXCEPT ![c] = "inflight"]
    /\ target' = [target EXCEPT ![c] = h]
    /\ UNCHANGED <<known, hb, age, gauge, emit, probes, streak>>

\* The fast path fails: allow has released the read lock and wants the write lock.
AllowMiss(c, h) ==
    /\ pc[c] = "idle" /\ emit[c] = "none"
    /\ ~ (h \in known /\ hb[h].state = "Closed")
    /\ pc' = [pc EXCEPT ![c] = "slow"]
    /\ target' = [target EXCEPT ![c] = h]
    /\ UNCHANGED <<known, hb, age, gauge, emit, probes, streak>>

\* The slow path finds the breaker Closed: a new host, or one closed meanwhile.
AllowClosed(c) ==
    LET h == target[c] IN
    /\ pc[c] = "slow"
    /\ hb[h].state = "Closed"
    /\ GetOrCreate(h)
    /\ pc' = [pc EXCEPT ![c] = "inflight"]
    /\ UNCHANGED <<hb, age, target, emit, probes, streak>>

\* The slow path opens a half-open period; the gauge is emitted after the unlock.
AllowTransition(c) ==
    LET h == target[c] IN
    /\ pc[c] = "slow"
    /\ hb[h].state = "Open"
    /\ Elapsed(h)
    /\ hb' = [hb EXCEPT ![h] = EnterHalfOpen(@)]
    /\ age' = [age EXCEPT ![h] = 0]
    /\ probes' = [probes EXCEPT ![h] = {c}]
    /\ pc' = [pc EXCEPT ![c] = "inflight"]
    /\ emit' = [emit EXCEPT ![c] = "HalfOpen"]
    /\ UNCHANGED <<known, gauge, target, streak>>

\* The slow path lets one more request through the half-open breaker.
AllowProbe(c) ==
    LET h == target[c] IN
    /\ pc[c] = "slow"
    /\ hb[h].state = "HalfOpen"
    /\ ~ HalfOpenFull(hb[h])
    /\ hb' = [hb EXCEPT ![h] = AdmitOneMore(@)]
    /\ probes' = [probes EXCEPT ![h] = @ \cup {c}]
    /\ pc' = [pc EXCEPT ![c] = "inflight"]
    /\ UNCHANGED <<known, age, gauge, target, emit, streak>>

\* ErrCircuitBreakerOpen: Open before the timeout, or HalfOpen with no room.
AllowReject(c) ==
    LET h == target[c] IN
    /\ pc[c] = "slow"
    /\ \/ hb[h].state = "Open" /\ ~ Elapsed(h)
       \/ hb[h].state = "HalfOpen" /\ HalfOpenFull(hb[h])
    /\ pc' = [pc EXCEPT ![c] = "idle"]
    /\ UNCHANGED <<known, hb, age, gauge, target, emit, probes, streak>>

\* The part a record has in common: b is the breaker of h after it.  When the
\* state changed, lastStateChange is now and the gauge is still to be emitted.
Record(c, h, b) ==
    /\ pc[c] = "inflight" /\ emit[c] = "none"
    /\ GetOrCreate(h)
    /\ hb' = [hb EXCEPT ![h] = b]
    /\ age' = IF b.state = hb[h].state THEN age ELSE [age EXCEPT ![h] = 0]
    /\ emit' = IF b.state = hb[h].state THEN emit ELSE [emit EXCEPT ![c] = b.state]
    /\ pc' = [pc EXCEPT ![c] = "idle"]
    /\ target' = [target EXCEPT ![c] = h]
    /\ probes' = [k \in Host |-> IF k = h /\ b.state # "HalfOpen"
                                 THEN {} ELSE probes[k] \ {c}]

RecordSuccess(c, h) ==
    /\ streak' = [streak EXCEPT ![h] = 0]
    /\ \/ hb[h].state = "HalfOpen" /\ ClosesIt(hb[h]) /\ Record(c, h, NewBreaker)
       \/ hb[h].state = "HalfOpen" /\ ~ ClosesIt(hb[h])
             /\ Record(c, h, OneMoreSuccess(hb[h]))
       \/ hb[h].state = "Closed" /\ Record(c, h, ForgetFailures(hb[h]))
       \/ hb[h].state = "Open" /\ Record(c, h, hb[h])

RecordFailure(c, h) ==
    /\ streak' = [streak EXCEPT ![h] = IF @ < Threshold THEN @ + 1 ELSE @]
    /\ \/ hb[h].state = "HalfOpen" /\ Record(c, h, Reopen(hb[h]))
       \/ hb[h].state = "Closed" /\ Record(c, h, OneMoreFailure(hb[h]))
       \/ hb[h].state = "Open" /\ Record(c, h, hb[h])

\* SetCircuitBreakerState, called after cb.mu was released.
EmitGauge(c) ==
    /\ emit[c] # "none"
    /\ gauge' = [gauge EXCEPT ![target[c]] = emit[c]]
    /\ emit' = [emit EXCEPT ![c] = "none"]
    /\ UNCHANGED <<known, hb, age, pc, target, probes, streak>>

\* Do returns without a record: a request hook failed, or FromRequest did.
Abandon(c) ==
    /\ pc[c] = "inflight" /\ emit[c] = "none"
    /\ "fail" \in HookEffects
    /\ pc' = [pc EXCEPT ![c] = "idle"]
    /\ probes' = [h \in Host |-> probes[h] \ {c}]
    /\ UNCHANGED <<known, hb, age, gauge, target, emit, streak>>

\* One tick of the clock, for every host.
Tick ==
    /\ \E h \in Host : ~ Elapsed(h)
    /\ age' = [h \in Host |-> IF Elapsed(h) THEN age[h] ELSE age[h] + 1]
    /\ UNCHANGED <<known, hb, gauge, pc, target, emit, probes, streak>>

\* The host Do records: it is read from req.URL again, after the request hooks.
ReportHosts(c) == IF "rewrite" \in HookEffects THEN Host ELSE {target[c]}

Allow(c) ==
    \/ \E h \in Host : AllowFast(c, h) \/ AllowMiss(c, h)
    \/ AllowClosed(c) \/ AllowTransition(c) \/ AllowProbe(c) \/ AllowReject(c)

Report(c) == \E h \in ReportHosts(c) : RecordSuccess(c, h) \/ RecordFailure(c, h)

Next ==
    \/ \E c \in Caller : Allow(c) \/ Report(c) \/ EmitGauge(c) \/ Abandon(c)
    \/ Tick

Spec == Init /\ [][Next]_breakerVars

\* A request that was admitted ends (every attempt runs under
\* http.Client.Timeout and the number of attempts is bounded), and a goroutine
\* that left the lock makes its metrics call.
Fairness == \A c \in Caller : WF_breakerVars(Report(c)) /\ WF_breakerVars(EmitGauge(c))

FairSpec == Spec /\ Fairness

----------------------------------------------------------------------------
(* What the breaker promises.                                               *)

\* Every variable has its type; the counters of a breaker stay in the ranges
\* of Breaker although allow and the records only ever add one to them.
TypeOK ==
    /\ known \subseteq Host
    /\ hb \in [Host -> Breaker]
    /\ age \in [Host -> 0 .. OpenTimeout]
    /\ gauge \in [Host -> State \cup {"unset"}]
    /\ pc \in [Caller -> {"idle", "slow", "inflight"}]
    /\ target \in [Caller -> Host]
    /\ emit \in [Caller -> State \cup {"none"}]
    /\ probes \in [Host -> SUBSET Caller]
    /\ streak \in [Host -> 0 .. Threshold]

\* At most Quota requests of one half-open period are outstanding together,
\* whatever callers raced through allow (the promise above allow,
\* circuitbreaker.go:83).
ProbesWithinQuota ==
    \A h \in Host : Cardinality(probes[h]) <= Quota

\* A half-open breaker that turns requests away is waiting for a request it
\* let through: its period can always still be decided (allow against
\* recordSuccess and recordFailure).
FullWaitsForProbe ==
    \A h \in Host :
        hb[h].state = "HalfOpen" /\ HalfOpenFull(hb[h]) => probes[h] # {}

\* The breaker trips after exactly MaxFailures consecutive failures, counted
\* in the order records take the lock, whatever happened in earlier open and
\* half-open periods (recordFailure leaves failures alone when it reopens).
ClosedBelowThreshold ==
    \A h \in Host :
        hb[h].state = "Closed" =>
            hb[h].failures = streak[h] /\ streak[h] < Threshold

\* Open is left only by a request that came after OpenTimeout, and entered
\* only by a failure: no interleaving closes an open breaker directly, and
\* none opens a closed one early (the two switches of circuitbreaker.go).
LegalTransition(h) ==
    /\ hb[h].state = "Open" /\ hb[h]'.state # "Open" =>
            hb[h]'.state = "HalfOpen" /\ age[h] = OpenTimeout
    /\ hb[h].state = "Closed" /\ hb[h]'.state # "Closed" =>
            hb[h]'.state = "Open" /\ streak'[h] = Threshold
    /\ hb[h].state = "HalfOpen" /\ hb[h]'.state = "Open" => streak'[h] > 0

LegalTransitions == [][\A h \in Host : LegalTransition(h)]_breakerVars

Full(h) == hb[h].state = "HalfOpen" /\ HalfOpenFull(hb[h])

\* A half-open breaker that turns requests away does not do so forever: its
\* period is decided, or room appears (allow's rejection in HalfOpen relies on
\* the records of the requests it admitted).
HalfOpenIsDecided == \A h \in Host : Full(h) ~> ~ Full(h)

\* "SetCircuitBreakerState reports the circuit breaker state for a host"
\* (metrics.go:38): once no emission is under way, the last value emitted is
\* the state.  Emissions are made after the unlock, so they can be reordered.
GaugeAgrees ==
    (\A c \in Caller : emit[c] = "none") =>
        \A h \in known : gauge[h] = hb[h].state

----------------------------------------------------------------------------
\* The abstract breaker the module implements: the half-open budget is what
\* the admission counter leaves, and a caller runs from its admission to its
\* record.
Contract == INSTANCE BreakerContract WITH
    status  <- [h \in Host |-> hb[h].state],
    budget  <- [h \in Host |-> IF hb[h].state = "HalfOpen"
                               THEN Quota - hb[h].halfOpenAllowed ELSE 0],
    running <- {c \in Caller : pc[c] = "inflight"}

\* Every behaviour of the locked breaker, with its unlocked fast path, its
\* re-check in the slow path and its late reports, is one of the contract
\* (allow, recordSuccess, recordFailure).
ContractSpec == Contract!Spec
=============================================================================

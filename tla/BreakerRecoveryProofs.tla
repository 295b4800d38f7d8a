----------------------- MODULE BreakerRecoveryProofs -----------------------
(***************************************************************************)
(* Proofs about BreakerRecovery: the breaker in its surroundings is the    *)
(* breaker, and a half-open period is judged by its own requests and by    *)
(* stragglers, for any hosts, callers and settings.                        *)
(***************************************************************************)
EXTENDS BreakerRecovery, CircuitBreakerProofs

\* A call in flight to an open host has been so for as long as the host is
\* open; to a half-open one, it is of the period or older than it.
Dated(c) ==
    LET h == target[c] IN
    pc[c] = "inflight" =>
        /\ hb[h].state = "Open" => lasted[c] >= age[h]
        /\ hb[h].state = "HalfOpen" => c \in probes[h] \/ lasted[c] >= OpenTimeout

\* The inductive invariant.
RecoveryInv ==
    /\ TypeOK
    /\ lasted \in [Caller -> 0 .. OpenTimeout]
    /\ \A c \in Caller : Dated(c)

----------------------------------------------------------------------------
LEMMA StepRunsBreaker == [RecoveryNext]_recoveryVars => [Next]_breakerVars
  <1> SUFFICES ASSUME [RecoveryNext]_recoveryVars PROVE [Next]_breakerVars
    OBVIOUS
  <1>1. CASE ComeBack \/ UNCHANGED recoveryVars
    BY <1>1 DEF ComeBack, recoveryVars
  <1>2. CASE Pass
    BY <1>2 DEF Pass, Next
  <1>3. ASSUME NEW c \in Caller, Serve(c) PROVE [Next]_breakerVars
    <2>1. Outcome(c) => Report(c)
      BY DEF Outcome, Report
    <2> QED  BY <1>3, <2>1 DEF Serve, Next
  <1> QED  BY <1>1, <1>2, <1>3 DEF RecoveryNext

(* What a service and a deadline add to the breaker takes no step it could  *)
(* not take: its quota, its thresholds and its contract hold here too.      *)
THEOREM RecoveryRunsTheBreaker == RecoverySpec => Spec
  <1>1. RecoveryInit => Init
    BY DEF RecoveryInit
  <1> QED  BY <1>1, StepRunsBreaker, PTL DEF RecoverySpec, Spec

(* The breaker keeps its contract through an outage and a recovery (allow   *)
(* and the records, driven by a service that fails until it comes back).    *)
THEOREM RecoveryKeepsTheContract == RecoverySpec => ContractSpec
  BY RecoveryRunsTheBreaker, ImplementsContract

----------------------------------------------------------------------------
(* Each step of a caller, and the calls in flight around it.                *)

\* What a step of c leaves alone of the calls of the others.
Aside(c) ==
    \A d \in Caller \ {c} :
        pc'[d] = pc[d] /\ target'[d] = target[d] /\ lasted'[d] = lasted[d]

\* A step that changes neither the state nor the age of a host, and takes no
\* other call out of its period.
Untouched(c, h) ==
    /\ hb'[h].state = hb[h].state /\ age'[h] = age[h]
    /\ probes[h] \ {c} \subseteq probes'[h]

LEMMA AsideKeeps ==
    ASSUME RecoveryInv, TypeOK', NEW c \in Caller, Aside(c),
           lasted' \in [Caller -> 0 .. OpenTimeout], Dated(c)',
           \A h \in Host :
              \/ Untouched(c, h)
              \/ hb'[h].state = "Closed"
              \/ hb'[h].state = "Open" /\ age'[h] = 0
              \/ hb[h].state = "Open" /\ hb'[h].state = "HalfOpen" /\ age[h] = OpenTimeout
    PROVE  RecoveryInv'
  <1>1. ASSUME NEW d \in Caller \ {c} PROVE Dated(d)'
    <2>1. Dated(d) /\ target[d] \in Host /\ pc'[d] = pc[d] /\ target'[d] = target[d]
          /\ lasted'[d] = lasted[d] /\ lasted[d] \in Nat
      BY ConfigAssumption DEF RecoveryInv, TypeOK, Aside
    <2>2. hb[target[d]].state \in State
      BY <2>1 DEF RecoveryInv, TypeOK, Breaker
    <2> QED  BY <2>1, <2>2 DEF Dated, Untouched, State
  <1> QED  BY <1>1 DEF RecoveryInv

LEMMA AllowKeepsDated ==
    ASSUME RecoveryInv, TypeOK', NEW c \in Caller, Allow(c),
           lasted' = [lasted EXCEPT ![c] = IF pc'[c] = "inflight" THEN @ ELSE 0]
    PROVE  RecoveryInv'
  <1>1. /\ TypeOK /\ lasted \in [Caller -> 0 .. OpenTimeout] /\ OpenTimeout \in Nat
        /\ target[c] \in Host
    BY ConfigAssumption DEF RecoveryInv, TypeOK
  <1>2. lasted' \in [Caller -> 0 .. OpenTimeout]
    BY <1>1
  <1>3. Aside(c)
    BY <1>1 DEF Allow, AllowFast, AllowMiss, AllowClosed, AllowTransition, AllowProbe,
                AllowReject, TypeOK, Aside
  <1>4. ASSUME NEW h \in Host, AllowFast(c, h) \/ AllowMiss(c, h) PROVE RecoveryInv'
    <2>1. Dated(c)'
      BY <1>1, <1>4 DEF AllowFast, AllowMiss, Dated, TypeOK
    <2>2. \A k \in Host : Untouched(c, k)
      BY <1>4 DEF AllowFast, AllowMiss, Untouched
    <2> QED  BY <1>2, <1>3, <2>1, <2>2, AsideKeeps
  <1>5. CASE AllowClosed(c) \/ AllowReject(c)
    <2>1. Dated(c)'
      BY <1>1, <1>5 DEF AllowClosed, AllowReject, Dated, TypeOK
    <2>2. \A k \in Host : Untouched(c, k)
      BY <1>5 DEF AllowClosed, AllowReject, Untouched
    <2> QED  BY <1>2, <1>3, <2>1, <2>2, AsideKeeps
  <1>6. CASE AllowTransition(c)
    <2>0. PICK h \in Host : h = target[c]
      BY <1>1
    <2>1. /\ hb[h].state = "Open" /\ age[h] >= OpenTimeout
          /\ hb' = [hb EXCEPT ![h] = EnterHalfOpen(@)]
          /\ age' = [age EXCEPT ![h] = 0]
          /\ probes' = [probes EXCEPT ![h] = {c}] /\ target' = target
      BY <1>6, <2>0 DEF AllowTransition, Elapsed
    <2>2. hb'[h].state = "HalfOpen"
      BY <1>1, <2>1 DEF TypeOK, EnterHalfOpen, Breaker
    <2>3. age[h] = OpenTimeout /\ probes'[h] = {c}
      BY <1>1, <2>1 DEF TypeOK
    <2>4. \A k \in Host \ {h} : Untouched(c, k)
      BY <1>1, <2>1 DEF TypeOK, Untouched
    <2>5. Dated(c)'
      BY <2>0, <2>1, <2>2, <2>3 DEF Dated
    <2> QED  BY <1>2, <1>3, <2>1, <2>2, <2>3, <2>4, <2>5, AsideKeeps
  <1>7. CASE AllowProbe(c)
    <2> DEFINE h == target[c]
    <2>1. /\ hb[h].state = "HalfOpen" /\ age' = age /\ target' = target
          /\ hb' = [hb EXCEPT ![h] = AdmitOneMore(@)]
          /\ probes' = [probes EXCEPT ![h] = @ \cup {c}]
      BY <1>7 DEF AllowProbe
    <2>2. hb'[h].state = "HalfOpen" /\ probes'[h] = probes[h] \cup {c}
      BY <1>1, <2>1 DEF TypeOK, AdmitOneMore, Breaker
    <2>3. \A k \in Host : Untouched(c, k)
      BY <1>1, <2>1, <2>2 DEF TypeOK, Untouched
    <2>4. Dated(c)'
      BY <2>1, <2>2 DEF Dated
    <2> QED  BY <1>2, <1>3, <2>3, <2>4, AsideKeeps
  <1> QED  BY <1>4, <1>5, <1>6, <1>7 DEF Allow

LEMMA OutcomeKeepsDated ==
    ASSUME RecoveryInv, TypeOK', NEW c \in Caller, Outcome(c),
           lasted' = [lasted EXCEPT ![c] = IF pc'[c] = "inflight" THEN @ ELSE 0]
    PROVE  RecoveryInv'
  <1>1. /\ TypeOK /\ lasted \in [Caller -> 0 .. OpenTimeout] /\ OpenTimeout \in Nat
    BY ConfigAssumption DEF RecoveryInv
  <1>2. lasted' \in [Caller -> 0 .. OpenTimeout]
    BY <1>1
  <1>3. ASSUME NEW h \in Host, NEW b, Record(c, h, b),
               b.state = hb[h].state \/ b.state \in {"Closed", "Open"}
        PROVE  RecoveryInv'
    <2>1. /\ pc' = [pc EXCEPT ![c] = "idle"] /\ target' = [target EXCEPT ![c] = h]
          /\ hb' = [hb EXCEPT ![h] = b]
          /\ age' = IF b.state = hb[h].state THEN age ELSE [age EXCEPT ![h] = 0]
          /\ probes' = [k \in Host |-> IF k = h /\ b.state # "HalfOpen"
                                       THEN {} ELSE probes[k] \ {c}]
      BY <1>3 DEF Record
    <2>2. Aside(c) /\ Dated(c)'
      BY <1>1, <2>1 DEF TypeOK, Aside, Dated
    <2>3. \A k \in Host \ {h} : Untouched(c, k)
      BY <1>1, <2>1 DEF TypeOK, Untouched
    <2>4. hb'[h] = b
      BY <1>1, <2>1 DEF TypeOK
    <2>5. CASE b.state = "Closed"
      BY <1>2, <2>2, <2>3, <2>4, <2>5, AsideKeeps
    <2>6. CASE b.state = "Open" /\ hb[h].state # "Open"
      <3>1. age'[h] = 0
        BY <1>1, <2>1, <2>6 DEF TypeOK
      <3> QED  BY <1>2, <2>2, <2>3, <2>4, <2>6, <3>1, AsideKeeps
    <2>7. CASE b.state = "Open" /\ hb[h].state = "Open"
      <3>1. age' = age
        BY <2>1, <2>7
      <3>2. \A d \in Caller \ {c} : Dated(d)'
        <4> TAKE d \in Caller \ {c}
        <4>1. CASE target[d] = h
          BY <1>1, <2>1, <2>2, <2>4, <2>7, <3>1, <4>1 DEF RecoveryInv, Dated, Aside
        <4>2. CASE target[d] # h
          <5>1. target[d] \in Host \ {h}
            BY <1>1, <4>2 DEF TypeOK
          <5> QED  BY <2>2, <2>3, <5>1 DEF RecoveryInv, Dated, Aside, Untouched
        <4> QED  BY <4>1, <4>2
      <3> QED  BY <1>2, <2>2, <3>2 DEF RecoveryInv
    <2>8. CASE b.state = "HalfOpen" /\ hb[h].state = "HalfOpen"
      <3>1. Untouched(c, h)
        BY <1>1, <2>1, <2>4, <2>8 DEF Untouched
      <3> QED  BY <1>2, <2>2, <2>3, <3>1, AsideKeeps
    <2>9. hb[h].state \in State
      BY <1>1 DEF TypeOK, Breaker
    <2> QED  BY <1>3, <2>5, <2>6, <2>7, <2>8, <2>9 DEF State
  <1>4. PICK h \in Host : RecordSuccess(c, h) \/ RecordFailure(c, h)
    BY <1>1 DEF Outcome, ReportHosts, TypeOK
  <1>5. hb[h] \in Breaker
    BY <1>1 DEF TypeOK
  <1>6. CASE RecordSuccess(c, h)
    <2>1. /\ NewBreaker.state = "Closed" /\ OneMoreSuccess(hb[h]).state = hb[h].state
          /\ ForgetFailures(hb[h]).state = hb[h].state
      BY <1>5 DEF NewBreaker, OneMoreSuccess, ForgetFailures, Breaker
    <2> QED  BY <1>3, <1>6, <2>1 DEF RecordSuccess
  <1>7. CASE RecordFailure(c, h)
    <2>1. /\ Reopen(hb[h]).state = "Open"
          /\ OneMoreFailure(hb[h]).state = hb[h].state \/ OneMoreFailure(hb[h]).state = "Open"
      BY <1>5 DEF Reopen, OneMoreFailure, Breaker
    <2> QED  BY <1>3, <1>7, <2>1 DEF RecordFailure
  <1> QED  BY <1>4, <1>6, <1>7

LEMMA StepKeepsRecoveryInv ==
    RecoveryInv /\ TypeOK' /\ [RecoveryNext]_recoveryVars => RecoveryInv'
  <1> SUFFICES ASSUME RecoveryInv, TypeOK', [RecoveryNext]_recoveryVars
               PROVE  RecoveryInv'
    OBVIOUS
  <1>1. /\ TypeOK /\ lasted \in [Caller -> 0 .. OpenTimeout] /\ OpenTimeout \in Nat
    BY ConfigAssumption DEF RecoveryInv
  <1>2. ASSUME UNCHANGED <<hb, age, pc, target, probes, lasted>> PROVE RecoveryInv'
    BY <1>2 DEF RecoveryInv, Dated
  <1>3. CASE ComeBack \/ UNCHANGED recoveryVars
    BY <1>2, <1>3 DEF ComeBack, recoveryVars, breakerVars
  <1>4. CASE Pass
    <2>1. /\ lasted' = [c \in Caller |-> IF c \in InFlight /\ lasted[c] < OpenTimeout
                                         THEN lasted[c] + 1 ELSE lasted[c]]
          /\ age' = [h \in Host |-> IF Elapsed(h) THEN age[h] ELSE age[h] + 1]
          /\ UNCHANGED <<hb, pc, target, probes>>
      BY <1>4 DEF Pass, Tick
    <2>2. lasted' \in [Caller -> 0 .. OpenTimeout]
      BY <1>1, <2>1
    <2>3. ASSUME NEW c \in Caller PROVE Dated(c)'
      <3> DEFINE h == target[c]
      <3>1. h \in Host /\ lasted[c] \in 0 .. OpenTimeout /\ age[h] \in 0 .. OpenTimeout
        BY <1>1 DEF TypeOK
      <3>2. age'[h] = IF age[h] >= OpenTimeout THEN age[h] ELSE age[h] + 1
        BY <2>1, <3>1 DEF Elapsed
      <3>3. pc[c] = "inflight" =>
              lasted'[c] = IF lasted[c] < OpenTimeout THEN lasted[c] + 1 ELSE lasted[c]
        BY <2>1 DEF InFlight
      <3>4. Dated(c)
        BY DEF RecoveryInv
      <3>5. pc[c] = "inflight" /\ lasted[c] >= age[h] => lasted'[c] >= age'[h]
        BY <1>1, <3>1, <3>2, <3>3
      <3>6. pc[c] = "inflight" /\ lasted[c] >= OpenTimeout => lasted'[c] >= OpenTimeout
        BY <1>1, <3>1, <3>3
      <3> QED  BY <2>1, <3>4, <3>5, <3>6 DEF Dated
    <2> QED  BY <2>2, <2>3 DEF RecoveryInv
  <1>5. ASSUME NEW c \in Caller, Serve(c) PROVE RecoveryInv'
    <2>1. CASE EmitGauge(c)
      <3>1. lasted' \in [Caller -> 0 .. OpenTimeout]
        BY <1>1, <1>5 DEF Serve
      <3>2. \A d \in Caller : pc[d] = "inflight" => lasted'[d] = lasted[d]
        BY <1>1, <1>5, <2>1 DEF Serve, EmitGauge
      <3> QED  BY <2>1, <3>1, <3>2 DEF EmitGauge, RecoveryInv, Dated
    <2> QED  BY <1>5, <2>1, AllowKeepsDated, OutcomeKeepsDated DEF Serve
  <1> QED  BY <1>3, <1>4, <1>5 DEF RecoveryNext

LEMMA InitIsRecoveryInv == RecoveryInit => RecoveryInv
  <1> SUFFICES ASSUME RecoveryInit PROVE RecoveryInv
    OBVIOUS
  <1>1. TypeOK
    BY InitIsIInv DEF RecoveryInit, IInv
  <1>2. lasted \in [Caller -> 0 .. OpenTimeout]
    BY ConfigAssumption DEF RecoveryInit
  <1> QED  BY <1>1, <1>2 DEF RecoveryInit, Init, RecoveryInv, Dated

(* While a host is open nothing is admitted to it, so that what is still in *)
(* flight to it has been so for as long as it is open (allow).              *)
THEOREM RecoveryInvariance == RecoverySpec => []RecoveryInv
  <1>1. Spec => []TypeOK
    BY TypeCorrect
  <1> QED  BY <1>1, RecoveryRunsTheBreaker, InitIsRecoveryInv, StepKeepsRecoveryInv, PTL
           DEF RecoverySpec

(* A report that comes late can decide a half-open period only when its     *)
(* request took OpenTimeout or longer (recordSuccess and recordFailure,     *)
(* which do not know when a request was admitted).                          *)
THEOREM PeriodsAreJudgedByTheirOwn == RecoverySpec => []JudgedByItsOwn
  <1>1. RecoveryInv => JudgedByItsOwn
    BY DEF RecoveryInv, Dated, JudgedByItsOwn, InFlight
  <1> QED  BY <1>1, RecoveryInvariance, PTL
=============================================================================

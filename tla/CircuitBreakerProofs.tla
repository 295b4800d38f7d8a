------------------------ MODULE CircuitBreakerProofs ------------------------
(***************************************************************************)
(* Proofs about CircuitBreaker for every set of hosts, every finite set of *)
(* callers and every configuration, the unvalidated ones included.         *)
(***************************************************************************)
EXTENDS CircuitBreaker, TLAPS, FiniteSetTheorems

\* What holds of one breaker b, its failure streak s and its outstanding
\* probes P between two critical sections.
Sound(b, s, P) ==
    /\ b \in Breaker
    /\ b.state = "Closed" => /\ b.failures = s /\ s < Threshold
                             /\ b.halfOpenSuccess = 0 /\ b.halfOpenAllowed = 0
                             /\ P = {}
    /\ b.state = "Open" => /\ b.halfOpenSuccess = 0 /\ b.halfOpenAllowed = 0
                           /\ P = {}
    /\ b.state = "HalfOpen" => /\ b.halfOpenAllowed >= 1
                               /\ Cardinality(P) <= b.halfOpenAllowed

\* The inductive invariant.
IInv == TypeOK /\ \A h \in Host : Sound(hb[h], streak[h], probes[h])

----------------------------------------------------------------------------
(* The two configured counts act as positive integers.                      *)
LEMMA CountFacts ==
    /\ Threshold \in Nat \ {0} /\ Quota \in Nat \ {0}
    /\ \A i \in Int : i >= MaxFailures /\ i >= 1 <=> i >= Threshold
    /\ \A i \in Int : i >= HalfOpenMaxRequests /\ i >= 1 <=> i >= Quota
  BY ConfigAssumption DEF Threshold, Quota, AtLeastOne

(* Removing one caller leaves a finite set no larger; adding one adds at    *)
(* most one.                                                                *)
LEMMA ProbeSetFacts ==
    ASSUME NEW P \in SUBSET Caller, NEW c \in Caller
    PROVE  /\ IsFiniteSet(P) /\ Cardinality(P) \in Nat
           /\ IsFiniteSet(P \ {c}) /\ Cardinality(P \ {c}) \in Nat
           /\ Cardinality(P \ {c}) <= Cardinality(P)
           /\ Cardinality(P) <= Cardinality(P \ {c}) + 1
           /\ c \notin P => Cardinality(P \cup {c}) = Cardinality(P) + 1
           /\ Cardinality(P \cup {c}) <= Cardinality(P) + 1
           /\ Cardinality(P \cup {c}) \in Nat
           /\ Cardinality({}) = 0 /\ Cardinality({c}) = 1
  <1>1. IsFiniteSet(P) /\ Cardinality(P) \in Nat
    BY SetAssumption, FS_Subset, FS_CardinalityType
  <1>2. /\ IsFiniteSet(P \ {c})
        /\ Cardinality(P \ {c}) = IF c \in P THEN Cardinality(P) - 1 ELSE Cardinality(P)
    BY <1>1, FS_RemoveElement
  <1>3. Cardinality(P \cup {c}) = IF c \in P THEN Cardinality(P) ELSE Cardinality(P) + 1
    BY <1>1, FS_AddElement
  <1>4. Cardinality(P \ {c}) \in Nat
    BY <1>2, FS_CardinalityType
  <1>5. Cardinality({}) = 0 /\ Cardinality({c}) = 1
    BY FS_EmptySet, FS_Singleton
  <1> QED  BY <1>1, <1>2, <1>3, <1>4, <1>5

(* Every change a critical section makes to a breaker keeps it sound.       *)
LEMMA ClosedAnewIsSound == Sound(NewBreaker, 0, {})
  BY CountFacts DEF Sound, NewBreaker, Breaker, State

(* A success that does not close keeps the period's count below the quota. *)
LEMMA OneMoreSuccessIsSound ==
    ASSUME NEW b, NEW s \in 0 .. Threshold, NEW P \in SUBSET Caller,
           NEW c \in Caller, Sound(b, s, P), b.state = "HalfOpen", ~ ClosesIt(b)
    PROVE  Sound(OneMoreSuccess(b), 0, P \ {c})
  <1> DEFINE e == OneMoreSuccess(b)
  <1>1. b \in Breaker /\ b.halfOpenAllowed >= 1 /\ Cardinality(P) <= b.halfOpenAllowed
    BY DEF Sound
  <1>2. b.halfOpenSuccess + 1 \in 0 .. Quota - 1
    BY <1>1, ConfigAssumption DEF Breaker, ClosesIt, Quota, AtLeastOne
  <1>3. e \in Breaker /\ e.state = "HalfOpen" /\ e.halfOpenAllowed = b.halfOpenAllowed
    BY <1>1, <1>2 DEF OneMoreSuccess, Breaker
  <1>4. b.halfOpenAllowed \in Nat
    BY <1>1, CountFacts DEF Breaker
  <1>5. /\ Cardinality(P \ {c}) <= Cardinality(P)
        /\ Cardinality(P) \in Nat /\ Cardinality(P \ {c}) \in Nat
    BY ProbeSetFacts
  <1>6. Cardinality(P \ {c}) <= b.halfOpenAllowed
    BY <1>1, <1>4, <1>5
  <1> QED  BY <1>1, <1>3, <1>6 DEF Sound

(* A success on a closed breaker starts the count of failures anew.         *)
LEMMA ForgetFailuresIsSound ==
    ASSUME NEW b, NEW s, Sound(b, s, {}), b.state = "Closed"
    PROVE  Sound(ForgetFailures(b), 0, {})
  BY CountFacts DEF Sound, ForgetFailures, Breaker

(* A failure on a closed breaker is counted, or is the one that trips it.   *)
LEMMA OneMoreFailureIsSound ==
    ASSUME NEW b, NEW s \in 0 .. Threshold, Sound(b, s, {}), b.state = "Closed"
    PROVE  Sound(OneMoreFailure(b), s + 1, {}) /\ s + 1 <= Threshold
  <1>1. /\ b \in Breaker /\ b.failures = s /\ s < Threshold
        /\ b.halfOpenSuccess = 0 /\ b.halfOpenAllowed = 0
        /\ s + 1 \in 0 .. Threshold
    BY CountFacts DEF Sound
  <1> DEFINE e == OneMoreFailure(b)
  <1>2. /\ e \in Breaker /\ e.failures = s + 1
        /\ e.halfOpenSuccess = 0 /\ e.halfOpenAllowed = 0
        /\ e.state = IF Trips(b) THEN "Open" ELSE "Closed"
    BY <1>1, CountFacts DEF OneMoreFailure, Breaker, State
  <1>3. ~ Trips(b) => s + 1 < Threshold
    BY <1>1, ConfigAssumption DEF Threshold, AtLeastOne, Trips
  <1> QED  BY <1>1, <1>2, <1>3 DEF Sound

(* A failure on a half-open breaker ends the period and its counts.         *)
LEMMA ReopenIsSound ==
    ASSUME NEW b, NEW s, NEW P, Sound(b, s, P), NEW t
    PROVE  Sound(Reopen(b), t, {}) /\ Reopen(b).state = "Open"
  <1>1. b \in Breaker
    BY DEF Sound
  <1>2. /\ Reopen(b) \in Breaker /\ Reopen(b).state = "Open"
        /\ Reopen(b).halfOpenSuccess = 0 /\ Reopen(b).halfOpenAllowed = 0
    <2>1. 0 \in 0 .. Quota - 1 /\ 0 \in 0 .. Quota
      BY CountFacts
    <2> QED  BY <1>1, <2>1 DEF Reopen, Breaker, State
  <1> QED  BY <1>2 DEF Sound

(* The first request of a half-open period is one admission and one probe.  *)
LEMMA EnterHalfOpenIsSound ==
    ASSUME NEW b, NEW s, NEW P, Sound(b, s, P), b.state = "Open", NEW c \in Caller
    PROVE  Sound(EnterHalfOpen(b), s, {c}) /\ EnterHalfOpen(b).state = "HalfOpen"
  <1>1. Cardinality({c}) = 1
    BY ProbeSetFacts
  <1>2. b \in Breaker
    BY DEF Sound
  <1>3. /\ EnterHalfOpen(b) \in Breaker /\ EnterHalfOpen(b).state = "HalfOpen"
        /\ EnterHalfOpen(b).halfOpenAllowed = 1
    <2>1. 1 \in 0 .. Quota
      BY CountFacts
    <2> QED  BY <1>2, <2>1 DEF EnterHalfOpen, Breaker, State
  <1> QED  BY <1>1, <1>3 DEF Sound

(* A further request of the period is admitted while there is room for it.  *)
LEMMA AdmitOneMoreIsSound ==
    ASSUME NEW b, NEW s, NEW P \in SUBSET Caller, NEW c \in Caller,
           Sound(b, s, P), b.state = "HalfOpen", ~ HalfOpenFull(b)
    PROVE  Sound(AdmitOneMore(b), s, P \cup {c}) /\ AdmitOneMore(b).state = "HalfOpen"
  <1>1. /\ b \in Breaker /\ b.halfOpenAllowed >= 1 /\ b.halfOpenAllowed \in Nat
        /\ Cardinality(P) <= b.halfOpenAllowed
    BY CountFacts DEF Sound, Breaker
  <1>2. b.halfOpenAllowed + 1 \in 0 .. Quota
    BY <1>1, ConfigAssumption DEF HalfOpenFull, Quota, AtLeastOne
  <1>3. Cardinality(P \cup {c}) <= Cardinality(P) + 1 /\ Cardinality(P) \in Nat
        /\ Cardinality(P \cup {c}) \in Nat
    BY ProbeSetFacts
  <1>4. Cardinality(P \cup {c}) <= b.halfOpenAllowed + 1
    BY <1>1, <1>3
  <1>5. /\ AdmitOneMore(b) \in Breaker /\ AdmitOneMore(b).state = "HalfOpen"
        /\ AdmitOneMore(b).halfOpenAllowed = b.halfOpenAllowed + 1
    BY <1>1, <1>2 DEF AdmitOneMore, Breaker
  <1> QED  BY <1>1, <1>4, <1>5 DEF Sound

(* A call that ends takes its probe away.                                   *)
LEMMA FewerProbesIsSound ==
    ASSUME NEW b, NEW s, NEW P \in SUBSET Caller, NEW c \in Caller, Sound(b, s, P)
    PROVE  Sound(b, s, P \ {c})
  <1>1. b \in Breaker /\ b.halfOpenAllowed \in Nat
    BY CountFacts DEF Sound, Breaker
  <1>2. Cardinality(P \ {c}) <= Cardinality(P) /\ Cardinality(P) \in Nat
        /\ Cardinality(P \ {c}) \in Nat
    BY ProbeSetFacts
  <1>3. P = {} => P \ {c} = {}
    OBVIOUS
  <1> QED  BY <1>1, <1>2, <1>3 DEF Sound

----------------------------------------------------------------------------
(* A record, given that the breaker it leaves is sound for the streak and   *)
(* the probes it leaves.                                                    *)
LEMMA RecordKeepsIInv ==
    ASSUME IInv, NEW c \in Caller, NEW h \in Host, NEW b, NEW s \in 0 .. Threshold,
           Sound(b, s, IF b.state # "HalfOpen" THEN {} ELSE probes[h] \ {c}),
           streak' = [streak EXCEPT ![h] = s],
           Record(c, h, b)
    PROVE  IInv'
  <1>1. b \in Breaker /\ b.state \in State
    BY DEF Sound, Breaker
  <1>2. TypeOK'
    <2>1. known' \subseteq Host /\ gauge' \in [Host -> State \cup {"unset"}]
      BY DEF IInv, TypeOK, Record, GetOrCreate, State
    <2>2. hb' \in [Host -> Breaker] /\ streak' \in [Host -> 0 .. Threshold]
      BY <1>1 DEF IInv, TypeOK, Record
    <2>3. age' \in [Host -> 0 .. OpenTimeout]
      BY ConfigAssumption DEF IInv, TypeOK, Record
    <2>4. /\ pc' \in [Caller -> {"idle", "slow", "inflight"}]
          /\ target' \in [Caller -> Host]
          /\ emit' \in [Caller -> State \cup {"none"}]
      BY <1>1 DEF IInv, TypeOK, Record
    <2>5. probes' \in [Host -> SUBSET Caller]
      BY DEF IInv, TypeOK, Record
    <2> QED  BY <2>1, <2>2, <2>3, <2>4, <2>5 DEF TypeOK
  <1>3. ASSUME NEW k \in Host PROVE Sound(hb[k], streak[k], probes[k])'
    <2>1. CASE k = h
      <3>1. hb'[k] = b /\ streak'[k] = s
        BY <2>1 DEF IInv, TypeOK, Record
      <3>2. probes'[k] = IF b.state # "HalfOpen" THEN {} ELSE probes[h] \ {c}
        BY <2>1 DEF Record
      <3> QED  BY <3>1, <3>2
    <2>2. CASE k # h
      <3>1. hb'[k] = hb[k] /\ streak'[k] = streak[k] /\ probes'[k] = probes[k] \ {c}
        BY <2>2 DEF IInv, TypeOK, Record
      <3>2. Sound(hb[k], streak[k], probes[k]) /\ probes[k] \in SUBSET Caller
        BY DEF IInv, TypeOK
      <3> QED  BY <3>1, <3>2, FewerProbesIsSound
    <2> QED  BY <2>1, <2>2
  <1> QED  BY <1>2, <1>3 DEF IInv

(* A step that leaves the breakers, streaks and probes alone keeps them     *)
(* sound.                                                                   *)
LEMMA SameBreakers ==
    ASSUME IInv, UNCHANGED <<hb, streak, probes>>, TypeOK'
    PROVE  IInv'
  BY DEF IInv

(* recordSuccess, by the state it finds.                                    *)
LEMMA RecordSuccessKeepsIInv ==
    ASSUME IInv, NEW c \in Caller, NEW h \in Host, RecordSuccess(c, h)
    PROVE  IInv'
  <1> USE CountFacts
  <1>1. /\ Sound(hb[h], streak[h], probes[h]) /\ probes[h] \in SUBSET Caller
        /\ streak[h] \in 0 .. Threshold /\ 0 \in 0 .. Threshold
    BY DEF IInv, TypeOK
  <1>2. streak' = [streak EXCEPT ![h] = 0]
    BY DEF RecordSuccess
  <1>3. CASE hb[h].state = "HalfOpen" /\ ClosesIt(hb[h]) /\ Record(c, h, NewBreaker)
    <2>1. NewBreaker.state # "HalfOpen"
      BY DEF NewBreaker
    <2> QED  BY <1>1, <1>2, <1>3, <2>1, ClosedAnewIsSound, RecordKeepsIInv
  <1>4. CASE /\ hb[h].state = "HalfOpen" /\ ~ ClosesIt(hb[h])
             /\ Record(c, h, OneMoreSuccess(hb[h]))
    <2>1. OneMoreSuccess(hb[h]).state = "HalfOpen"
      BY <1>1, <1>4 DEF OneMoreSuccess, Sound, Breaker
    <2>2. Sound(OneMoreSuccess(hb[h]), 0, probes[h] \ {c})
      BY <1>1, <1>4, OneMoreSuccessIsSound
    <2> QED  BY <1>1, <1>2, <1>4, <2>1, <2>2, RecordKeepsIInv
  <1>5. CASE hb[h].state = "Closed" /\ Record(c, h, ForgetFailures(hb[h]))
    <2>1. ForgetFailures(hb[h]).state # "HalfOpen"
      BY <1>1, <1>5 DEF ForgetFailures, Sound, Breaker
    <2>2. probes[h] = {}
      BY <1>1, <1>5 DEF Sound
    <2>3. Sound(ForgetFailures(hb[h]), 0, {})
      BY <1>1, <1>5, <2>2, ForgetFailuresIsSound
    <2> QED  BY <1>1, <1>2, <1>5, <2>1, <2>3, RecordKeepsIInv
  <1>6. CASE hb[h].state = "Open" /\ Record(c, h, hb[h])
    <2>1. Sound(hb[h], 0, {})
      BY <1>1, <1>6 DEF Sound
    <2> QED  BY <1>1, <1>2, <1>6, <2>1, RecordKeepsIInv
  <1> QED  BY <1>3, <1>4, <1>5, <1>6 DEF RecordSuccess

(* recordFailure, by the state it finds.                                    *)
LEMMA RecordFailureKeepsIInv ==
    ASSUME IInv, NEW c \in Caller, NEW h \in Host, RecordFailure(c, h)
    PROVE  IInv'
  <1> DEFINE s == IF streak[h] < Threshold THEN streak[h] + 1 ELSE streak[h]
  <1>1. /\ Sound(hb[h], streak[h], probes[h]) /\ probes[h] \in SUBSET Caller
        /\ streak[h] \in 0 .. Threshold
    BY DEF IInv, TypeOK
  <1>2. s \in 0 .. Threshold
    BY <1>1, CountFacts
  <1>3. streak' = [streak EXCEPT ![h] = s]
    BY DEF RecordFailure, IInv, TypeOK
  <1>4. CASE hb[h].state = "HalfOpen" /\ Record(c, h, Reopen(hb[h]))
    <2>1. Sound(Reopen(hb[h]), s, {}) /\ Reopen(hb[h]).state # "HalfOpen"
      BY <1>1, ReopenIsSound
    <2> HIDE DEF s
    <2> QED  BY <1>2, <1>3, <1>4, <2>1, RecordKeepsIInv
  <1>5. CASE hb[h].state = "Closed" /\ Record(c, h, OneMoreFailure(hb[h]))
    <2>1. probes[h] = {} /\ streak[h] < Threshold
      BY <1>1, <1>5 DEF Sound
    <2>2. s = streak[h] + 1
      BY <2>1
    <2>3. Sound(OneMoreFailure(hb[h]), s, {})
      BY <1>1, <1>5, <2>1, <2>2, OneMoreFailureIsSound
    <2>4. OneMoreFailure(hb[h]).state # "HalfOpen"
      BY <1>1, <1>5 DEF OneMoreFailure, Sound, Breaker
    <2> HIDE DEF s
    <2> QED  BY <1>2, <1>3, <1>5, <2>3, <2>4, RecordKeepsIInv
  <1>6. CASE hb[h].state = "Open" /\ Record(c, h, hb[h])
    <2>1. Sound(hb[h], s, {})
      BY <1>1, <1>6 DEF Sound
    <2> HIDE DEF s
    <2> QED  BY <1>2, <1>3, <1>6, <2>1, RecordKeepsIInv
  <1> QED  BY <1>4, <1>5, <1>6 DEF RecordFailure

(* One step, one case per action.                                           *)
LEMMA StepKeepsIInv == IInv /\ [Next]_breakerVars => IInv'
  <1> SUFFICES ASSUME IInv, [Next]_breakerVars PROVE IInv'
    OBVIOUS
  <1>1. ASSUME NEW c \in Caller, NEW h \in Host, AllowFast(c, h) \/ AllowMiss(c, h)
        PROVE  IInv'
    <2>1. TypeOK'
      BY <1>1 DEF IInv, TypeOK, AllowFast, AllowMiss
    <2> QED  BY <1>1, <2>1, SameBreakers DEF AllowFast, AllowMiss
  <1>2. ASSUME NEW c \in Caller, AllowClosed(c) PROVE IInv'
    <2>1. TypeOK'
      BY <1>2 DEF IInv, TypeOK, AllowClosed, GetOrCreate, State
    <2> QED  BY <1>2, <2>1, SameBreakers DEF AllowClosed
  <1>3. ASSUME NEW c \in Caller, AllowTransition(c) PROVE IInv'
    <2> DEFINE h == target[c]
    <2>1. h \in Host /\ Sound(hb[h], streak[h], probes[h])
      BY DEF IInv, TypeOK
    <2>2. Sound(EnterHalfOpen(hb[h]), streak[h], {c})
      BY <1>3, <2>1, EnterHalfOpenIsSound DEF AllowTransition
    <2>3. EnterHalfOpen(hb[h]) \in Breaker
      BY <2>2 DEF Sound
    <2>4. TypeOK'
      BY <1>3, <2>1, <2>3, ConfigAssumption DEF IInv, TypeOK, AllowTransition, State
    <2>5. ASSUME NEW k \in Host PROVE Sound(hb[k], streak[k], probes[k])'
      <3>1. CASE k = h
        BY <1>3, <2>1, <2>2, <3>1 DEF IInv, TypeOK, AllowTransition
      <3>2. CASE k # h
        BY <1>3, <3>2 DEF IInv, TypeOK, AllowTransition
      <3> QED  BY <3>1, <3>2
    <2> QED  BY <2>4, <2>5 DEF IInv
  <1>4. ASSUME NEW c \in Caller, AllowProbe(c) PROVE IInv'
    <2> DEFINE h == target[c]
    <2>1. h \in Host /\ Sound(hb[h], streak[h], probes[h]) /\ probes[h] \in SUBSET Caller
      BY DEF IInv, TypeOK
    <2>2. Sound(AdmitOneMore(hb[h]), streak[h], probes[h] \cup {c})
      BY <1>4, <2>1, AdmitOneMoreIsSound DEF AllowProbe
    <2>3. AdmitOneMore(hb[h]) \in Breaker
      BY <2>2 DEF Sound
    <2>4. TypeOK'
      BY <1>4, <2>1, <2>3 DEF IInv, TypeOK, AllowProbe
    <2>5. ASSUME NEW k \in Host PROVE Sound(hb[k], streak[k], probes[k])'
      <3>1. CASE k = h
        BY <1>4, <2>1, <2>2, <3>1 DEF IInv, TypeOK, AllowProbe
      <3>2. CASE k # h
        BY <1>4, <3>2 DEF IInv, TypeOK, AllowProbe
      <3> QED  BY <3>1, <3>2
    <2> QED  BY <2>4, <2>5 DEF IInv
  <1>5. ASSUME NEW c \in Caller, AllowReject(c) PROVE IInv'
    <2>1. TypeOK'
      BY <1>5 DEF IInv, TypeOK, AllowReject
    <2> QED  BY <1>5, <2>1, SameBreakers DEF AllowReject
  <1>6. ASSUME NEW c \in Caller, Report(c) PROVE IInv'
    <2>1. PICK h \in ReportHosts(c) : RecordSuccess(c, h) \/ RecordFailure(c, h)
      BY <1>6 DEF Report
    <2>2. h \in Host
      BY DEF ReportHosts, IInv, TypeOK
    <2> QED  BY <2>1, <2>2, RecordSuccessKeepsIInv, RecordFailureKeepsIInv
  <1>7. ASSUME NEW c \in Caller, EmitGauge(c) PROVE IInv'
    <2>1. TypeOK'
      BY <1>7 DEF IInv, TypeOK, EmitGauge, State
    <2> QED  BY <1>7, <2>1, SameBreakers DEF EmitGauge
  <1>8. ASSUME NEW c \in Caller, Abandon(c) PROVE IInv'
    <2>1. TypeOK'
      BY <1>8 DEF IInv, TypeOK, Abandon
    <2>2. ASSUME NEW k \in Host PROVE Sound(hb[k], streak[k], probes[k])'
      <3>1. Sound(hb[k], streak[k], probes[k]) /\ probes[k] \in SUBSET Caller
        BY DEF IInv, TypeOK
      <3>2. hb'[k] = hb[k] /\ streak'[k] = streak[k] /\ probes'[k] = probes[k] \ {c}
        BY <1>8 DEF Abandon
      <3> QED  BY <3>1, <3>2, FewerProbesIsSound
    <2> QED  BY <2>1, <2>2 DEF IInv
  <1>9. CASE Tick
    <2>1. TypeOK'
      BY <1>9, ConfigAssumption DEF IInv, TypeOK, Tick, Elapsed
    <2> QED  BY <1>9, <2>1, SameBreakers DEF Tick
  <1>10. CASE UNCHANGED breakerVars
    BY <1>10 DEF breakerVars, IInv, TypeOK
  <1> QED
    BY <1>1, <1>2, <1>3, <1>4, <1>5, <1>6, <1>7, <1>8, <1>9, <1>10 DEF Next, Allow

(* A client without breakers satisfies the invariant.                       *)
LEMMA InitIsIInv == Init => IInv
  <1> SUFFICES ASSUME Init PROVE IInv
    OBVIOUS
  <1>1. NewBreaker \in Breaker /\ Sound(NewBreaker, 0, {})
    BY ClosedAnewIsSound DEF Sound
  <1>2. (CHOOSE h \in Host : TRUE) \in Host
    BY SetAssumption
  <1>3. TypeOK
    BY <1>1, <1>2, CountFacts, ConfigAssumption DEF Init, TypeOK
  <1> QED  BY <1>1, <1>3 DEF IInv, Init

(* The inductive invariant: every host's breaker is sound for the failures   *)
(* recorded and the requests outstanding, in every reachable state.          *)
THEOREM Invariance == Spec => []IInv
  BY InitIsIInv, StepKeepsIInv, PTL DEF Spec

(* The counters of every breaker stay in their ranges and every variable    *)
(* has its type, although allow and the records only add to the counters.   *)
THEOREM TypeCorrect == Spec => []TypeOK
  <1>1. IInv => TypeOK
    BY DEF IInv
  <1> QED  BY <1>1, Invariance, PTL

(* Never more than Quota requests of one half-open period are outstanding,  *)
(* for any number of callers racing through allow.                          *)
THEOREM QuotaHolds == Spec => []ProbesWithinQuota
  <1>1. IInv => ProbesWithinQuota
    <2> SUFFICES ASSUME IInv, NEW h \in Host PROVE Cardinality(probes[h]) <= Quota
      BY DEF ProbesWithinQuota
    <2>1. /\ Sound(hb[h], streak[h], probes[h]) /\ hb[h] \in Breaker
      BY DEF IInv, Sound
    <2>2. hb[h].state # "HalfOpen" => Cardinality(probes[h]) = 0
      BY <2>1, FS_EmptySet DEF Sound, Breaker, State
    <2>3. hb[h].halfOpenAllowed \in 0 .. Quota /\ probes[h] \in SUBSET Caller
      BY <2>1 DEF Breaker, IInv, TypeOK
    <2>4. Cardinality(probes[h]) \in Nat
      BY <2>3, SetAssumption, FS_Subset, FS_CardinalityType
    <2> QED  BY <2>1, <2>2, <2>3, <2>4, CountFacts DEF Sound
  <1> QED  BY <1>1, Invariance, PTL

(* A closed breaker has counted exactly the failures recorded since the     *)
(* last success, and fewer than trip it.                                    *)
THEOREM StreakIsCounted == Spec => []ClosedBelowThreshold
  <1>1. IInv => ClosedBelowThreshold
    BY DEF IInv, Sound, ClosedBelowThreshold
  <1> QED  BY <1>1, Invariance, PTL
----------------------------------------------------------------------------
(* Without request hooks that fail or rewrite the URL, every admission of a *)
(* half-open period is paid for by a recorded success or by a request that  *)
(* is still outstanding.                                                    *)
Owed(b, P) == b.state = "HalfOpen" =>
                  b.halfOpenAllowed <= b.halfOpenSuccess + Cardinality(P)

Waits(c, h) == pc[c] = "inflight" /\ target[c] = h

Paid == \A h \in Host : /\ \A c \in probes[h] : Waits(c, h)
                        /\ Owed(hb[h], probes[h])

(* Steps of one caller that touch no breaker and take no probe away: what   *)
(* they do to pc and target concerns a caller that is no probe.             *)
LEMMA OtherProbesWait ==
    ASSUME IInv, Paid, NEW c \in Caller, pc[c] # "inflight",
           UNCHANGED <<hb, probes>>,
           \A d \in Caller \ {c} : pc'[d] = pc[d] /\ target'[d] = target[d]
    PROVE  Paid'
  <1>1. ASSUME NEW h \in Host, NEW d \in probes[h] PROVE Waits(d, h)'
    BY DEF Paid, Waits, IInv, TypeOK
  <1> QED  BY <1>1 DEF Paid, Owed

(* A record on the host the caller asked for.                               *)
LEMMA RecordKeepsPaid ==
    ASSUME IInv, Paid, NEW c \in Caller, NEW b, Record(c, target[c], b),
           b.state = "HalfOpen" => Owed(b, probes[target[c]] \ {c})
    PROVE  Paid'
  <1> DEFINE h == target[c]
  <1>1. h \in Host
    BY DEF IInv, TypeOK
  <1>2. ASSUME NEW k \in Host PROVE Owed(hb[k], probes[k])'
    <2>1. CASE k = h
      <3>1. /\ hb'[k] = b
            /\ probes'[k] = IF b.state # "HalfOpen" THEN {} ELSE probes[h] \ {c}
        BY <2>1 DEF IInv, TypeOK, Record
      <3> QED  BY <3>1 DEF Owed
    <2>2. CASE k # h
      <3>1. hb'[k] = hb[k] /\ probes'[k] = probes[k] \ {c}
        BY <2>2 DEF IInv, TypeOK, Record
      <3>2. c \notin probes[k]
        BY <2>2 DEF Paid, Waits
      <3> QED  BY <3>1, <3>2 DEF Paid, Owed
    <2> QED  BY <2>1, <2>2
  <1>3. ASSUME NEW k \in Host, NEW d \in probes'[k] PROVE Waits(d, k)'
    <2>1. d \in probes[k] /\ d # c /\ d \in Caller
      BY <1>3 DEF Record, IInv, TypeOK
    <2> QED  BY <2>1 DEF Paid, Waits, Record, IInv, TypeOK
  <1> QED  BY <1>2, <1>3 DEF Paid

(* A report pays for its own admission and for no other.                    *)
LEMMA ReportKeepsPaid ==
    ASSUME HookEffects = {}, IInv, Paid, NEW c \in Caller, Report(c)
    PROVE  Paid'
  <1> DEFINE h == target[c]
  <1>1. RecordSuccess(c, h) \/ RecordFailure(c, h)
    BY DEF Report, ReportHosts
  <1>2. /\ h \in Host /\ Sound(hb[h], streak[h], probes[h])
        /\ probes[h] \in SUBSET Caller /\ hb[h] \in Breaker /\ Owed(hb[h], probes[h])
    BY DEF IInv, TypeOK, Paid
  <1>3. /\ hb[h].halfOpenAllowed \in Nat /\ hb[h].halfOpenSuccess \in Nat
    BY <1>2, CountFacts DEF Breaker
  <1>4. /\ Cardinality(probes[h]) <= Cardinality(probes[h] \ {c}) + 1
        /\ Cardinality(probes[h]) \in Nat /\ Cardinality(probes[h] \ {c}) \in Nat
    BY <1>2, ProbeSetFacts
  <1>5. ASSUME NEW b, Record(c, h, b), b.state # "HalfOpen" PROVE Paid'
    BY <1>5, RecordKeepsPaid
  <1>6. CASE /\ hb[h].state = "HalfOpen" /\ ~ ClosesIt(hb[h])
             /\ Record(c, h, OneMoreSuccess(hb[h]))
    <2>1. /\ OneMoreSuccess(hb[h]).halfOpenSuccess = hb[h].halfOpenSuccess + 1
          /\ OneMoreSuccess(hb[h]).halfOpenAllowed = hb[h].halfOpenAllowed
      BY <1>2 DEF OneMoreSuccess, Breaker
    <2>2. Owed(OneMoreSuccess(hb[h]), probes[h] \ {c})
      BY <1>2, <1>3, <1>4, <1>6, <2>1 DEF Owed
    <2> QED  BY <1>6, <2>2, RecordKeepsPaid
  <1>7. CASE hb[h].state = "Closed" /\ Record(c, h, ForgetFailures(hb[h]))
    <2>1. ForgetFailures(hb[h]).state # "HalfOpen"
      BY <1>2, <1>7 DEF ForgetFailures, Breaker
    <2> QED  BY <1>5, <1>7, <2>1
  <1>8. CASE hb[h].state = "HalfOpen" /\ Record(c, h, Reopen(hb[h]))
    <2>1. Reopen(hb[h]).state # "HalfOpen"
      BY <1>2, ReopenIsSound
    <2> QED  BY <1>5, <1>8, <2>1
  <1>9. CASE hb[h].state = "Closed" /\ Record(c, h, OneMoreFailure(hb[h]))
    <2>1. OneMoreFailure(hb[h]).state # "HalfOpen"
      BY <1>2, <1>9 DEF OneMoreFailure, Breaker
    <2> QED  BY <1>5, <1>9, <2>1
  <1>10. CASE hb[h].state = "Open" /\ Record(c, h, hb[h])
    BY <1>5, <1>10
  <1>11. CASE Record(c, h, NewBreaker)
    <2>1. NewBreaker.state # "HalfOpen"
      BY DEF NewBreaker
    <2> QED  BY <1>5, <1>11, <2>1
  <1> QED
    BY <1>1, <1>6, <1>7, <1>8, <1>9, <1>10, <1>11 DEF RecordSuccess, RecordFailure

(* Every step keeps the admissions of a period paid, without request hooks. *)
LEMMA StepKeepsPaid ==
    ASSUME HookEffects = {}
    PROVE  IInv /\ Paid /\ [Next]_breakerVars => Paid'
  <1> SUFFICES ASSUME IInv, Paid, [Next]_breakerVars PROVE Paid'
    OBVIOUS
  <1>1. ASSUME NEW c \in Caller, NEW h \in Host, AllowFast(c, h) \/ AllowMiss(c, h)
        PROVE  Paid'
    BY <1>1, OtherProbesWait DEF AllowFast, AllowMiss, IInv, TypeOK
  <1>2. ASSUME NEW c \in Caller, AllowClosed(c) \/ AllowReject(c) PROVE Paid'
    BY <1>2, OtherProbesWait DEF AllowClosed, AllowReject, IInv, TypeOK
  <1>3. ASSUME NEW c \in Caller, AllowTransition(c) \/ AllowProbe(c) PROVE Paid'
    <2> DEFINE h == target[c]
    <2>1. /\ h \in Host /\ hb[h] \in Breaker /\ probes[h] \in SUBSET Caller
          /\ hb[h].halfOpenSuccess \in Nat /\ hb[h].halfOpenAllowed \in Nat
          /\ Owed(hb[h], probes[h]) /\ Sound(hb[h], streak[h], probes[h])
      BY CountFacts DEF IInv, TypeOK, Breaker, Paid
    <2>2. pc[c] = "slow" /\ pc'[c] = "inflight" /\ target' = target
          /\ \A d \in Caller \ {c} : pc'[d] = pc[d]
      BY <1>3 DEF AllowTransition, AllowProbe, IInv, TypeOK
    <2>3. \A k \in Host : c \notin probes[k]
      BY <2>2 DEF Paid, Waits
    <2>4. \A k \in Host \ {h} : hb'[k] = hb[k] /\ probes'[k] = probes[k]
      BY <1>3 DEF AllowTransition, AllowProbe, IInv, TypeOK
    <2>5. probes'[h] = {c} \/ probes'[h] = probes[h] \cup {c}
      BY <1>3, <2>1 DEF AllowTransition, AllowProbe, IInv, TypeOK
    <2>6. Owed(hb'[h], probes'[h])
      <3>1. CASE AllowTransition(c)
        <4>1. hb'[h] = EnterHalfOpen(hb[h]) /\ probes'[h] = {c} /\ hb[h].state = "Open"
          BY <2>1, <3>1 DEF AllowTransition, IInv, TypeOK
        <4>2. hb'[h].halfOpenAllowed = 1 /\ hb'[h].halfOpenSuccess = 0
          BY <2>1, <4>1 DEF EnterHalfOpen, Breaker, Sound
        <4>3. Cardinality(probes'[h]) = 1
          BY <4>1, FS_Singleton
        <4> QED  BY <4>2, <4>3 DEF Owed
      <3>2. CASE AllowProbe(c)
        <4>1. hb'[h] = AdmitOneMore(hb[h]) /\ probes'[h] = probes[h] \cup {c}
              /\ hb[h].state = "HalfOpen"
          BY <2>1, <3>2 DEF AllowProbe, IInv, TypeOK
        <4>2. hb'[h].halfOpenAllowed = hb[h].halfOpenAllowed + 1
              /\ hb'[h].halfOpenSuccess = hb[h].halfOpenSuccess
          BY <2>1, <4>1 DEF AdmitOneMore, Breaker
        <4>3. Cardinality(probes'[h]) = Cardinality(probes[h]) + 1
              /\ Cardinality(probes[h]) \in Nat
          BY <2>1, <2>3, <4>1, ProbeSetFacts
        <4> QED  BY <2>1, <4>1, <4>2, <4>3 DEF Owed
      <3> QED  BY <1>3, <3>1, <3>2
    <2>7. ASSUME NEW k \in Host PROVE Owed(hb[k], probes[k])'
      <3>1. CASE k = h
        BY <2>6, <3>1, <2>2
      <3>2. CASE k # h
        BY <2>4, <3>2 DEF Paid, Owed
      <3> QED  BY <3>1, <3>2
    <2>8. ASSUME NEW k \in Host, NEW d \in probes'[k] PROVE Waits(d, k)'
      <3>1. CASE d = c
        <4>1. k = h
          BY <2>3, <2>4, <2>8, <3>1
        <4> QED  BY <2>2, <3>1, <4>1 DEF Waits
      <3>2. CASE d # c
        <4>1. d \in probes[k]
          BY <2>4, <2>5, <2>8, <3>2
        <4> QED  BY <2>2, <3>2, <4>1 DEF Paid, Waits, IInv, TypeOK
      <3> QED  BY <3>1, <3>2
    <2> QED  BY <2>7, <2>8 DEF Paid
  <1>4. ASSUME NEW c \in Caller, Report(c) PROVE Paid'
    BY <1>4, ReportKeepsPaid
  <1>5. ASSUME NEW c \in Caller, EmitGauge(c) PROVE Paid'
    BY <1>5 DEF EmitGauge, Paid, Waits, Owed
  <1>6. ASSUME NEW c \in Caller, Abandon(c) PROVE Paid'
    BY <1>6 DEF Abandon
  <1>7. CASE Tick \/ UNCHANGED breakerVars
    BY <1>7 DEF Tick, breakerVars, Paid, Waits, Owed
  <1> QED
    BY <1>1, <1>2, <1>3, <1>4, <1>5, <1>6, <1>7 DEF Next, Allow

(* A full half-open breaker always has an outstanding request whose record  *)
(* decides the period, when every admitted call is recorded on its host.    *)
THEOREM FullBreakerWaits ==
    ASSUME HookEffects = {}
    PROVE  Spec => []FullWaitsForProbe
  <1>1. Init => Paid
    BY DEF Init, Paid, Waits, Owed, NewBreaker
  <1>2. IInv /\ Paid => FullWaitsForProbe
    <2> SUFFICES ASSUME IInv, Paid, NEW h \in Host, hb[h].state = "HalfOpen",
                        HalfOpenFull(hb[h]), probes[h] = {}
                 PROVE  FALSE
      BY DEF FullWaitsForProbe
    <2>1. /\ hb[h] \in Breaker /\ hb[h].halfOpenAllowed >= 1
          /\ hb[h].halfOpenAllowed >= HalfOpenMaxRequests
      BY DEF IInv, Sound, HalfOpenFull
    <2>2. hb[h].halfOpenAllowed <= hb[h].halfOpenSuccess + 0
      BY FS_EmptySet DEF Paid, Owed
    <2> QED  BY <2>1, <2>2, ConfigAssumption DEF Breaker, Quota, AtLeastOne
  <1>3. IInv /\ Paid /\ [Next]_breakerVars => Paid'
    BY StepKeepsPaid
  <1> QED  BY <1>1, <1>2, <1>3, Invariance, PTL DEF Spec
----------------------------------------------------------------------------
(* An open breaker is left only by a request that came after OpenTimeout, a *)
(* closed one only at the threshold, whatever the interleaving.             *)
LEMMA StepIsLegal ==
    ASSUME IInv, IInv', [Next]_breakerVars, NEW h \in Host
    PROVE  LegalTransition(h)
  <1>1. hb[h] \in Breaker /\ hb'[h] \in Breaker /\ Sound(hb[h], streak[h], probes[h])
    BY DEF IInv, TypeOK
  <1>2. ASSUME hb'[h] = hb[h] PROVE LegalTransition(h)
    BY <1>2 DEF LegalTransition
  <1>3. ASSUME NEW c \in Caller, AllowTransition(c) PROVE LegalTransition(h)
    <2>1. CASE target[c] = h
      <3>1. /\ hb[h].state = "Open" /\ hb'[h] = EnterHalfOpen(hb[h]) /\ Elapsed(h)
        BY <1>3, <2>1 DEF AllowTransition, IInv, TypeOK
      <3>2. hb'[h].state = "HalfOpen"
        BY <1>1, <3>1 DEF EnterHalfOpen, Breaker
      <3>3. age[h] = OpenTimeout
        BY <3>1, ConfigAssumption DEF Elapsed, IInv, TypeOK
      <3> QED  BY <3>1, <3>2, <3>3 DEF LegalTransition
    <2>2. CASE target[c] # h
      BY <1>2, <1>3, <2>2 DEF AllowTransition, IInv, TypeOK
    <2> QED  BY <2>1, <2>2
  <1>4. ASSUME NEW c \in Caller, AllowProbe(c) PROVE LegalTransition(h)
    <2>1. CASE target[c] = h
      <3>1. hb[h].state = "HalfOpen" /\ hb'[h] = AdmitOneMore(hb[h])
        BY <1>4, <2>1 DEF AllowProbe, IInv, TypeOK
      <3>2. hb'[h].state = "HalfOpen"
        BY <1>1, <3>1 DEF AdmitOneMore, Breaker
      <3> QED  BY <3>1, <3>2 DEF LegalTransition
    <2>2. CASE target[c] # h
      BY <1>2, <1>4, <2>2 DEF AllowProbe, IInv, TypeOK
    <2> QED  BY <2>1, <2>2
  <1>5. ASSUME NEW c \in Caller, NEW k \in Host, RecordSuccess(c, k)
        PROVE  LegalTransition(h)
    <2>1. CASE k = h
      <3>1. \/ hb[h].state = "HalfOpen" /\ hb'[h] = NewBreaker
            \/ hb[h].state = "HalfOpen" /\ hb'[h] = OneMoreSuccess(hb[h])
            \/ hb[h].state = "Closed" /\ hb'[h] = ForgetFailures(hb[h])
            \/ hb[h].state = "Open" /\ hb'[h] = hb[h]
        BY <1>5, <2>1 DEF RecordSuccess, Record, IInv, TypeOK
      <3> QED
        BY <1>1, <3>1 DEF LegalTransition, NewBreaker, OneMoreSuccess,
                          ForgetFailures, Breaker
    <2>2. CASE k # h
      BY <1>2, <1>5, <2>2 DEF RecordSuccess, Record, IInv, TypeOK
    <2> QED  BY <2>1, <2>2
  <1>6. ASSUME NEW c \in Caller, NEW k \in Host, RecordFailure(c, k)
        PROVE  LegalTransition(h)
    <2>1. CASE k = h
      <3>1. /\ \/ hb[h].state = "HalfOpen" /\ hb'[h] = Reopen(hb[h])
               \/ hb[h].state = "Closed" /\ hb'[h] = OneMoreFailure(hb[h])
               \/ hb[h].state = "Open" /\ hb'[h] = hb[h]
            /\ streak'[h] = IF streak[h] < Threshold THEN streak[h] + 1 ELSE streak[h]
            /\ streak[h] \in 0 .. Threshold
        BY <1>6, <2>1 DEF RecordFailure, Record, IInv, TypeOK
      <3>2. CASE hb[h].state = "HalfOpen" /\ hb'[h] = Reopen(hb[h])
        <4>1. hb'[h].state = "Open" /\ streak'[h] > 0
          BY <1>1, <3>1, <3>2, CountFacts, ReopenIsSound
        <4> QED  BY <3>2, <4>1 DEF LegalTransition
      <3>3. CASE hb[h].state = "Closed" /\ hb'[h] = OneMoreFailure(hb[h])
        <4>1. hb'[h].state = IF Trips(hb[h]) THEN "Open" ELSE "Closed"
          BY <1>1, <3>3 DEF OneMoreFailure, Breaker
        <4>2. Trips(hb[h]) => streak'[h] = Threshold
          BY <1>1, <3>1, <3>3, ConfigAssumption
             DEF Trips, Sound, Threshold, AtLeastOne
        <4> QED  BY <3>3, <4>1, <4>2 DEF LegalTransition
      <3> QED  BY <1>2, <3>1, <3>2, <3>3
    <2>2. CASE k # h
      BY <1>2, <1>6, <2>2 DEF RecordFailure, Record, IInv, TypeOK
    <2> QED  BY <2>1, <2>2
  <1>7. ASSUME NEW c \in Caller, Report(c) PROVE LegalTransition(h)
    <2>1. PICK k \in ReportHosts(c) : RecordSuccess(c, k) \/ RecordFailure(c, k)
      BY <1>7 DEF Report
    <2>2. k \in Host
      BY DEF ReportHosts, IInv, TypeOK
    <2> QED  BY <1>5, <1>6, <2>1, <2>2
  <1>8. ASSUME UNCHANGED hb PROVE LegalTransition(h)
    BY <1>2, <1>8
  <1>9. ASSUME NEW c \in Caller, NEW k \in Host, AllowFast(c, k) \/ AllowMiss(c, k)
        PROVE  LegalTransition(h)
    BY <1>8, <1>9 DEF AllowFast, AllowMiss
  <1>10. ASSUME NEW c \in Caller,
                AllowClosed(c) \/ AllowReject(c) \/ EmitGauge(c) \/ Abandon(c)
         PROVE  LegalTransition(h)
    BY <1>8, <1>10 DEF AllowClosed, AllowReject, EmitGauge, Abandon
  <1>11. CASE Tick \/ UNCHANGED breakerVars
    BY <1>8, <1>11 DEF Tick, breakerVars
  <1> QED
    BY <1>3, <1>4, <1>7, <1>9, <1>10, <1>11 DEF Next, Allow

(* Every step of every behaviour changes the states of the breakers only as *)
(* the two switches of allow and the records intend.                        *)
THEOREM TransitionsAreLegal == Spec => LegalTransitions
  <1>1. IInv /\ IInv' /\ [Next]_breakerVars
          => [\A h \in Host : LegalTransition(h)]_breakerVars
    BY StepIsLegal
  <1> QED  BY <1>1, Invariance, PTL DEF Spec, LegalTransitions
----------------------------------------------------------------------------
(* The breaker implements its contract.  The abstract variables, named.     *)
status  == [h \in Host |-> hb[h].state]
budget  == [h \in Host |-> IF hb[h].state = "HalfOpen"
                           THEN Quota - hb[h].halfOpenAllowed ELSE 0]
running == {c \in Caller : pc[c] = "inflight"}

(* The abstract variables are functions on the hosts.                       *)
LEMMA AbstractVars ==
    ASSUME IInv, NEW h \in Host
    PROVE  /\ status[h] = hb[h].state /\ hb[h] \in Breaker
           /\ budget[h] = IF hb[h].state = "HalfOpen"
                          THEN Quota - hb[h].halfOpenAllowed ELSE 0
           /\ streak[h] \in 0 .. Threshold
           /\ Sound(hb[h], streak[h], probes[h])
  BY DEF status, budget, IInv, TypeOK

(* What a change of the one breaker of h does to status and budget.         *)
LEMMA AbstractUpdate ==
    ASSUME IInv, NEW h \in Host, NEW b, hb' = [hb EXCEPT ![h] = b]
    PROVE  /\ status' = [status EXCEPT ![h] = b.state]
           /\ budget' = [budget EXCEPT ![h] =
                            IF b.state = "HalfOpen" THEN Quota - b.halfOpenAllowed ELSE 0]
  BY DEF status, budget, IInv, TypeOK

(* A change that keeps the state and the admissions is invisible.           *)
LEMMA AbstractStutter ==
    ASSUME IInv, NEW h \in Host, NEW b, hb' = [hb EXCEPT ![h] = b],
           b.state = hb[h].state, b.halfOpenAllowed = hb[h].halfOpenAllowed
    PROVE  UNCHANGED <<status, budget>>
  BY DEF status, budget, IInv, TypeOK

(* An admission starts a call of the contract.                              *)
LEMMA AdmissionStarts ==
    ASSUME IInv, NEW c \in Caller, pc[c] # "inflight",
           pc' = [pc EXCEPT ![c] = "inflight"]
    PROVE  Contract!Start(c)
  BY DEF Contract!Start, IInv, TypeOK

(* A record ends a call of the contract.                                    *)
LEMMA RecordEnds ==
    ASSUME IInv, NEW c \in Caller, pc[c] = "inflight", pc' = [pc EXCEPT ![c] = "idle"]
    PROVE  Contract!End(c)
  BY DEF Contract!End, IInv, TypeOK

(* recordSuccess is the contract's Succeed.                                 *)
LEMMA SuccessRefines ==
    ASSUME IInv, NEW c \in Caller, NEW h \in Host, RecordSuccess(c, h)
    PROVE  Contract!Succeed(c, h)
  <1>1. Contract!End(c) /\ streak' = [streak EXCEPT ![h] = 0]
    BY RecordEnds DEF RecordSuccess, Record
  <1>2. hb[h] \in Breaker
    BY DEF IInv, TypeOK
  <1>3. CASE hb[h].state = "HalfOpen" /\ hb' = [hb EXCEPT ![h] = NewBreaker]
    <2>0. NewBreaker.state = "Closed"
      BY DEF NewBreaker
    <2>1. status' = [status EXCEPT ![h] = "Closed"] /\ budget' = [budget EXCEPT ![h] = 0]
      BY <1>3, <2>0, AbstractUpdate
    <2> QED  BY <1>1, <1>3, <2>1, AbstractVars DEF Contract!Succeed, status, budget
  <1>4. CASE hb' = [hb EXCEPT ![h] = OneMoreSuccess(hb[h])]
             \/ hb' = [hb EXCEPT ![h] = ForgetFailures(hb[h])]
             \/ hb' = [hb EXCEPT ![h] = hb[h]]
    <2>1. PICK b : /\ hb' = [hb EXCEPT ![h] = b]
                   /\ b.state = hb[h].state /\ b.halfOpenAllowed = hb[h].halfOpenAllowed
      BY <1>2, <1>4 DEF OneMoreSuccess, ForgetFailures, Breaker
    <2>2. UNCHANGED <<status, budget>>
      BY <2>1, AbstractStutter
    <2> QED  BY <1>1, <2>2 DEF Contract!Succeed, status, budget
  <1> QED  BY <1>3, <1>4 DEF RecordSuccess, Record

(* recordFailure is the contract's Fail.                                    *)
LEMMA FailureRefines ==
    ASSUME IInv, NEW c \in Caller, NEW h \in Host, RecordFailure(c, h)
    PROVE  Contract!Fail(c, h)
  <1>1. Contract!End(c)
    BY RecordEnds DEF RecordFailure, Record
  <1>2. /\ status[h] = hb[h].state /\ hb[h] \in Breaker
        /\ streak[h] \in 0 .. Threshold /\ Sound(hb[h], streak[h], probes[h])
    BY AbstractVars
  <1>3. streak' = [streak EXCEPT ![h] = Contract!Failures(h)]
    <2>1. streak' = [streak EXCEPT ![h] =
                        IF streak[h] < Threshold THEN streak[h] + 1 ELSE streak[h]]
      BY DEF RecordFailure
    <2>2. ~ (streak[h] < Threshold) => streak[h] = Threshold
      BY <1>2, CountFacts
    <2> QED  BY <2>1, <2>2 DEF Contract!Failures
  <1>4. Contract!Trips(h) <=> hb[h].state = "HalfOpen" \/ Contract!Failures(h) = Threshold
    BY <1>2 DEF Contract!Trips, status
  <1>5. CASE hb[h].state = "HalfOpen" /\ hb' = [hb EXCEPT ![h] = Reopen(hb[h])]
    <2>1. Reopen(hb[h]).state = "Open"
      BY <1>2, ReopenIsSound
    <2>2. status' = [status EXCEPT ![h] = "Open"] /\ budget' = [budget EXCEPT ![h] = 0]
      BY <1>5, <2>1, AbstractUpdate
    <2> QED  BY <1>1, <1>3, <1>4, <1>5, <2>2 DEF Contract!Fail, status, budget
  <1>6. CASE hb[h].state = "Closed" /\ hb' = [hb EXCEPT ![h] = OneMoreFailure(hb[h])]
    <2>1. /\ OneMoreFailure(hb[h]).state = IF Trips(hb[h]) THEN "Open" ELSE "Closed"
          /\ OneMoreFailure(hb[h]).halfOpenAllowed = hb[h].halfOpenAllowed
      BY <1>2, <1>6 DEF OneMoreFailure, Breaker
    <2>2. Trips(hb[h]) <=> Contract!Trips(h)
      BY <1>2, <1>4, <1>6, ConfigAssumption
         DEF Trips, Contract!Failures, Sound, Threshold, AtLeastOne
    <2>3. CASE Trips(hb[h])
      <3> DEFINE e == OneMoreFailure(hb[h])
      <3>0. e.state = "Open" /\ hb' = [hb EXCEPT ![h] = e]
        BY <1>6, <2>1, <2>3
      <3> HIDE DEF e
      <3>1. status' = [status EXCEPT ![h] = "Open"] /\ budget' = [budget EXCEPT ![h] = 0]
        BY <3>0, AbstractUpdate
      <3> QED  BY <1>1, <1>3, <2>2, <2>3, <3>1 DEF Contract!Fail, status, budget
    <2>4. CASE ~ Trips(hb[h])
      <3>1. UNCHANGED <<status, budget>>
        BY <1>6, <2>1, <2>4, AbstractStutter
      <3> QED  BY <1>1, <1>3, <2>2, <2>4, <3>1 DEF Contract!Fail, status, budget
    <2> QED  BY <2>3, <2>4
  <1>7. CASE hb[h].state = "Open" /\ hb' = [hb EXCEPT ![h] = hb[h]]
    <2>1. UNCHANGED <<status, budget>>
      BY <1>7, AbstractStutter
    <2>2. status = [status EXCEPT ![h] = "Open"] /\ budget = [budget EXCEPT ![h] = 0]
      BY <1>7, <2>1, AbstractUpdate
    <2> QED  BY <1>1, <1>3, <2>1, <2>2 DEF Contract!Fail, status, budget
  <1> QED  BY <1>5, <1>6, <1>7 DEF RecordFailure, Record

(* Every step of the breaker is a step of the contract or invisible to it.  *)
LEMMA StepRefines ==
    ASSUME IInv, [Next]_breakerVars
    PROVE  [Contract!Next]_(Contract!contractVars)
  <1>1. ASSUME NEW c \in Caller, NEW h \in Host, Contract!AdmitClosed(c, h)
               \/ Contract!AdmitFirst(c, h) \/ Contract!AdmitFurther(c, h)
               \/ Contract!Succeed(c, h) \/ Contract!Fail(c, h) \/ Contract!Vanish(c)
        PROVE  Contract!Next
    BY <1>1 DEF Contract!Next
  <1>2. ASSUME NEW c \in Caller, NEW h \in Host, AllowFast(c, h) PROVE Contract!Next
    <2>1. Contract!Start(c) /\ UNCHANGED <<hb, streak>> /\ hb[h].state = "Closed"
      BY <1>2, AdmissionStarts DEF AllowFast
    <2>2. Contract!AdmitClosed(c, h)
      BY <2>1 DEF Contract!AdmitClosed
    <2> QED  BY <1>1, <2>2
  <1>3. ASSUME NEW c \in Caller, AllowClosed(c) PROVE Contract!Next
    <2>1. target[c] \in Host
      BY DEF IInv, TypeOK
    <2>2. /\ Contract!Start(c) /\ UNCHANGED <<hb, streak>>
          /\ hb[target[c]].state = "Closed"
      BY <1>3, AdmissionStarts DEF AllowClosed
    <2>3. Contract!AdmitClosed(c, target[c])
      BY <2>1, <2>2 DEF Contract!AdmitClosed
    <2> QED  BY <1>1, <2>1, <2>3
  <1>4. ASSUME NEW c \in Caller, AllowTransition(c) PROVE Contract!Next
    <2>0. PICK h \in Host : h = target[c]
      BY DEF IInv, TypeOK
    <2>1. h \in Host /\ hb[h] \in Breaker
      BY DEF IInv, TypeOK
    <2>2. Contract!Start(c) /\ hb[h].state = "Open" /\ UNCHANGED streak
      BY <1>4, <2>0, AdmissionStarts DEF AllowTransition
    <2>3. /\ EnterHalfOpen(hb[h]).state = "HalfOpen"
          /\ EnterHalfOpen(hb[h]).halfOpenAllowed = 1
      BY <2>1 DEF EnterHalfOpen, Breaker
    <2>4. /\ status' = [status EXCEPT ![h] = "HalfOpen"]
          /\ budget' = [budget EXCEPT ![h] = Quota - 1]
      <3> DEFINE e == EnterHalfOpen(hb[h])
      <3>1. hb' = [hb EXCEPT ![h] = e] /\ e.state = "HalfOpen" /\ e.halfOpenAllowed = 1
        BY <1>4, <2>0, <2>3 DEF AllowTransition
      <3> HIDE DEF e
      <3> QED  BY <3>1, AbstractUpdate
    <2>5. Contract!AdmitFirst(c, h)
      BY <2>1, <2>2, <2>4 DEF Contract!AdmitFirst, status, budget
    <2> QED  BY <1>1, <2>5
  <1>5. ASSUME NEW c \in Caller, AllowProbe(c) PROVE Contract!Next
    <2>0. PICK h \in Host : h = target[c]
      BY DEF IInv, TypeOK
    <2>1. h \in Host /\ hb[h] \in Breaker /\ Sound(hb[h], streak[h], probes[h])
      BY DEF IInv, TypeOK
    <2>2. /\ Contract!Start(c) /\ hb[h].state = "HalfOpen" /\ UNCHANGED streak
          /\ ~ HalfOpenFull(hb[h])
      BY <1>5, <2>0, AdmissionStarts DEF AllowProbe
    <2>3. /\ AdmitOneMore(hb[h]).state = "HalfOpen"
          /\ AdmitOneMore(hb[h]).halfOpenAllowed = hb[h].halfOpenAllowed + 1
      BY <2>1, <2>2 DEF AdmitOneMore, Breaker
    <2>4. hb[h].halfOpenAllowed \in Nat /\ Quota - hb[h].halfOpenAllowed > 0
      BY <2>1, <2>2, ConfigAssumption
         DEF Sound, Breaker, HalfOpenFull, Quota, AtLeastOne
    <2>5. budget[h] = Quota - hb[h].halfOpenAllowed
      BY <2>1, <2>2 DEF budget
    <2>6. /\ status' = [status EXCEPT ![h] = "HalfOpen"]
          /\ budget' = [budget EXCEPT ![h] = Quota - (hb[h].halfOpenAllowed + 1)]
      <3> DEFINE e == AdmitOneMore(hb[h])
      <3>1. /\ hb' = [hb EXCEPT ![h] = e] /\ e.state = "HalfOpen"
            /\ e.halfOpenAllowed = hb[h].halfOpenAllowed + 1
        BY <1>5, <2>0, <2>3 DEF AllowProbe
      <3> HIDE DEF e
      <3> QED  BY <3>1, AbstractUpdate
    <2>7. Quota - (hb[h].halfOpenAllowed + 1) = budget[h] - 1
      BY <2>4, <2>5, CountFacts
    <2>8. status' = status
      BY <2>1, <2>2, <2>6 DEF status
    <2>9. Contract!AdmitFurther(c, h)
      BY <2>1, <2>2, <2>4, <2>5, <2>6, <2>7, <2>8
         DEF Contract!AdmitFurther, status, budget
    <2> QED  BY <1>1, <2>9
  <1>6. ASSUME NEW c \in Caller, Report(c) PROVE Contract!Next
    <2>1. PICK h \in ReportHosts(c) : RecordSuccess(c, h) \/ RecordFailure(c, h)
      BY <1>6 DEF Report
    <2>2. h \in Host
      BY DEF ReportHosts, IInv, TypeOK
    <2> QED  BY <1>1, <2>1, <2>2, SuccessRefines, FailureRefines
  <1>7. ASSUME NEW c \in Caller, Abandon(c) PROVE Contract!Next
    <2>1. Contract!End(c) /\ UNCHANGED <<hb, streak>>
      BY <1>7, RecordEnds DEF Abandon
    <2>2. Contract!Vanish(c)
      BY <2>1 DEF Contract!Vanish
    <2>3. PICK h \in Host : TRUE
      BY SetAssumption
    <2> QED  BY <1>1, <2>2, <2>3
  <1>8. ASSUME UNCHANGED <<hb, streak, running>>
        PROVE  UNCHANGED Contract!contractVars
    BY <1>8 DEF Contract!contractVars, running
  <1>9. ASSUME NEW c \in Caller, NEW h \in Host, AllowMiss(c, h) PROVE UNCHANGED running
    BY <1>9 DEF AllowMiss, running, IInv, TypeOK
  <1>10. ASSUME NEW c \in Caller, AllowReject(c) \/ EmitGauge(c) PROVE UNCHANGED running
    BY <1>10 DEF AllowReject, EmitGauge, running, IInv, TypeOK
  <1>11. ASSUME NEW c \in Caller, NEW h \in Host, AllowMiss(c, h)
         PROVE  UNCHANGED Contract!contractVars
    BY <1>8, <1>9, <1>11 DEF AllowMiss
  <1>12. ASSUME NEW c \in Caller, AllowReject(c) \/ EmitGauge(c)
         PROVE  UNCHANGED Contract!contractVars
    BY <1>8, <1>10, <1>12 DEF AllowReject, EmitGauge
  <1>13. CASE Tick \/ UNCHANGED breakerVars
    BY <1>8, <1>13 DEF Tick, breakerVars, running
  <1> QED
    BY <1>2, <1>3, <1>4, <1>5, <1>6, <1>7, <1>11, <1>12, <1>13 DEF Next, Allow

(* The locked breaker, with its unlocked fast path and its late reports,    *)
(* implements the contract.                                                 *)
THEOREM ImplementsContract == Spec => ContractSpec
  <1>1. Init => Contract!Init
    BY DEF Init, Contract!Init, NewBreaker
  <1>2. IInv /\ [Next]_breakerVars => [Contract!Next]_(Contract!contractVars)
    BY StepRefines
  <1> QED  BY <1>1, <1>2, Invariance, PTL DEF Spec, ContractSpec, Contract!Spec
=============================================================================

-------------------------- MODULE BreakerRecovery --------------------------
(***************************************************************************)
(* The circuit breaker in its surroundings: a service that comes back, and *)
(* calls whose duration is measured.  From some moment on every reported   *)
(* outcome is a success, and the callers keep calling.  Request hooks do   *)
(* not fail here: a call that ends without a record is in ClientDo.        *)
(*                                                                         *)
(* A record carries no mark of the period its request was admitted in, so  *)
(* a report that comes late is counted in whatever period it falls into.   *)
(***************************************************************************)
EXTENDS CircuitBreaker

VARIABLES up,      \* the service has recovered: no request fails any more
          lasted   \* ticks since the admission of a call in flight, capped at
                   \* OpenTimeout

recoveryVars == <<breakerVars, up, lasted>>

RecoveryInit == Init /\ up = FALSE /\ lasted = [c \in Caller |-> 0]

InFlight == {c \in Caller : pc[c] = "inflight"}

ComeBack == ~ up /\ up' = TRUE /\ UNCHANGED <<breakerVars, lasted>>

\* Do reports a failure or a success, and a service that is up gives none of
\* the former.
Outcome(c) ==
    \E h \in ReportHosts(c) : RecordSuccess(c, h) \/ (~ up /\ RecordFailure(c, h))

\* A step of the caller itself; the clock of a call runs while it is in flight.
Serve(c) ==
    /\ Allow(c) \/ Outcome(c) \/ EmitGauge(c)
    /\ lasted' = [lasted EXCEPT ![c] = IF pc'[c] = "inflight" THEN @ ELSE 0]
    /\ UNCHANGED up

Pass ==
    /\ Tick
    /\ lasted' = [c \in Caller |-> IF c \in InFlight /\ lasted[c] < OpenTimeout
                                   THEN lasted[c] + 1 ELSE lasted[c]]
    /\ UNCHANGED up

RecoveryNext == ComeBack \/ Pass \/ \E c \in Caller : Serve(c)

\* Time passes, and no caller stops between two calls or inside one.
RecoverySpec ==
    /\ RecoveryInit /\ [][RecoveryNext]_recoveryVars
    /\ WF_recoveryVars(Pass)
    /\ \A c \in Caller : WF_recoveryVars(Serve(c))

\* A half-open period is judged by its own requests and by stragglers: what
\* else is in flight to a half-open host has been so for OpenTimeout or more.
\* A deadline below OpenTimeout therefore keeps the periods apart, and nothing
\* shorter than that can leak from one into the next (recordSuccess and
\* recordFailure, which do not know when a request was admitted).
JudgedByItsOwn ==
    \A h \in Host : hb[h].state = "HalfOpen" =>
        \A c \in InFlight :
            target[c] = h => c \in probes[h] \/ lasted[c] >= OpenTimeout

\* A breaker never outlives the outage: once the service answers again, the
\* breaker of a host that is still called closes for good, whatever late
\* reports, reopenings and lost races the outage left behind (the cycle
\* Open, HalfOpen, Closed of allow and recordSuccess).
Recovers == up ~> [](\A h \in Host : hb[h].state = "Closed")
=============================================================================

-------------------------- MODULE BreakerContract --------------------------
(***************************************************************************)
(* What the circuit breaker of a host promises its callers, without locks, *)
(* fast path, timer, metrics or success counter: three states, a budget of *)
(* admissions for every half-open period, and a trip after Threshold       *)
(* consecutive failures.  CircuitBreaker implements it.                    *)
(***************************************************************************)
EXTENDS Integers

CONSTANTS Host, Caller,
          Threshold,   \* consecutive failures that trip a breaker, at least 1
          Quota        \* admissions of a half-open period, at least 1

VARIABLES status,   \* "Closed", "Open" or "HalfOpen", for each host
          budget,   \* requests the half-open period of a host may still admit
          streak,   \* consecutive failures of a host, capped at Threshold
          running   \* callers admitted that have not ended

contractVars == <<status, budget, streak, running>>

Init ==
    /\ status = [h \in Host |-> "Closed"]
    /\ budget = [h \in Host |-> 0]
    /\ streak = [h \in Host |-> 0]
    /\ running = {}

Start(c) == c \notin running /\ running' = running \cup {c}

\* A closed breaker lets everybody through.
AdmitClosed(c, h) ==
    /\ status[h] = "Closed"
    /\ Start(c)
    /\ UNCHANGED <<status, budget, streak>>

\* A request that finds the breaker open starts a half-open period ...
AdmitFirst(c, h) ==
    /\ status[h] = "Open"
    /\ Start(c)
    /\ status' = [status EXCEPT ![h] = "HalfOpen"]
    /\ budget' = [budget EXCEPT ![h] = Quota - 1]
    /\ UNCHANGED streak

\* ... and each further one of the period takes from its budget.
AdmitFurther(c, h) ==
    /\ status[h] = "HalfOpen"
    /\ budget[h] > 0
    /\ Start(c)
    /\ budget' = [budget EXCEPT ![h] = @ - 1]
    /\ UNCHANGED <<status, streak>>

End(c) == c \in running /\ running' = running \ {c}

\* A success forgets the failures, and may close a half-open breaker.
Succeed(c, h) ==
    /\ End(c)
    /\ streak' = [streak EXCEPT ![h] = 0]
    /\ \/ UNCHANGED <<status, budget>>
       \/ /\ status[h] = "HalfOpen"
          /\ status' = [status EXCEPT ![h] = "Closed"]
          /\ budget' = [budget EXCEPT ![h] = 0]

Failures(h) == IF streak[h] < Threshold THEN streak[h] + 1 ELSE Threshold

\* A failure trips a closed breaker at the threshold, reopens a half-open one.
Trips(h) == status[h] = "HalfOpen" \/ Failures(h) = Threshold

Fail(c, h) ==
    /\ End(c)
    /\ streak' = [streak EXCEPT ![h] = Failures(h)]
    /\ status' = IF Trips(h) THEN [status EXCEPT ![h] = "Open"] ELSE status
    /\ budget' = IF Trips(h) THEN [budget EXCEPT ![h] = 0] ELSE budget

\* A call that ends without telling its outcome.
Vanish(c) == End(c) /\ UNCHANGED <<status, budget, streak>>

Next ==
    \E c \in Caller :
        \/ Vanish(c)
        \/ \E h \in Host : \/ AdmitClosed(c, h) \/ AdmitFirst(c, h)
                           \/ AdmitFurther(c, h)
                           \/ Succeed(c, h) \/ Fail(c, h)

Spec == Init /\ [][Next]_contractVars
=============================================================================

------------------------------ MODULE ClientDo ------------------------------
(***************************************************************************)
(* Client.Do (client.go) around the circuit breaker: URL validation, the   *)
(* breaker, request hooks, the retry loop, the body limit, the record, the *)
(* response hooks and the single retry with fresh credentials after a 401. *)
(*                                                                         *)
(* Callers share the breaker and the in-flight counter; everything else a  *)
(* call owns.  The service, the hooks and the network choose freely.       *)
(* retryablehttp's loop is external: it is modelled as Do uses it, with    *)
(* the wrapped CheckRetry deciding after every attempt.                    *)
(***************************************************************************)
EXTENDS CircuitBreaker, RetryWait

CONSTANTS RetryMax,         \* ClientConfig.RetryMax
          BreakerEnabled,   \* ClientConfig.EnableCircuitBreaker
          Unauthorized,     \* ClientConfig.OnUnauthorized is set
          StatusCheck,      \* ClientConfig.CheckRetry is BuildStatusCodeCheckRetry's
          RetryOn,          \* ... with these codes
          BodyLimit,        \* ClientConfig.MaxResponseBodySize > 0
          Passthrough       \* ClientConfig.ErrorHandler returns what it is given

ASSUME ClientAssumption ==
    /\ RetryMax \in Nat
    /\ {BreakerEnabled, Unauthorized, StatusCheck, BodyLimit, Passthrough} \subseteq BOOLEAN
    /\ RetryOn \subseteq {"throttled", "unavailable", "notImplemented", "ok", "unauthorized"}

VARIABLES stage,       \* the next step of each call
          round,       \* 1: the request, 2: its retry after a 401
          attempt,     \* attempts made in this round
          resp,        \* the response Do holds: its status, or "none"
          err,         \* the error Do holds, or "none"
          open,        \* bodies of the call not closed
          limited,     \* the held response is read through a limitedReadCloser
          seen,        \* the response hooks ran on the held response
          concurrent   \* the in-flight requests the metrics sink was told of

callVars == <<stage, round, attempt, resp, err, open, limited, seen>>
doVars == <<breakerVars, callVars, concurrent>>

Retryable == {"throttled", "unavailable"}          \* 429, 5xx but 501
Failing   == {"unavailable", "notImplemented"}     \* StatusCode >= 500
Status    == Retryable \cup Failing \cup {"ok", "unauthorized"}

Stage == {"idle", "allow", "hooks", "convert", "send", "backoff", "giveUp",
          "settle", "responseHooks", "refresh", "returned"}

Error == {"none", "invalid", "open", "hook", "request", "network", "blocked",
          "canceled", "gaveUp", "refresh", "replay"}

DoInit ==
    /\ Init
    /\ stage = [c \in Caller |-> "idle"]
    /\ round = [c \in Caller |-> 1]
    /\ attempt = [c \in Caller |-> 0]
    /\ resp = [c \in Caller |-> "none"]
    /\ err = [c \in Caller |-> "none"]
    /\ open = [c \in Caller |-> 0]
    /\ limited = [c \in Caller |-> FALSE]
    /\ seen = [c \in Caller |-> FALSE]
    /\ concurrent = 0

----------------------------------------------------------------------------
(* Frequent changes of one call.                                            *)

At(c, s) == stage[c] = s /\ emit[c] = "none"
Goto(c, s) == stage' = [stage EXCEPT ![c] = s]

Hold(c, r, e) == resp' = [resp EXCEPT ![c] = r] /\ err' = [err EXCEPT ![c] = e]
\* Fault: a body is dropped without being closed.
DropBody(c) == UNCHANGED open

Close(c) == open' = [open EXCEPT ![c] = @ - 1]

Has(c) == resp[c] # "none"

----------------------------------------------------------------------------
(* Before the request is sent.                                              *)

Begin(c) ==
    /\ At(c, "idle")
    /\ \/ Goto(c, IF BreakerEnabled THEN "allow" ELSE "hooks") /\ UNCHANGED err
       \/ Goto(c, "returned") /\ err' = [err EXCEPT ![c] = "invalid"]
    /\ UNCHANGED <<breakerVars, concurrent>>
    /\ UNCHANGED <<round, attempt, resp, open, limited, seen>>

\* circuitBreaker.allow: admitted, turned away, or on the way to the slow path.
AskBreaker(c) ==
    /\ At(c, "allow")
    /\ Allow(c)
    /\ \/ pc'[c] = "inflight" /\ Goto(c, "hooks") /\ UNCHANGED err
       \/ pc'[c] = "slow" /\ UNCHANGED <<stage, err>>
       \/ pc'[c] = "idle" /\ Goto(c, "returned") /\ err' = [err EXCEPT ![c] = "open"]
    /\ UNCHANGED <<concurrent, round, attempt, resp, open, limited, seen>>

\* The breaker is not told of a call that ends before it is sent.
Forsake(c) == IF BreakerEnabled THEN Abandon(c)
              ELSE "fail" \in HookEffects /\ UNCHANGED breakerVars

RunRequestHooks(c) ==
    /\ At(c, "hooks")
    /\ \/ /\ Goto(c, "convert")
          /\ concurrent' = concurrent + 1
          /\ UNCHANGED <<breakerVars, err>>
       \/ /\ Forsake(c)
          /\ Goto(c, "returned")
          /\ err' = [err EXCEPT ![c] = "hook"]
          /\ UNCHANGED concurrent
    /\ UNCHANGED <<round, attempt, resp, open, limited, seen>>

\* Fault: the decrement is only deferred once the conversion has succeeded.
ConvertKeepsCount(c) ==
    /\ At(c, "convert")
    /\ \/ Goto(c, "send") /\ UNCHANGED <<breakerVars, err>>
       \/ /\ Forsake(c)
          /\ Goto(c, "returned")
          /\ err' = [err EXCEPT ![c] = "request"]
    /\ UNCHANGED <<concurrent, round, attempt, resp, open, limited, seen>>

\* retryablehttp.FromRequest; the deferred decrement runs when Do returns.
Convert(c) ==
    /\ At(c, "convert")
    /\ \/ Goto(c, "send") /\ UNCHANGED <<breakerVars, concurrent, err>>
       \/ /\ Forsake(c)
          /\ Goto(c, "returned")
          /\ concurrent' = concurrent - 1
          /\ err' = [err EXCEPT ![c] = "request"]
    /\ UNCHANGED <<round, attempt, resp, open, limited, seen>>

----------------------------------------------------------------------------
(* The retry loop, for the first round and for the retry after a 401.       *)

\* What an attempt can give: a response, an error of the network or of the IP
\* policy, or either of them after the caller's context has ended.  The check
\* by status codes does not look at the context of a response: for it such a
\* response is like any other.
Outcome == {<<r, "none">> : r \in Status}
           \cup {<<"none", e>> : e \in {"network", "blocked", "canceled"}}
           \cup {<<r, "canceled">> : r \in IF StatusCheck THEN {} ELSE Status}

\* wrapCheckRetryWithMetrics: a policy denial is final, as is the end of the
\* context.  The count of retry verdicts is left out.
ShouldRetry(r, e) ==
    e = "network" \/ (e = "none" /\ r \in IF StatusCheck THEN RetryOn ELSE Retryable)

Send(c) ==
    /\ At(c, "send")
    /\ \E o \in Outcome :
        LET retry == ShouldRetry(o[1], o[2]) IN
        /\ Hold(c, o[1], o[2])
        /\ open' = [open EXCEPT ![c] = IF o[1] = "none" THEN @ ELSE @ + 1]
        /\ \/ retry /\ attempt[c] < RetryMax /\ Goto(c, "backoff")
           \/ retry /\ attempt[c] >= RetryMax /\ Goto(c, "giveUp")
           \/ ~ retry /\ Goto(c, IF o[2] = "canceled" THEN "giveUp" ELSE "settle")
    /\ attempt' = [attempt EXCEPT ![c] = @ + 1]
    /\ UNCHANGED <<breakerVars, concurrent, round, limited, seen>>

\* The body is drained before the wait; the context may end during it.
Backoff(c) ==
    /\ At(c, "backoff")
    /\ open' = [open EXCEPT ![c] = IF Has(c) THEN @ - 1 ELSE @]
    /\ \/ Hold(c, "none", "none") /\ Goto(c, "send")
       \/ Hold(c, "none", "canceled") /\ Goto(c, "settle")
    /\ UNCHANGED <<breakerVars, concurrent, round, attempt, limited, seen>>

\* Retries are exhausted or the context has ended: the body is drained and Do
\* gets an error, or the configured ErrorHandler hands the last result back.
\* The second round runs inside an http.Client, which ignores a response that
\* comes with an error: that of an ended context, which frees the connection.
HandsBack(c) == Passthrough /\ (round[c] = 1 \/ err[c] = "none")

GiveUp(c) ==
    /\ At(c, "giveUp")
    /\ IF HandsBack(c) THEN UNCHANGED <<resp, err, open>>
       ELSE /\ Hold(c, "none", IF Passthrough THEN err[c] ELSE "gaveUp")
            /\ open' = [open EXCEPT ![c] = IF Has(c) THEN @ - 1 ELSE @]
    /\ Goto(c, "settle")
    /\ UNCHANGED <<breakerVars, concurrent, round, attempt, limited, seen>>

----------------------------------------------------------------------------
(* After the retry loop.                                                    *)

Limit(c) == limited' = [limited EXCEPT ![c] = BodyLimit /\ Has(c) /\ err[c] = "none"]

\* Fault: only responses are recorded, errors leave the breaker untold.
RecordResponsesOnly(c) ==
    \E h \in ReportHosts(c) : IF err[c] # "none" THEN UNCHANGED breakerVars
                              ELSE RecordSuccess(c, h)

\* Fault: an error gives the half-open slot back without counting.
RecordForgetsErrors(c) ==
    \E h \in ReportHosts(c) :
        IF resp[c] \in Failing THEN RecordFailure(c, h)
        ELSE IF err[c] = "none" THEN RecordSuccess(c, h)
        ELSE /\ pc' = [pc EXCEPT ![c] = "idle"]
             /\ probes' = [i \in Host |-> probes[i] \ {c}]
             /\ UNCHANGED <<known, hb, age, gauge, target, emit, streak>>

\* Record the outcome with the breaker: the first round only.
RecordFor(c) ==
    \E h \in ReportHosts(c) : IF err[c] # "none" \/ resp[c] \in Failing
                              THEN RecordFailure(c, h) ELSE RecordSuccess(c, h)

Settle(c) ==
    /\ At(c, "settle")
    /\ Limit(c)
    /\ seen' = [seen EXCEPT ![c] = FALSE]
    /\ IF BreakerEnabled /\ round[c] = 1 THEN RecordFor(c) ELSE UNCHANGED breakerVars
    /\ Goto(c, "responseHooks")
    /\ UNCHANGED <<concurrent, round, attempt, resp, err, open>>

\* Fault: the response of the second round goes out without the hooks.
HooksOnce(c) == Has(c) /\ round[c] = 1

\* In the first round the hooks see every response; after a 401 they see one
\* that came without an error.
HooksApply(c) == Has(c) /\ (round[c] = 1 \/ err[c] = "none")

\* Fault: a 401 of the second round is refreshed again.
RefreshesAgain(c) == err[c] = "none" /\ resp[c] = "unauthorized" /\ Unauthorized

NeedsRefresh(c) ==
    round[c] = 1 /\ err[c] = "none" /\ resp[c] = "unauthorized" /\ Unauthorized

RunResponseHooks(c) ==
    /\ At(c, "responseHooks")
    /\ \/ /\ seen' = [seen EXCEPT ![c] = HooksApply(c)]
          /\ Goto(c, IF NeedsRefresh(c) THEN "refresh" ELSE "returned")
          /\ concurrent' = IF NeedsRefresh(c) THEN concurrent ELSE concurrent - 1
          /\ UNCHANGED <<resp, err, open>>
       \/ /\ HooksApply(c) /\ "fail" \in HookEffects
          /\ Close(c)
          /\ Hold(c, "none", "hook")
          /\ Goto(c, "returned")
          /\ concurrent' = concurrent - 1
          /\ UNCHANGED seen
    /\ UNCHANGED <<breakerVars, round, attempt, limited>>

\* handleAuthRetry: the hook fails, gives nothing, or gives a header; in the
\* last case the 401 body is drained, and replaying the request body may fail.
AuthRetry(c) ==
    /\ At(c, "refresh")
    /\ \/ /\ Hold(c, resp[c], "refresh") /\ Goto(c, "returned")
          /\ UNCHANGED <<open, round, attempt>>
       \/ /\ Goto(c, "returned")
          /\ UNCHANGED <<resp, err, open, round, attempt>>
       \/ /\ Close(c) /\ Hold(c, "none", "replay") /\ Goto(c, "returned")
          /\ UNCHANGED <<round, attempt>>
       \/ /\ Close(c) /\ Hold(c, "none", "none") /\ Goto(c, "send")
          /\ round' = [round EXCEPT ![c] = 2]
          /\ attempt' = [attempt EXCEPT ![c] = 0]
    /\ concurrent' = IF stage'[c] = "returned" THEN concurrent - 1 ELSE concurrent
    /\ UNCHANGED <<breakerVars, limited, seen>>

\* The caller closes the body it was given, and is done with the call.
Finish(c) ==
    /\ At(c, "returned")
    /\ Goto(c, "idle")
    /\ Hold(c, "none", "none")
    /\ open' = [open EXCEPT ![c] = IF Has(c) THEN @ - 1 ELSE @]
    /\ round' = [round EXCEPT ![c] = 1]
    /\ attempt' = [attempt EXCEPT ![c] = 0]
    /\ limited' = [limited EXCEPT ![c] = FALSE]
    /\ seen' = [seen EXCEPT ![c] = FALSE]
    /\ UNCHANGED <<breakerVars, concurrent>>

\* The metrics call the breaker makes outside its lock, inside allow or record.
DoEmitGauge(c) == EmitGauge(c) /\ UNCHANGED <<callVars, concurrent>>

DoTick == Tick /\ UNCHANGED <<callVars, concurrent>>

Do(c) ==
    \/ AskBreaker(c) \/ RunRequestHooks(c) \/ Convert(c)
    \/ Send(c) \/ Backoff(c) \/ GiveUp(c)
    \/ Settle(c) \/ RunResponseHooks(c) \/ AuthRetry(c) \/ DoEmitGauge(c)

DoNext == DoTick \/ \E c \in Caller : Begin(c) \/ Do(c) \/ Finish(c)

DoSpec == DoInit /\ [][DoNext]_doVars

\* A call that has begun goes on: attempts time out, waits end, hooks return.
DoFairSpec == DoSpec /\ \A c \in Caller : WF_doVars(Do(c))

----------------------------------------------------------------------------
(* What Do promises.                                                        *)

\* Every variable of the calls has its type; attempts stay within the retry
\* budget of a round.
DoTypeOK ==
    /\ stage \in [Caller -> Stage]
    /\ round \in [Caller -> {1, 2}]
    /\ attempt \in [Caller -> 0 .. RetryMax + 1]
    /\ resp \in [Caller -> Status \cup {"none"}]
    /\ err \in [Caller -> Error]
    /\ open \in [Caller -> 0 .. 1]
    /\ limited \in [Caller -> BOOLEAN] /\ seen \in [Caller -> BOOLEAN]
    /\ concurrent \in 0 .. Cardinality(Caller)

\* On every way out of Do and handleAuthRetry the only body left open is the
\* one the caller is handed: hook errors, refused replays, exhausted retries
\* and cancelled waits all close what they received.
NoBodyLeaks ==
    \A c \in Caller :
        stage[c] \in {"returned", "idle", "send"} =>
            open[c] = (IF Has(c) THEN 1 ELSE 0)

\* A response handed over without an error passed the response hooks and is
\* read through the body limit, whether or not it is the one after a 401
\* (the two blocks of Do are repeated in handleAuthRetry).
ReturnedIsChecked ==
    \A c \in Caller :
        stage[c] = "returned" /\ Has(c) /\ err[c] = "none" =>
            seen[c] /\ limited[c] = BodyLimit

Sending == {"send", "backoff", "giveUp", "settle"}

\* A call that has left the breaker's books holds no half-open slot: user code
\* of the response hooks and of the 401 refresh, and the second round, run
\* when the outcome is already recorded.
RecordedOnce ==
    BreakerEnabled =>
        \A c \in Caller :
            /\ stage[c] \in Sending /\ round[c] = 1 => pc[c] = "inflight"
            /\ stage[c] \in Sending /\ round[c] = 2 => pc[c] = "idle"
            /\ stage[c] \in {"responseHooks", "refresh", "returned"} => pc[c] = "idle"

\* The in-flight counter is exactly the calls past the request hooks, on every
\* error path out of them (the deferred decrement of Do).
ConcurrentIsExact ==
    concurrent = Cardinality({c \in Caller :
        stage[c] \in Sending \cup {"convert", "responseHooks", "refresh"}})

\* No call goes on for ever: retries, their 401 round and the breaker's slow
\* path all end.
CallsReturn ==
    \A c \in Caller : stage[c] \in {"allow", "hooks"} ~> stage[c] = "returned"

----------------------------------------------------------------------------
PhaseOf(s) == IF s = "idle" THEN "idle"
              ELSE IF s = "returned" THEN "answered" ELSE "working"

Calls == INSTANCE CallContract WITH
    phase   <- [c \in Caller |-> PhaseOf(stage[c])],
    left    <- [c \in Caller |-> RetryMax + 1 - attempt[c]],
    renewed <- {c \in Caller : round[c] = 2},
    held    <- resp,
    Nothing <- "none", Denied <- "unauthorized", Tries <- RetryMax + 1

\* However hooks fail, contexts end and bodies cannot be replayed, a call sends
\* at most RetryMax + 1 requests in a round, makes a second round only once and
\* only for a 401, never sends while it holds a response, and answers once
\* ("single retry", client.go:873).
CallSpec == Calls!Spec
=============================================================================

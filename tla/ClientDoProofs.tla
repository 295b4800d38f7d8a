--------------------------- MODULE ClientDoProofs ---------------------------
(***************************************************************************)
(* Proofs about ClientDo for any hosts, any finite set of callers and any  *)
(* configuration of Do, with or without the breaker; and about the waits   *)
(* of its retry loop (RetryWait).                                          *)
(***************************************************************************)
EXTENDS ClientDo, CircuitBreakerProofs

CallTypes ==
    /\ stage \in [Caller -> Stage]
    /\ round \in [Caller -> {1, 2}]
    /\ attempt \in [Caller -> 0 .. RetryMax + 1]
    /\ resp \in [Caller -> Status \cup {"none"}]
    /\ err \in [Caller -> Error]
    /\ open \in [Caller -> 0 .. 1]
    /\ limited \in [Caller -> BOOLEAN] /\ seen \in [Caller -> BOOLEAN]

Early == {"idle", "allow", "hooks", "convert"}

\* What Do holds at each stage, and the body that goes with it.
Holds(c) ==
    /\ open[c] = (IF Has(c) THEN 1 ELSE 0)
    /\ stage[c] \in Early \cup {"send"} => resp[c] = "none" /\ err[c] = "none"
    /\ stage[c] \in Early \cup {"refresh"} => round[c] = 1
    /\ stage[c] \in Early => attempt[c] = 0
    /\ stage[c] \in {"send", "backoff"} => attempt[c] <= RetryMax

\* What has been done to the response at each stage.
Checked(c) ==
    /\ stage[c] = "responseHooks" =>
        (limited[c] <=> BodyLimit /\ Has(c) /\ err[c] = "none")
    /\ stage[c] = "refresh" => Has(c) /\ err[c] = "none"
    /\ stage[c] \in {"refresh", "returned"} /\ Has(c) /\ err[c] = "none" =>
        seen[c] /\ (limited[c] <=> BodyLimit)

\* Where the breaker believes the call to be.
Booked(c) ==
    BreakerEnabled =>
        /\ stage[c] = "allow" => pc[c] \in {"idle", "slow"}
        /\ stage[c] \in {"hooks", "convert"} => pc[c] = "inflight"
        /\ stage[c] \in Sending /\ round[c] = 1 => pc[c] = "inflight"
        /\ stage[c] \in Sending /\ round[c] = 2 => pc[c] = "idle"
        /\ stage[c] \in {"idle", "responseHooks", "refresh", "returned"} => pc[c] = "idle"

Counting == Sending \cup {"convert", "responseHooks", "refresh"}
Counted == {c \in Caller : stage[c] \in Counting}

\* The inductive invariant.
DoInv ==
    /\ TypeOK /\ CallTypes
    /\ \A c \in Caller : Holds(c) /\ Checked(c) /\ Booked(c)
    /\ concurrent = Cardinality(Counted)

----------------------------------------------------------------------------
(* Do drives the breaker as its module says.                                *)
LEMMA StepRunsTheBreaker == [DoNext]_doVars => [Next]_breakerVars
  <1> SUFFICES ASSUME [DoNext]_doVars PROVE [Next]_breakerVars
    OBVIOUS
  <1>1. ASSUME NEW c \in Caller, Forsake(c) PROVE [Next]_breakerVars
    BY <1>1 DEF Forsake, Next
  <1>2. ASSUME NEW c \in Caller, Settle(c) PROVE [Next]_breakerVars
    <2>1. CASE BreakerEnabled /\ round[c] = 1
      <3>1. PICK h \in ReportHosts(c) : RecordFailure(c, h) \/ RecordSuccess(c, h)
        BY <1>2, <2>1 DEF Settle, RecordFor
      <3>2. Report(c)
        BY <3>1 DEF Report
      <3> QED  BY <3>2 DEF Next
    <2>2. CASE ~ (BreakerEnabled /\ round[c] = 1)
      BY <1>2, <2>2 DEF Settle
    <2> QED  BY <2>1, <2>2
  <1>3. ASSUME NEW c \in Caller,
               Begin(c) \/ Send(c) \/ Backoff(c) \/ GiveUp(c) \/ RunResponseHooks(c)
                        \/ AuthRetry(c) \/ Finish(c)
        PROVE  UNCHANGED breakerVars
    BY <1>3 DEF Begin, Send, Backoff, GiveUp, RunResponseHooks, AuthRetry, Finish
  <1>4. ASSUME NEW c \in Caller, AskBreaker(c) \/ DoEmitGauge(c) PROVE [Next]_breakerVars
    BY <1>4 DEF AskBreaker, DoEmitGauge, Next
  <1>5. ASSUME NEW c \in Caller, RunRequestHooks(c) \/ Convert(c)
        PROVE  [Next]_breakerVars
    BY <1>1, <1>5 DEF RunRequestHooks, Convert
  <1>6. CASE DoTick
    BY <1>6 DEF DoTick, Next
  <1>7. CASE UNCHANGED doVars
    BY <1>7 DEF doVars
  <1> QED  BY <1>2, <1>3, <1>4, <1>5, <1>6, <1>7 DEF DoNext, Do

(* Every behaviour of the pipeline is one of the breaker, so that all that  *)
(* is proved of the breaker holds inside Do: its quota, its thresholds and  *)
(* its contract.                                                            *)
THEOREM DoRunsTheBreaker == DoSpec => Spec
  <1>1. DoInit => Init
    BY DEF DoInit
  <1> QED  BY <1>1, StepRunsTheBreaker, PTL DEF DoSpec, Spec

----------------------------------------------------------------------------
\* A step of one call leaves the others where they are.
Only(c) ==
    \A d \in Caller \ {c} :
        /\ stage'[d] = stage[d] /\ round'[d] = round[d] /\ attempt'[d] = attempt[d]
        /\ resp'[d] = resp[d] /\ err'[d] = err[d] /\ open'[d] = open[d]
        /\ limited'[d] = limited[d] /\ seen'[d] = seen[d] /\ pc'[d] = pc[d]

\* What a step of one call adds to the calls that are counted.
One(s) == IF s \in Counting THEN 1 ELSE 0

(* The counter follows the stage of the call that moves.                    *)
LEMMA CountFollows ==
    ASSUME DoInv, NEW c \in Caller, Only(c), CallTypes',
           concurrent' = concurrent + One(stage'[c]) - One(stage[c])
    PROVE  concurrent' = Cardinality(Counted')
  <1>1. IsFiniteSet(Counted) /\ Cardinality(Counted) \in Nat
    BY SetAssumption, FS_Subset, FS_CardinalityType DEF Counted
  <1>2. \A d \in Caller \ {c} : d \in Counted' <=> d \in Counted
    BY DEF Only, Counted
  <1>3. c \in Counted' <=> stage'[c] \in Counting
    BY DEF Counted
  <1>4. c \in Counted <=> stage[c] \in Counting
    BY DEF Counted
  <1>5. CASE c \in Counted' /\ c \notin Counted
    <2>1. Counted' = Counted \cup {c}
      BY <1>2, <1>5 DEF Counted
    <2>2. Cardinality(Counted') = Cardinality(Counted) + 1
      BY <1>1, <1>5, <2>1, FS_AddElement
    <2> QED  BY <1>1, <1>3, <1>4, <1>5, <2>2 DEF One, DoInv
  <1>6. CASE c \notin Counted' /\ c \in Counted
    <2>1. Counted' = Counted \ {c}
      BY <1>2, <1>6 DEF Counted
    <2>2. Cardinality(Counted') = Cardinality(Counted) - 1
      BY <1>1, <1>6, <2>1, FS_RemoveElement
    <2> QED  BY <1>1, <1>3, <1>4, <1>6, <2>2 DEF One, DoInv
  <1>7. CASE c \in Counted' <=> c \in Counted
    <2>1. Counted' = Counted
      BY <1>2, <1>7 DEF Counted
    <2> QED  BY <1>1, <1>3, <1>4, <1>7, <2>1 DEF One, DoInv
  <1> QED  BY <1>5, <1>6, <1>7

(* The counter is a number.                                                 *)
LEMMA ConcurrentIsInt == DoInv => concurrent \in Int
  BY SetAssumption, FS_Subset, FS_CardinalityType DEF DoInv, Counted

(* A step of one call keeps the invariant when it keeps the call's part.    *)
LEMMA CallStep ==
    ASSUME DoInv, TypeOK', NEW c \in Caller, Only(c), CallTypes',
           (Holds(c) /\ Checked(c) /\ Booked(c))',
           concurrent' = concurrent + One(stage'[c]) - One(stage[c])
    PROVE  DoInv'
  <1>1. ASSUME NEW d \in Caller \ {c} PROVE (Holds(d) /\ Checked(d) /\ Booked(d))'
    BY DEF DoInv, Only, Holds, Checked, Booked, Has
  <1> QED  BY <1>1, CountFollows DEF DoInv

(* The breaker moves no other call than the one at hand.                    *)
LEMMA BreakerMovesOne ==
    ASSUME TypeOK, NEW c \in Caller
    PROVE  /\ Allow(c) => /\ \A d \in Caller \ {c} : pc'[d] = pc[d]
                          /\ pc'[c] \in {"inflight", "slow", "idle"}
                          /\ pc[c] \in {"idle", "slow"}
           /\ Forsake(c) => /\ \A d \in Caller \ {c} : pc'[d] = pc[d]
                            /\ BreakerEnabled => pc'[c] = "idle"
           /\ EmitGauge(c) => pc' = pc
           /\ RecordFor(c) => /\ \A d \in Caller \ {c} : pc'[d] = pc[d]
                              /\ pc'[c] = "idle"
  <1>1. ASSUME Allow(c)
        PROVE  /\ \A d \in Caller \ {c} : pc'[d] = pc[d]
               /\ pc'[c] \in {"inflight", "slow", "idle"}
               /\ pc[c] \in {"idle", "slow"}
    BY <1>1 DEF Allow, AllowFast, AllowMiss, AllowClosed, AllowTransition, AllowProbe,
                AllowReject, TypeOK
  <1>2. ASSUME Forsake(c)
        PROVE  /\ \A d \in Caller \ {c} : pc'[d] = pc[d]
               /\ BreakerEnabled => pc'[c] = "idle"
    BY <1>2 DEF Forsake, Abandon, breakerVars, TypeOK
  <1>3. EmitGauge(c) => pc' = pc
    BY DEF EmitGauge
  <1>4. ASSUME NEW h, NEW b, Record(c, h, b)
        PROVE  (\A d \in Caller \ {c} : pc'[d] = pc[d]) /\ pc'[c] = "idle"
    BY <1>4 DEF Record, TypeOK
  <1>5. ASSUME RecordFor(c)
        PROVE  (\A d \in Caller \ {c} : pc'[d] = pc[d]) /\ pc'[c] = "idle"
    BY <1>4, <1>5 DEF RecordFor, RecordSuccess, RecordFailure
  <1> QED  BY <1>1, <1>2, <1>3, <1>5

----------------------------------------------------------------------------
(* Each step of a call, in the order of Do.                                 *)
LEMMA BeginKeeps ==
    ASSUME DoInv, TypeOK', NEW c \in Caller, Begin(c)
    PROVE  DoInv'
  <1>1. /\ stage[c] = "idle" /\ CallTypes /\ Holds(c) /\ Booked(c)
        /\ UNCHANGED <<breakerVars, concurrent, round, attempt, resp, open, limited, seen>>
    BY DEF Begin, At, DoInv
  <1>2. PICK s \in {"allow", "hooks", "returned"}, e \in {"none", "invalid"} :
            /\ stage' = [stage EXCEPT ![c] = s] /\ err' = [err EXCEPT ![c] = e]
            /\ s # "returned" => e = "none" /\ s = IF BreakerEnabled THEN "allow" ELSE "hooks"
    <2>1. err = [err EXCEPT ![c] = "none"]
      BY <1>1 DEF Holds, Early, CallTypes
    <2> QED  BY <2>1 DEF Begin, Goto
  <1>3. pc' = pc
    BY <1>1 DEF breakerVars
  <1>4. CallTypes' /\ Only(c)
    BY <1>1, <1>2, <1>3 DEF CallTypes, Only, Stage, Error
  <1>5. stage'[c] = s /\ err'[c] = e
    BY <1>1, <1>2 DEF CallTypes
  <1>6. (Holds(c) /\ Checked(c) /\ Booked(c))'
    BY <1>1, <1>2, <1>3, <1>5 DEF Holds, Checked, Booked, Early, Has, Sending
  <1>7. concurrent' = concurrent + One(stage'[c]) - One(stage[c])
    BY <1>1, <1>2, <1>5, ConcurrentIsInt DEF One, Counting, Sending
  <1> QED  BY <1>4, <1>6, <1>7, CallStep

LEMMA AskBreakerKeeps ==
    ASSUME DoInv, TypeOK', NEW c \in Caller, AskBreaker(c)
    PROVE  DoInv'
  <1>1. /\ stage[c] = "allow" /\ CallTypes /\ Holds(c) /\ Booked(c) /\ Allow(c)
        /\ UNCHANGED <<concurrent, round, attempt, resp, open, limited, seen>>
    BY DEF AskBreaker, At, DoInv
  <1>2. PICK s \in {"allow", "hooks", "returned"}, e \in {"none", "open"} :
            /\ stage' = [stage EXCEPT ![c] = s] /\ err' = [err EXCEPT ![c] = e]
            /\ s = "allow" => pc'[c] = "slow" /\ e = "none"
            /\ s = "hooks" => pc'[c] = "inflight" /\ e = "none"
            /\ s = "returned" => pc'[c] = "idle" /\ e = "open"
    <2>1. err = [err EXCEPT ![c] = "none"] /\ stage = [stage EXCEPT ![c] = "allow"]
      BY <1>1 DEF Holds, Early, CallTypes
    <2> QED  BY <2>1 DEF AskBreaker, Goto
  <1>3. \A d \in Caller \ {c} : pc'[d] = pc[d]
    BY <1>1, BreakerMovesOne DEF DoInv
  <1>4. CallTypes' /\ Only(c)
    BY <1>1, <1>2, <1>3 DEF CallTypes, Only, Stage, Error
  <1>5. stage'[c] = s /\ err'[c] = e
    BY <1>1, <1>2 DEF CallTypes
  <1>6. (Holds(c) /\ Checked(c) /\ Booked(c))'
    BY <1>1, <1>2, <1>5 DEF Holds, Checked, Booked, Early, Has, Sending
  <1>7. concurrent' = concurrent + One(stage'[c]) - One(stage[c])
    BY <1>1, <1>2, <1>5, ConcurrentIsInt DEF One, Counting, Sending
  <1> QED  BY <1>4, <1>6, <1>7, CallStep

LEMMA RunRequestHooksKeeps ==
    ASSUME DoInv, TypeOK', NEW c \in Caller, RunRequestHooks(c)
    PROVE  DoInv'
  <1>1. /\ stage[c] = "hooks" /\ CallTypes /\ Holds(c) /\ Booked(c) /\ TypeOK
        /\ UNCHANGED <<round, attempt, resp, open, limited, seen>>
    BY DEF RunRequestHooks, At, DoInv
  <1>2. err[c] = "none" /\ resp[c] = "none"
    BY <1>1 DEF Holds, Early
  <1>3. CASE /\ Goto(c, "convert") /\ concurrent' = concurrent + 1
             /\ UNCHANGED <<breakerVars, err>>
    <2>1. pc' = pc /\ stage' = [stage EXCEPT ![c] = "convert"] /\ stage'[c] = "convert"
      BY <1>1, <1>3 DEF breakerVars, Goto, CallTypes
    <2>2. CallTypes' /\ Only(c)
      BY <1>1, <1>3, <2>1 DEF CallTypes, Only, Stage
    <2>3. (Holds(c) /\ Checked(c) /\ Booked(c))'
      BY <1>1, <1>2, <1>3, <2>1 DEF Holds, Checked, Booked, Early, Has, Sending
    <2>4. concurrent' = concurrent + One(stage'[c]) - One(stage[c])
      BY <1>1, <1>3, <2>1, ConcurrentIsInt DEF One, Counting, Sending
    <2> QED  BY <2>2, <2>3, <2>4, CallStep
  <1>4. CASE /\ Forsake(c) /\ Goto(c, "returned") /\ err' = [err EXCEPT ![c] = "hook"]
             /\ UNCHANGED concurrent
    <2>1. /\ \A d \in Caller \ {c} : pc'[d] = pc[d]
          /\ BreakerEnabled => pc'[c] = "idle"
      BY <1>1, <1>4, BreakerMovesOne
    <2>2. stage' = [stage EXCEPT ![c] = "returned"] /\ stage'[c] = "returned"
          /\ err'[c] = "hook"
      BY <1>1, <1>4 DEF Goto, CallTypes
    <2>3. CallTypes' /\ Only(c)
      BY <1>1, <1>4, <2>1, <2>2 DEF CallTypes, Only, Stage, Error
    <2>4. (Holds(c) /\ Checked(c) /\ Booked(c))'
      BY <1>1, <1>2, <2>1, <2>2 DEF Holds, Checked, Booked, Early, Has, Sending
    <2>5. concurrent' = concurrent + One(stage'[c]) - One(stage[c])
      BY <1>1, <1>4, <2>2, ConcurrentIsInt DEF One, Counting, Sending
    <2> QED  BY <2>3, <2>4, <2>5, CallStep
  <1> QED  BY <1>3, <1>4 DEF RunRequestHooks

LEMMA ConvertKeeps ==
    ASSUME DoInv, TypeOK', NEW c \in Caller, Convert(c)
    PROVE  DoInv'
  <1>1. /\ stage[c] = "convert" /\ CallTypes /\ Holds(c) /\ Booked(c) /\ TypeOK
        /\ UNCHANGED <<round, attempt, resp, open, limited, seen>>
    BY DEF Convert, At, DoInv
  <1>2. err[c] = "none" /\ resp[c] = "none" /\ round[c] = 1 /\ attempt[c] = 0
    BY <1>1 DEF Holds, Early
  <1>3. CASE Goto(c, "send") /\ UNCHANGED <<breakerVars, concurrent, err>>
    <2>1. pc' = pc /\ stage' = [stage EXCEPT ![c] = "send"] /\ stage'[c] = "send"
      BY <1>1, <1>3 DEF breakerVars, Goto, CallTypes
    <2>2. CallTypes' /\ Only(c)
      BY <1>1, <1>3, <2>1 DEF CallTypes, Only, Stage
    <2>3. (Holds(c) /\ Checked(c) /\ Booked(c))'
      BY <1>1, <1>2, <1>3, <2>1, ClientAssumption
         DEF Holds, Checked, Booked, Early, Has, Sending
    <2>4. concurrent' = concurrent + One(stage'[c]) - One(stage[c])
      BY <1>1, <1>3, <2>1, ConcurrentIsInt DEF One, Counting, Sending
    <2> QED  BY <2>2, <2>3, <2>4, CallStep
  <1>4. CASE /\ Forsake(c) /\ Goto(c, "returned") /\ err' = [err EXCEPT ![c] = "request"]
             /\ concurrent' = concurrent - 1
    <2>1. /\ \A d \in Caller \ {c} : pc'[d] = pc[d]
          /\ BreakerEnabled => pc'[c] = "idle"
      BY <1>1, <1>4, BreakerMovesOne
    <2>2. stage' = [stage EXCEPT ![c] = "returned"] /\ stage'[c] = "returned"
          /\ err'[c] = "request"
      BY <1>1, <1>4 DEF Goto, CallTypes
    <2>3. CallTypes' /\ Only(c)
      BY <1>1, <1>4, <2>1, <2>2 DEF CallTypes, Only, Stage, Error
    <2>4. (Holds(c) /\ Checked(c) /\ Booked(c))'
      BY <1>1, <1>2, <2>1, <2>2 DEF Holds, Checked, Booked, Early, Has, Sending
    <2>5. concurrent' = concurrent + One(stage'[c]) - One(stage[c])
      BY <1>1, <1>4, <2>2, ConcurrentIsInt DEF One, Counting, Sending
    <2> QED  BY <2>3, <2>4, <2>5, CallStep
  <1> QED  BY <1>3, <1>4 DEF Convert

\* An attempt ends in one of the outcomes of the retry loop.
LEMMA SendKeeps ==
    ASSUME DoInv, TypeOK', NEW c \in Caller, Send(c)
    PROVE  DoInv'
  <1>1. /\ stage[c] = "send" /\ CallTypes /\ Holds(c) /\ Booked(c)
        /\ UNCHANGED <<breakerVars, concurrent, round, limited, seen>>
        /\ attempt' = [attempt EXCEPT ![c] = @ + 1]
    BY DEF Send, At, DoInv
  <1>2. /\ err[c] = "none" /\ resp[c] = "none" /\ open[c] = 0
        /\ attempt[c] <= RetryMax
    BY <1>1 DEF Holds, Has
  <1>3. PICK o \in Outcome :
            /\ Hold(c, o[1], o[2])
            /\ open' = [open EXCEPT ![c] = IF o[1] = "none" THEN @ ELSE @ + 1]
            /\ \/ ShouldRetry(o[1], o[2]) /\ attempt[c] < RetryMax /\ Goto(c, "backoff")
               \/ ShouldRetry(o[1], o[2]) /\ attempt[c] >= RetryMax /\ Goto(c, "giveUp")
               \/ /\ ~ ShouldRetry(o[1], o[2])
                  /\ Goto(c, IF o[2] = "canceled" THEN "giveUp" ELSE "settle")
    BY DEF Send
  <1>4. PICK s \in {"backoff", "giveUp", "settle"} :
            /\ stage' = [stage EXCEPT ![c] = s]
            /\ s = "backoff" => attempt[c] < RetryMax
    BY <1>3 DEF Goto
  <1>5. o[1] \in Status \cup {"none"} /\ o[2] \in Error
    BY <1>3 DEF Outcome, Error
  <1>6. /\ stage'[c] = s /\ resp'[c] = o[1] /\ err'[c] = o[2]
        /\ open'[c] = (IF o[1] = "none" THEN 0 ELSE 1)
        /\ attempt'[c] = attempt[c] + 1
    BY <1>1, <1>2, <1>3, <1>4 DEF CallTypes, Hold
  <1>7. pc' = pc
    BY <1>1 DEF breakerVars
  <1>8. attempt[c] + 1 \in 0 .. RetryMax + 1
    BY <1>1, <1>2, ClientAssumption DEF CallTypes
  <1>9. CallTypes' /\ Only(c)
    <2>1. stage' \in [Caller -> Stage] /\ attempt' \in [Caller -> 0 .. RetryMax + 1]
      BY <1>1, <1>4, <1>8 DEF CallTypes, Stage
    <2>2. resp' \in [Caller -> Status \cup {"none"}] /\ err' \in [Caller -> Error]
      BY <1>1, <1>3, <1>5 DEF CallTypes, Hold
    <2>3. open' \in [Caller -> 0 .. 1]
      BY <1>1, <1>2, <1>3 DEF CallTypes
    <2>4. Only(c)
      BY <1>1, <1>3, <1>4, <1>7 DEF CallTypes, Only, Hold
    <2> QED  BY <1>1, <2>1, <2>2, <2>3, <2>4 DEF CallTypes
  <1>10. (Holds(c) /\ Checked(c) /\ Booked(c))'
    <2>1. Holds(c)'
      BY <1>1, <1>4, <1>6, <1>8, ClientAssumption DEF Holds, Early, Has, CallTypes
    <2> QED  BY <1>1, <1>4, <1>6, <1>7, <2>1 DEF Checked, Booked, Sending
  <1>11. concurrent' = concurrent + One(stage'[c]) - One(stage[c])
    BY <1>1, <1>4, <1>6, ConcurrentIsInt DEF One, Counting, Sending
  <1> QED  BY <1>9, <1>10, <1>11, CallStep

LEMMA BackoffKeeps ==
    ASSUME DoInv, TypeOK', NEW c \in Caller, Backoff(c)
    PROVE  DoInv'
  <1>1. /\ stage[c] = "backoff" /\ CallTypes /\ Holds(c) /\ Booked(c)
        /\ UNCHANGED <<breakerVars, concurrent, round, attempt, limited, seen>>
        /\ open' = [open EXCEPT ![c] = IF Has(c) THEN @ - 1 ELSE @]
    BY DEF Backoff, At, DoInv
  <1>2. PICK s \in {"send", "settle"}, e \in {"none", "canceled"} :
            /\ stage' = [stage EXCEPT ![c] = s]
            /\ resp' = [resp EXCEPT ![c] = "none"] /\ err' = [err EXCEPT ![c] = e]
            /\ s = "send" => e = "none"
    BY DEF Backoff, Goto, Hold
  <1>3. open[c] = (IF Has(c) THEN 1 ELSE 0) /\ attempt[c] <= RetryMax
    BY <1>1 DEF Holds
  <1>4. /\ stage'[c] = s /\ resp'[c] = "none" /\ err'[c] = e /\ open'[c] = 0
    BY <1>1, <1>2, <1>3 DEF CallTypes
  <1>5. pc' = pc
    BY <1>1 DEF breakerVars
  <1>6. CallTypes' /\ Only(c)
    <2>1. open' \in [Caller -> 0 .. 1]
      BY <1>1, <1>3 DEF CallTypes
    <2> QED  BY <1>1, <1>2, <1>5, <2>1 DEF CallTypes, Only, Stage, Error
  <1>7. (Holds(c) /\ Checked(c) /\ Booked(c))'
    BY <1>1, <1>2, <1>3, <1>4, <1>5 DEF Holds, Checked, Booked, Early, Has, Sending
  <1>8. concurrent' = concurrent + One(stage'[c]) - One(stage[c])
    BY <1>1, <1>2, <1>4, ConcurrentIsInt DEF One, Counting, Sending
  <1> QED  BY <1>6, <1>7, <1>8, CallStep

LEMMA GiveUpKeeps ==
    ASSUME DoInv, TypeOK', NEW c \in Caller, GiveUp(c)
    PROVE  DoInv'
  <1>1. /\ stage[c] = "giveUp" /\ CallTypes /\ Holds(c) /\ Booked(c)
        /\ UNCHANGED <<breakerVars, concurrent, round, attempt, limited, seen>>
        /\ stage' = [stage EXCEPT ![c] = "settle"]
    BY DEF GiveUp, At, DoInv, Goto
  <1>2. open[c] = (IF Has(c) THEN 1 ELSE 0)
    BY <1>1 DEF Holds
  <1>3. PICK r \in Status \cup {"none"}, e \in Error, n \in 0 .. 1 :
            /\ resp' = [resp EXCEPT ![c] = r] /\ err' = [err EXCEPT ![c] = e]
            /\ open' = [open EXCEPT ![c] = n]
            /\ n = (IF r = "none" THEN 0 ELSE 1)
    <2>1. CASE HandsBack(c)
      <3>1. resp' = [resp EXCEPT ![c] = resp[c]] /\ err' = [err EXCEPT ![c] = err[c]]
            /\ open' = [open EXCEPT ![c] = open[c]]
        BY <2>1, <1>1 DEF GiveUp, CallTypes
      <3>2. resp[c] \in Status \cup {"none"} /\ err[c] \in Error /\ open[c] \in 0 .. 1
        BY <1>1 DEF CallTypes
      <3> QED  BY <1>2, <3>1, <3>2 DEF Has
    <2>2. CASE ~ HandsBack(c)
      <3>1. /\ resp' = [resp EXCEPT ![c] = "none"]
            /\ err' = [err EXCEPT ![c] = IF Passthrough THEN err[c] ELSE "gaveUp"]
            /\ open' = [open EXCEPT ![c] = 0]
        BY <2>2, <1>1, <1>2 DEF GiveUp, CallTypes, Hold
      <3>2. (IF Passthrough THEN err[c] ELSE "gaveUp") \in Error
        BY <1>1 DEF CallTypes, Error
      <3> WITNESS "none" \in Status \cup {"none"},
                  (IF Passthrough THEN err[c] ELSE "gaveUp") \in Error, 0 \in 0 .. 1
      <3> QED  BY <3>1
    <2> QED  BY <2>1, <2>2
  <1>4. stage'[c] = "settle" /\ resp'[c] = r /\ err'[c] = e /\ open'[c] = n
    BY <1>1, <1>3 DEF CallTypes
  <1>5. pc' = pc
    BY <1>1 DEF breakerVars
  <1>6. CallTypes' /\ Only(c)
    BY <1>1, <1>3, <1>5 DEF CallTypes, Only, Stage
  <1>7. (Holds(c) /\ Checked(c) /\ Booked(c))'
    BY <1>1, <1>3, <1>4, <1>5 DEF Holds, Checked, Booked, Early, Has, Sending
  <1>8. concurrent' = concurrent + One(stage'[c]) - One(stage[c])
    BY <1>1, <1>4, ConcurrentIsInt DEF One, Counting, Sending
  <1> QED  BY <1>6, <1>7, <1>8, CallStep

LEMMA SettleKeeps ==
    ASSUME DoInv, TypeOK', NEW c \in Caller, Settle(c)
    PROVE  DoInv'
  <1>1. /\ stage[c] = "settle" /\ CallTypes /\ Holds(c) /\ Booked(c) /\ TypeOK
        /\ UNCHANGED <<concurrent, round, attempt, resp, err, open>>
        /\ stage' = [stage EXCEPT ![c] = "responseHooks"]
        /\ seen' = [seen EXCEPT ![c] = FALSE]
        /\ limited' = [limited EXCEPT ![c] = BodyLimit /\ Has(c) /\ err[c] = "none"]
    BY DEF Settle, At, DoInv, Goto, Limit
  <1>2. /\ \A d \in Caller \ {c} : pc'[d] = pc[d]
        /\ BreakerEnabled => pc'[c] = "idle"
    <2>1. CASE BreakerEnabled /\ round[c] = 1
      BY <1>1, <2>1, BreakerMovesOne DEF Settle
    <2>2. CASE ~ (BreakerEnabled /\ round[c] = 1)
      <3>1. pc' = pc
        BY <2>2 DEF Settle, breakerVars
      <3>2. round[c] \in {1, 2}
        BY <1>1 DEF CallTypes
      <3> QED  BY <1>1, <2>2, <3>1, <3>2 DEF Booked, Sending
    <2> QED  BY <2>1, <2>2
  <1>3. /\ stage'[c] = "responseHooks" /\ seen'[c] = FALSE
        /\ limited'[c] <=> BodyLimit /\ Has(c) /\ err[c] = "none"
    BY <1>1 DEF CallTypes
  <1>4. CallTypes' /\ Only(c)
    <2>1. (BodyLimit /\ Has(c) /\ err[c] = "none") \in BOOLEAN
      OBVIOUS
    <2> QED  BY <1>1, <1>2, <2>1 DEF CallTypes, Only, Stage
  <1>5. (Holds(c) /\ Checked(c) /\ Booked(c))'
    BY <1>1, <1>2, <1>3 DEF Holds, Checked, Booked, Early, Has, Sending
  <1>6. concurrent' = concurrent + One(stage'[c]) - One(stage[c])
    BY <1>1, <1>3, ConcurrentIsInt DEF One, Counting, Sending
  <1> QED  BY <1>4, <1>5, <1>6, CallStep

\* The hooks pass the response, or fail and close its body.
LEMMA RunResponseHooksKeeps ==
    ASSUME DoInv, TypeOK', NEW c \in Caller, RunResponseHooks(c)
    PROVE  DoInv'
  <1>1. /\ stage[c] = "responseHooks" /\ CallTypes /\ Holds(c) /\ Checked(c) /\ Booked(c)
        /\ UNCHANGED <<breakerVars, round, attempt, limited>>
    BY DEF RunResponseHooks, At, DoInv
  <1>2. pc' = pc
    BY <1>1 DEF breakerVars
  <1>3. limited[c] <=> BodyLimit /\ Has(c) /\ err[c] = "none"
    BY <1>1 DEF Checked
  <1>4. CASE /\ seen' = [seen EXCEPT ![c] = HooksApply(c)]
             /\ Goto(c, IF NeedsRefresh(c) THEN "refresh" ELSE "returned")
             /\ concurrent' = IF NeedsRefresh(c) THEN concurrent ELSE concurrent - 1
             /\ UNCHANGED <<resp, err, open>>
    <2> DEFINE s == IF NeedsRefresh(c) THEN "refresh" ELSE "returned"
    <2>1. /\ stage' = [stage EXCEPT ![c] = s] /\ stage'[c] = s
          /\ seen'[c] <=> HooksApply(c)
      BY <1>1, <1>4 DEF Goto, CallTypes
    <2>2. CallTypes' /\ Only(c)
      <3>1. s \in Stage /\ HooksApply(c) \in BOOLEAN
        BY DEF Stage, HooksApply
      <3> QED  BY <1>1, <1>2, <1>4, <2>1, <3>1 DEF CallTypes, Only
    <2>3. (Holds(c) /\ Checked(c) /\ Booked(c))'
      BY <1>1, <1>2, <1>3, <1>4, <2>1
         DEF Holds, Checked, Booked, Early, Has, Sending, HooksApply, NeedsRefresh
    <2>4. concurrent' = concurrent + One(stage'[c]) - One(stage[c])
      BY <1>1, <1>4, <2>1, ConcurrentIsInt DEF One, Counting, Sending
    <2> QED  BY <2>2, <2>3, <2>4, CallStep
  <1>5. CASE /\ HooksApply(c) /\ Close(c) /\ Hold(c, "none", "hook")
             /\ Goto(c, "returned") /\ concurrent' = concurrent - 1 /\ UNCHANGED seen
    <2>1. open[c] = 1
      BY <1>1, <1>5 DEF Holds, HooksApply
    <2>2. /\ stage'[c] = "returned" /\ resp'[c] = "none" /\ err'[c] = "hook"
          /\ open'[c] = 0
      BY <1>1, <1>5, <2>1 DEF CallTypes, Close, Hold, Goto
    <2>3. CallTypes' /\ Only(c)
      <3>1. open' \in [Caller -> 0 .. 1]
        BY <1>1, <1>5, <2>1 DEF CallTypes, Close
      <3> QED  BY <1>1, <1>2, <1>5, <3>1 DEF CallTypes, Only, Stage, Error, Close, Hold, Goto
    <2>4. (Holds(c) /\ Checked(c) /\ Booked(c))'
      BY <1>1, <1>2, <2>2 DEF Holds, Checked, Booked, Early, Has, Sending
    <2>5. concurrent' = concurrent + One(stage'[c]) - One(stage[c])
      BY <1>1, <1>5, <2>2, ConcurrentIsInt DEF One, Counting, Sending
    <2> QED  BY <2>3, <2>4, <2>5, CallStep
  <1> QED  BY <1>4, <1>5 DEF RunResponseHooks

\* The 401 goes out, or its body is closed and the request is sent again.
LEMMA AuthRetryKeeps ==
    ASSUME DoInv, TypeOK', NEW c \in Caller, AuthRetry(c)
    PROVE  DoInv'
  <1>1. /\ stage[c] = "refresh" /\ CallTypes /\ Holds(c) /\ Checked(c) /\ Booked(c)
        /\ UNCHANGED <<breakerVars, limited, seen>>
        /\ concurrent' = IF stage'[c] = "returned" THEN concurrent - 1 ELSE concurrent
    BY DEF AuthRetry, At, DoInv
  <1>2. pc' = pc
    BY <1>1 DEF breakerVars
  <1>3. Has(c) /\ err[c] = "none" /\ open[c] = 1 /\ seen[c] /\ (limited[c] <=> BodyLimit)
    BY <1>1 DEF Checked, Holds
  <1>4. PICK s \in {"returned", "send"}, r \in Status \cup {"none"},
             e \in {"none", "refresh", "replay"}, n \in 0 .. 1 :
            /\ stage' = [stage EXCEPT ![c] = s] /\ resp' = [resp EXCEPT ![c] = r]
            /\ err' = [err EXCEPT ![c] = e] /\ open' = [open EXCEPT ![c] = n]
            /\ n = (IF r = "none" THEN 0 ELSE 1)
            /\ s = "returned" => UNCHANGED <<round, attempt>>
            /\ s = "send" => /\ r = "none" /\ e = "none"
                             /\ round' = [round EXCEPT ![c] = 2]
                             /\ attempt' = [attempt EXCEPT ![c] = 0]
    <2>1. /\ resp = [resp EXCEPT ![c] = resp[c]] /\ resp[c] \in Status \cup {"none"}
          /\ err = [err EXCEPT ![c] = "none"] /\ open = [open EXCEPT ![c] = 1]
          /\ 0 \in 0 .. 1 /\ 1 \in 0 .. 1 /\ 1 - 1 = 0 /\ "none" \in Status \cup {"none"}
          /\ resp[c] # "none"
      BY <1>1, <1>3 DEF CallTypes, Has
    <2>2. Close(c) => open' = [open EXCEPT ![c] = 0]
      BY <1>3 DEF Close
    <2>3. CASE Hold(c, resp[c], "refresh") /\ Goto(c, "returned")
               /\ UNCHANGED <<open, round, attempt>>
      BY <2>1, <2>3 DEF Hold, Goto
    <2>4. CASE Goto(c, "returned") /\ UNCHANGED <<resp, err, open, round, attempt>>
      BY <2>1, <2>4 DEF Goto
    <2>5. CASE Close(c) /\ Hold(c, "none", "replay") /\ Goto(c, "returned")
               /\ UNCHANGED <<round, attempt>>
      BY <2>1, <2>2, <2>5 DEF Hold, Goto
    <2>6. CASE /\ Close(c) /\ Hold(c, "none", "none") /\ Goto(c, "send")
               /\ round' = [round EXCEPT ![c] = 2]
               /\ attempt' = [attempt EXCEPT ![c] = 0]
      BY <2>1, <2>2, <2>6 DEF Hold, Goto
    <2> QED  BY <2>3, <2>4, <2>5, <2>6 DEF AuthRetry
  <1>5. /\ stage'[c] = s /\ resp'[c] = r /\ err'[c] = e /\ open'[c] = n
        /\ s = "send" => round'[c] = 2 /\ attempt'[c] = 0
    BY <1>1, <1>4 DEF CallTypes
  <1>6. CallTypes' /\ Only(c)
    <2>1. /\ round' \in [Caller -> {1, 2}] /\ attempt' \in [Caller -> 0 .. RetryMax + 1]
          /\ \A d \in Caller \ {c} : round'[d] = round[d] /\ attempt'[d] = attempt[d]
      BY <1>1, <1>4, ClientAssumption DEF CallTypes
    <2> QED  BY <1>1, <1>2, <1>4, <2>1 DEF CallTypes, Only, Stage, Error
  <1>7. (Holds(c) /\ Checked(c) /\ Booked(c))'
    BY <1>1, <1>2, <1>3, <1>4, <1>5, ClientAssumption
       DEF Holds, Checked, Booked, Early, Has, Sending
  <1>8. concurrent' = concurrent + One(stage'[c]) - One(stage[c])
    BY <1>1, <1>4, <1>5, ConcurrentIsInt DEF One, Counting, Sending
  <1> QED  BY <1>6, <1>7, <1>8, CallStep

LEMMA FinishKeeps ==
    ASSUME DoInv, TypeOK', NEW c \in Caller, Finish(c)
    PROVE  DoInv'
  <1>1. /\ stage[c] = "returned" /\ CallTypes /\ Holds(c) /\ Booked(c)
        /\ UNCHANGED <<breakerVars, concurrent>>
        /\ open[c] = (IF Has(c) THEN 1 ELSE 0)
    BY DEF Finish, At, DoInv, Holds
  <1>2. pc' = pc
    BY <1>1 DEF breakerVars
  <1>3. /\ stage'[c] = "idle" /\ resp'[c] = "none" /\ err'[c] = "none" /\ open'[c] = 0
        /\ round'[c] = 1 /\ attempt'[c] = 0
    BY <1>1 DEF Finish, Goto, Hold, CallTypes
  <1>4. CallTypes' /\ Only(c)
    <2>1. open' \in [Caller -> 0 .. 1]
      BY <1>1 DEF CallTypes, Finish
    <2>2. attempt' \in [Caller -> 0 .. RetryMax + 1]
      BY <1>1, ClientAssumption DEF CallTypes, Finish
    <2> QED  BY <1>1, <1>2, <2>1, <2>2 DEF CallTypes, Only, Stage, Error, Finish, Goto, Hold
  <1>5. (Holds(c) /\ Checked(c) /\ Booked(c))'
    BY <1>1, <1>2, <1>3 DEF Holds, Checked, Booked, Early, Has, Sending
  <1>6. concurrent' = concurrent + One(stage'[c]) - One(stage[c])
    BY <1>1, <1>3, ConcurrentIsInt DEF One, Counting, Sending
  <1> QED  BY <1>4, <1>5, <1>6, CallStep

(* Metrics calls, ticks and stutters move no call.                          *)
LEMMA StillKeeps ==
    ASSUME DoInv, TypeOK', pc' = pc, UNCHANGED <<callVars, concurrent>>
    PROVE  DoInv'
  <1>1. CallTypes' /\ Counted' = Counted
    BY DEF DoInv, CallTypes, Counted, callVars
  <1>2. \A c \in Caller : (Holds(c) /\ Checked(c) /\ Booked(c))'
    BY DEF DoInv, Holds, Checked, Booked, Has, callVars
  <1> QED  BY <1>1, <1>2 DEF DoInv

----------------------------------------------------------------------------
LEMMA StepKeepsDoInv == DoInv /\ TypeOK' /\ [DoNext]_doVars => DoInv'
  <1> SUFFICES ASSUME DoInv, TypeOK', [DoNext]_doVars PROVE DoInv'
    OBVIOUS
  <1>1. ASSUME NEW c \in Caller, Do(c) PROVE DoInv'
    <2>1. CASE DoEmitGauge(c)
      BY <2>1, StillKeeps, BreakerMovesOne DEF DoEmitGauge, DoInv
    <2> QED  BY <1>1, <2>1, AskBreakerKeeps, RunRequestHooksKeeps, ConvertKeeps, SendKeeps,
                BackoffKeeps, GiveUpKeeps, SettleKeeps, RunResponseHooksKeeps,
                AuthRetryKeeps DEF Do
  <1>2. CASE DoTick
    BY <1>2, StillKeeps DEF DoTick, Tick
  <1>3. CASE UNCHANGED doVars
    BY <1>3, StillKeeps DEF doVars, breakerVars
  <1> QED  BY <1>1, <1>2, <1>3, BeginKeeps, FinishKeeps DEF DoNext

LEMMA InitIsDoInv == DoInit => DoInv
  <1> SUFFICES ASSUME DoInit PROVE DoInv
    OBVIOUS
  <1>1. TypeOK
    BY InitIsIInv DEF DoInit, IInv
  <1>2. CallTypes
    BY ClientAssumption DEF DoInit, CallTypes, Stage, Error
  <1>3. \A c \in Caller : Holds(c) /\ Checked(c) /\ Booked(c)
    BY ClientAssumption DEF DoInit, Init, Holds, Checked, Booked, Early, Has, Sending
  <1>4. Counted = {}
    BY DEF DoInit, Counted, Counting, Sending
  <1>5. concurrent = Cardinality(Counted)
    BY <1>4, FS_EmptySet DEF DoInit
  <1> QED  BY <1>1, <1>2, <1>3, <1>5 DEF DoInv

(* Between its steps a call holds exactly one body when it holds a          *)
(* response, knows where the breaker has it booked, and is in the counter   *)
(* while it is being sent (Client.Do and handleAuthRetry).                  *)
THEOREM DoInvariance == DoSpec => []DoInv
  <1>1. Spec => []TypeOK
    BY TypeCorrect
  <1> QED  BY <1>1, DoRunsTheBreaker, InitIsDoInv, StepKeepsDoInv, PTL DEF DoSpec

(* Attempts never exceed the retry budget of a round, and the counter stays *)
(* between zero and the callers there are.                                  *)
THEOREM DoTypes == DoSpec => []DoTypeOK
  <1>1. DoInv => DoTypeOK
    <2>1. Counted \subseteq Caller
      BY DEF Counted
    <2>2. /\ Cardinality(Counted) \in Nat /\ Cardinality(Caller) \in Nat
          /\ Cardinality(Counted) <= Cardinality(Caller)
      BY <2>1, SetAssumption, FS_Subset, FS_CardinalityType
    <2> QED  BY <2>2 DEF DoInv, CallTypes, DoTypeOK
  <1> QED  BY <1>1, DoInvariance, PTL

(* No way out of Do or handleAuthRetry leaves a body open that the caller   *)
(* is not handed.                                                           *)
THEOREM BodiesAreClosed == DoSpec => []NoBodyLeaks
  <1>1. DoInv => NoBodyLeaks
    BY DEF DoInv, Holds, NoBodyLeaks
  <1> QED  BY <1>1, DoInvariance, PTL

(* The response hooks and the body limit are applied to every response that *)
(* is handed over without an error, that of the 401 retry included.         *)
THEOREM ResponsesAreChecked == DoSpec => []ReturnedIsChecked
  <1>1. DoInv => ReturnedIsChecked
    BY ClientAssumption DEF DoInv, CallTypes, Checked, ReturnedIsChecked
  <1> QED  BY <1>1, DoInvariance, PTL

(* The breaker is told of the first round, once and before the response     *)
(* hooks run, and of no other round.                                        *)
THEOREM CallsAreRecordedOnce == DoSpec => []RecordedOnce
  <1>1. DoInv => RecordedOnce
    BY DEF DoInv, Booked, RecordedOnce
  <1> QED  BY <1>1, DoInvariance, PTL

(* Every way out of Do after the request hooks decrements the counter once. *)
THEOREM CounterIsExact == DoSpec => []ConcurrentIsExact
  <1>1. DoInv => ConcurrentIsExact
    BY DEF DoInv, Counted, Counting, ConcurrentIsExact
  <1> QED  BY <1>1, DoInvariance, PTL

----------------------------------------------------------------------------
(* The waits of BuildNamedBackoff.                                          *)

\* A product that fits is not changed; one that does not is still a duration.
LEMMA WrapIsIdentity ==
    ASSUME NEW n \in Nat, n < Half
    PROVE  Wrap(n) = n
  BY WaitAssumption DEF Wrap

LEMMA WrapIsInt == ASSUME NEW n \in Int PROVE Wrap(n) \in Int
  BY WaitAssumption DEF Wrap

LEMMA ClampIsMonotone ==
    ASSUME NEW lo \in Nat, NEW hi \in Nat, lo <= hi,
           NEW m \in Int, NEW n \in Int
    PROVE  /\ Clamp(n, lo, hi) \in lo .. hi
           /\ m <= n => Clamp(m, lo, hi) <= Clamp(n, lo, hi)
  BY DEF Clamp

\* Opaque where it is not expanded, so that the provers see a table.
TwoTo(e) == 2 ^ e

LEMMA PowersAreBounded == \A d \in 0 .. 10 : TwoTo(d) \in 1 .. 1024
  <1>1. /\ TwoTo(0) = 1 /\ TwoTo(1) = 2 /\ TwoTo(2) = 4 /\ TwoTo(3) = 8
        /\ TwoTo(4) = 16 /\ TwoTo(5) = 32 /\ TwoTo(6) = 64 /\ TwoTo(7) = 128
        /\ TwoTo(8) = 256 /\ TwoTo(9) = 512 /\ TwoTo(10) = 1024
    BY SMT DEF TwoTo
  <1> TAKE d \in 0 .. 10
  <1>2. d \in {0, 1, 2, 3, 4, 5, 6, 7, 8, 9, 10}
    BY SMT
  <1> QED  BY <1>1, <1>2, SMT

LEMMA PowersGrow == \A d \in 0 .. 9 : TwoTo(d) <= TwoTo(d + 1)
  <1>1. /\ TwoTo(0) = 1 /\ TwoTo(1) = 2 /\ TwoTo(2) = 4 /\ TwoTo(3) = 8
        /\ TwoTo(4) = 16 /\ TwoTo(5) = 32 /\ TwoTo(6) = 64 /\ TwoTo(7) = 128
        /\ TwoTo(8) = 256 /\ TwoTo(9) = 512 /\ TwoTo(10) = 1024
    BY SMT DEF TwoTo
  <1> TAKE d \in 0 .. 9
  <1>2. d \in {0, 1, 2, 3, 4, 5, 6, 7, 8, 9}
    BY SMT
  <1> QED  BY <1>1, <1>2, SMT

\* How often the initial wait goes into an attempt's.
LEMMA Factors ==
    ASSUME NEW strategy \in Strategy, NEW k \in 0 .. AttemptTop
    PROVE  /\ Factor(strategy, k) \in Nat
           /\ Factor(strategy, k) <= AttemptTop + 1 \/ Factor(strategy, k) <= 1024
           /\ k > 0 => Factor(strategy, k - 1) <= Factor(strategy, k)
  <1>1. AttemptTop \in Nat /\ k \in Nat
    BY WaitAssumption
  <1>2. CASE strategy = "linear"
    BY <1>1, <1>2 DEF Factor
  <1>3. CASE strategy = "exponential"
    <2>1. PICK e \in 0 .. 10 : e = Exponent(k)
      BY <1>1 DEF Exponent
    <2>2. Factor(strategy, k) = TwoTo(e)
      BY <1>3, <2>1 DEF Factor, TwoTo
    <2>3. TwoTo(e) \in 1 .. 1024
      BY PowersAreBounded, Zenon
    <2>4. CASE k > 0
      <3>1. PICK d \in 0 .. 10 : d = Exponent(k - 1) /\ (d = e \/ (d \in 0 .. 9 /\ e = d + 1))
        BY <1>1, <2>1, <2>4 DEF Exponent
      <3>2. Factor(strategy, k - 1) = TwoTo(d)
        BY <1>3, <3>1 DEF Factor, TwoTo
      <3>3. TwoTo(d) \in 1 .. 1024
        BY PowersAreBounded, Zenon
      <3>4. CASE d = e
        BY <2>2, <2>3, <3>2, <3>4
      <3>5. CASE d \in 0 .. 9 /\ e = d + 1
        <4>1. TwoTo(d) <= TwoTo(e)
          BY <3>5, PowersGrow, Zenon
        <4> QED  BY <2>2, <2>3, <3>2, <3>3, <4>1
      <3> QED  BY <2>2, <2>3, <3>1, <3>4, <3>5
    <2> QED  BY <1>1, <2>2, <2>3, <2>4
  <1>4. CASE strategy \notin {"linear", "exponential"}
    BY <1>1, <1>4 DEF Factor
  <1> QED  BY <1>2, <1>3, <1>4

(* Waits lie between initialWait and maxWait for every width of a duration, *)
(* every attempt and every product that wraps around, and they never shrink *)
(* from one attempt to the next while the products fit (BuildNamedBackoff). *)
THEOREM WaitsStayBounded == WaitsAreBounded
  <1> SUFFICES ASSUME NEW lo \in WaitSamples, NEW hi \in {d \in WaitSamples : lo <= d},
                      NEW strategy \in Strategy
               PROVE  LET Wait(n) == NamedBackoff(strategy, lo, hi, n) IN
                      /\ \A k \in 0 .. AttemptTop : Wait(k) \in lo .. hi
                      /\ Fits(lo) => \A k \in 1 .. AttemptTop : Wait(k - 1) <= Wait(k)
    BY DEF WaitsAreBounded
  <1> DEFINE product(n) == lo * Factor(strategy, n)
             Wait(n) == NamedBackoff(strategy, lo, hi, n)
  <1>1. lo \in Nat /\ hi \in Nat /\ lo <= hi /\ AttemptTop \in Nat /\ Half \in Nat
    BY WaitAssumption
  <1>2. ASSUME NEW k \in 0 .. AttemptTop PROVE product(k) \in Nat
    BY <1>1, Factors
  <1>3. ASSUME NEW k \in 0 .. AttemptTop PROVE Wait(k) \in lo .. hi
    <2>1. Wrap(product(k)) \in Int
      BY <1>2, WrapIsInt
    <2> QED  BY <1>1, <2>1, ClampIsMonotone DEF NamedBackoff
  <1>4. ASSUME Fits(lo), NEW k \in 0 .. AttemptTop PROVE Wrap(product(k)) = product(k)
    <2>1. PICK f \in Nat : f = Factor(strategy, k) /\ (f <= AttemptTop + 1 \/ f <= 1024)
      BY Factors
    <2>2. lo * f <= lo * (AttemptTop + 1) \/ lo * f <= lo * 1024
      BY <1>1, <2>1
    <2>3. lo * f \in Nat /\ lo * f < Half
      BY <1>1, <1>4, <2>1, <2>2 DEF Fits
    <2> QED  BY <2>1, <2>3, WrapIsIdentity
  <1>5. ASSUME Fits(lo), NEW k \in 1 .. AttemptTop PROVE Wait(k - 1) <= Wait(k)
    <2>1. k \in 0 .. AttemptTop /\ k - 1 \in 0 .. AttemptTop /\ k > 0
      BY <1>1
    <2>2. PICK e \in Nat, f \in Nat :
              e = Factor(strategy, k - 1) /\ f = Factor(strategy, k) /\ e <= f
      BY <2>1, Factors
    <2>3. product(k - 1) <= product(k)
      BY <1>1, <2>2
    <2>4. Clamp(product(k - 1), lo, hi) <= Clamp(product(k), lo, hi)
      <3>1. product(k - 1) \in Int /\ product(k) \in Int
        BY <1>2, <2>1
      <3> HIDE DEF product
      <3> QED  BY <1>1, <2>3, <3>1, ClampIsMonotone
    <2> QED  BY <1>4, <1>5, <2>1, <2>4 DEF NamedBackoff
  <1> QED  BY <1>3, <1>5
----------------------------------------------------------------------------
(* A call keeps its contract.  The abstract variables, named.               *)
phase   == [c \in Caller |-> PhaseOf(stage[c])]
left    == [c \in Caller |-> RetryMax + 1 - attempt[c]]
renewed == {c \in Caller : round[c] = 2}

Kept == [Calls!Next]_(Calls!callContractVars)

\* Credentials are only refreshed for a 401.
Refused == \A c \in Caller : stage[c] = "refresh" => resp[c] = "unauthorized"

\* Of the others, the contract sees no change.
Alone(c) ==
    \A d \in Caller \ {c} :
        /\ stage'[d] = stage[d] /\ round'[d] = round[d]
        /\ attempt'[d] = attempt[d] /\ resp'[d] = resp[d]

LEMMA StepIsAlone ==
    ASSUME DoInv, NEW c \in Caller, Begin(c) \/ Do(c) \/ Finish(c)
    PROVE  Alone(c)
  <1>1. CallTypes
    BY DEF DoInv
  <1>2. CASE Begin(c)
    BY <1>1, <1>2 DEF Begin, Goto, CallTypes, Alone
  <1>3. CASE AskBreaker(c)
    BY <1>1, <1>3 DEF AskBreaker, Goto, CallTypes, Alone
  <1>4. CASE RunRequestHooks(c)
    BY <1>1, <1>4 DEF RunRequestHooks, Goto, CallTypes, Alone
  <1>5. CASE Convert(c)
    BY <1>1, <1>5 DEF Convert, Goto, CallTypes, Alone
  <1>6. CASE Send(c)
    <2>1. PICK o \in Outcome : Hold(c, o[1], o[2]) /\ \E s : Goto(c, s)
      BY <1>6 DEF Send
    <2>2. attempt' = [attempt EXCEPT ![c] = @ + 1] /\ round' = round
      BY <1>6 DEF Send
    <2> QED  BY <1>1, <2>1, <2>2 DEF Hold, Goto, CallTypes, Alone
  <1>7. CASE Backoff(c)
    BY <1>1, <1>7 DEF Backoff, Goto, Hold, CallTypes, Alone
  <1>8. CASE GiveUp(c)
    BY <1>1, <1>8 DEF GiveUp, Goto, Hold, CallTypes, Alone
  <1>9. CASE Settle(c)
    BY <1>1, <1>9 DEF Settle, Goto, CallTypes, Alone
  <1>10. CASE RunResponseHooks(c)
    BY <1>1, <1>10 DEF RunResponseHooks, Goto, Hold, CallTypes, Alone
  <1>11. CASE AuthRetry(c)
    BY <1>1, <1>11 DEF AuthRetry, Goto, Hold, CallTypes, Alone
  <1>12. CASE DoEmitGauge(c)
    BY <1>12 DEF DoEmitGauge, callVars, Alone
  <1>13. CASE Finish(c)
    BY <1>1, <1>13 DEF Finish, Goto, Hold, CallTypes, Alone
  <1> QED  BY <1>2, <1>3, <1>4, <1>5, <1>6, <1>7, <1>8, <1>9, <1>10, <1>11, <1>12, <1>13
           DEF Do

(* What a step of one call does to the abstract variables.                  *)
LEMMA CallMoves ==
    ASSUME DoInv, CallTypes', NEW c \in Caller, Alone(c)
    PROVE  /\ phase[c] = PhaseOf(stage[c]) /\ left[c] = RetryMax + 1 - attempt[c]
           /\ c \in renewed <=> round[c] = 2
           /\ phase' = [phase EXCEPT ![c] = PhaseOf(stage'[c])]
           /\ left' = [left EXCEPT ![c] = RetryMax + 1 - attempt'[c]]
           /\ renewed' = IF round'[c] = 2 THEN renewed \cup {c} ELSE renewed \ {c}
           /\ resp' = [resp EXCEPT ![c] = resp'[c]]
  <1>1. phase' = [phase EXCEPT ![c] = PhaseOf(stage'[c])]
    BY DEF Alone, phase
  <1>2. left' = [left EXCEPT ![c] = RetryMax + 1 - attempt'[c]]
    BY DEF Alone, left
  <1>3. renewed' = IF round'[c] = 2 THEN renewed \cup {c} ELSE renewed \ {c}
    BY DEF Alone, renewed
  <1>4. resp' = [resp EXCEPT ![c] = resp'[c]]
    BY DEF Alone, DoInv, CallTypes
  <1> QED  BY <1>1, <1>2, <1>3, <1>4 DEF phase, left, renewed

(* A step that leaves round and attempts, within or out of the work: it     *)
(* keeps the response or drops it.                                          *)
LEMMA WorkRefines ==
    ASSUME DoInv, CallTypes', NEW c \in Caller, Alone(c),
           PhaseOf(stage[c]) = "working", stage'[c] # "idle",
           round'[c] = round[c], attempt'[c] = attempt[c],
           resp'[c] \in {resp[c], "none"}
    PROVE  Kept
  <1>1. /\ phase[c] = "working" /\ phase' = [phase EXCEPT ![c] = PhaseOf(stage'[c])]
        /\ resp' = [resp EXCEPT ![c] = resp'[c]]
    BY CallMoves
  <1>2. UNCHANGED <<left, renewed>>
    <2>1. left' = [left EXCEPT ![c] = left[c]]
      BY CallMoves
    <2>2. renewed' = IF c \in renewed THEN renewed \cup {c} ELSE renewed \ {c}
      BY CallMoves
    <2> QED  BY <2>1, <2>2 DEF left
  <1>3. CASE stage'[c] = "returned"
    <2>1. Calls!Answer(c)
      BY <1>1, <1>2, <1>3 DEF Calls!Answer, PhaseOf, phase, left, renewed
    <2> QED  BY <2>1 DEF Kept, Calls!Next
  <1>4. CASE stage'[c] # "returned"
    <2>1. phase' = phase
      BY <1>1, <1>4 DEF PhaseOf, phase
    <2>2. CASE resp'[c] = "none"
      <3>1. Calls!Drop(c)
        BY <1>1, <1>2, <2>1, <2>2 DEF Calls!Drop, phase, left, renewed
      <3> QED  BY <3>1 DEF Kept, Calls!Next
    <2>3. CASE resp'[c] = resp[c]
      <3>1. resp' = resp
        BY <1>1, <2>3 DEF DoInv, CallTypes
      <3> QED  BY <1>2, <2>1, <3>1 DEF Kept, Calls!callContractVars, phase, left, renewed
    <2> QED  BY <2>2, <2>3
  <1> QED  BY <1>3, <1>4

(* The work between the sends changes no count and makes no response.       *)
LEMMA PlainStepsRefine ==
    ASSUME DoInv, CallTypes', NEW c \in Caller,
           \/ AskBreaker(c) \/ RunRequestHooks(c) \/ Convert(c) \/ Backoff(c)
           \/ GiveUp(c) \/ Settle(c) \/ RunResponseHooks(c)
    PROVE  Kept
  <1>1. CallTypes /\ Alone(c)
    BY StepIsAlone DEF DoInv, Do
  <1>2. /\ PhaseOf(stage[c]) = "working"
        /\ round' = round /\ attempt' = attempt
    BY DEF AskBreaker, RunRequestHooks, Convert, Backoff, GiveUp, Settle,
           RunResponseHooks, At, PhaseOf
  <1>3. stage'[c] # "idle"
    <2>1. ASSUME NEW s, Goto(c, s) PROVE stage'[c] = s
      BY <1>1, <2>1 DEF Goto, CallTypes
    <2>2. CASE AskBreaker(c)
      BY <2>1, <2>2 DEF AskBreaker, At
    <2>3. CASE RunRequestHooks(c) \/ Convert(c)
      BY <2>1, <2>3 DEF RunRequestHooks, Convert
    <2>4. CASE Backoff(c) \/ GiveUp(c) \/ Settle(c)
      BY <2>1, <2>4 DEF Backoff, GiveUp, Settle
    <2>5. CASE RunResponseHooks(c)
      BY <2>1, <2>5 DEF RunResponseHooks
    <2> QED  BY <2>2, <2>3, <2>4, <2>5
  <1>4. resp'[c] \in {resp[c], "none"}
    <2>1. ASSUME NEW e, Hold(c, "none", e) PROVE resp'[c] = "none"
      BY <1>1, <2>1 DEF Hold, CallTypes
    <2> QED  BY <2>1 DEF AskBreaker, RunRequestHooks, Convert, Backoff, GiveUp, Settle,
                         RunResponseHooks
  <1> QED  BY <1>1, <1>2, <1>3, <1>4, WorkRefines

LEMMA SendRefines ==
    ASSUME DoInv, CallTypes', NEW c \in Caller, Send(c)
    PROVE  Kept
  <1>1. CallTypes /\ Alone(c) /\ Holds(c)
    BY StepIsAlone DEF DoInv, Do
  <1>2. PICK o \in Outcome, s \in {"backoff", "giveUp", "settle"} :
            Hold(c, o[1], o[2]) /\ Goto(c, s)
    BY DEF Send
  <1>3. /\ stage[c] = "send" /\ round' = round
        /\ attempt' = [attempt EXCEPT ![c] = @ + 1]
    BY DEF Send, At
  <1>4. stage'[c] = s /\ attempt'[c] = attempt[c] + 1
    BY <1>1, <1>2, <1>3 DEF Goto, CallTypes
  <1>5. resp[c] = "none" /\ attempt[c] <= RetryMax
    BY <1>1, <1>3 DEF Holds
  <1>6. left[c] > 0 /\ RetryMax + 1 - attempt'[c] = left[c] - 1
    <2>1. attempt[c] \in Nat /\ RetryMax \in Nat
      BY <1>1, ClientAssumption DEF CallTypes
    <2>2. left[c] = RetryMax + 1 - attempt[c]
      BY <1>1, CallMoves
    <2> QED  BY <1>4, <1>5, <2>1, <2>2
  <1>7. phase[c] = "working" /\ phase' = phase
    <2>1. phase[c] = "working" /\ phase' = [phase EXCEPT ![c] = "working"]
      BY <1>1, <1>2, <1>3, <1>4, CallMoves DEF PhaseOf
    <2> QED  BY <2>1 DEF phase
  <1>8. /\ left' = [left EXCEPT ![c] = left[c] - 1]
        /\ renewed' = renewed
        /\ resp' = [resp EXCEPT ![c] = resp'[c]]
        /\ resp'[c] \in Status \cup {"none"}
    BY <1>1, <1>3, <1>6, CallMoves DEF CallTypes, renewed
  <1>9. Calls!Send(c)
    BY <1>5, <1>6, <1>7, <1>8 DEF Calls!Send, phase, left, renewed
  <1> QED  BY <1>9 DEF Kept, Calls!Next

LEMMA AuthRetryRefines ==
    ASSUME DoInv, CallTypes', Refused, NEW c \in Caller, AuthRetry(c)
    PROVE  Kept
  <1>1. CallTypes /\ Alone(c) /\ Holds(c)
    BY StepIsAlone DEF DoInv, Do
  <1>2. stage[c] = "refresh" /\ round[c] = 1 /\ resp[c] = "unauthorized"
    BY <1>1 DEF AuthRetry, At, Holds, Refused
  <1>3. CASE round' = round /\ attempt' = attempt /\ Goto(c, "returned")
    <2>1. stage'[c] = "returned" /\ PhaseOf(stage[c]) = "working"
      BY <1>1, <1>2, <1>3 DEF Goto, CallTypes, PhaseOf
    <2>2. resp'[c] \in {resp[c], "none"}
      BY <1>1, <1>3, <2>1 DEF AuthRetry, Hold, Goto, CallTypes
    <2> QED  BY <1>1, <1>3, <2>1, <2>2, WorkRefines
  <1>4. CASE /\ Hold(c, "none", "none") /\ Goto(c, "send")
             /\ round' = [round EXCEPT ![c] = 2] /\ attempt' = [attempt EXCEPT ![c] = 0]
    <2>1. stage'[c] = "send" /\ round'[c] = 2 /\ attempt'[c] = 0 /\ resp'[c] = "none"
      BY <1>1, <1>4 DEF Goto, Hold, CallTypes
    <2>2. /\ c \notin renewed /\ renewed' = renewed \cup {c}
          /\ resp' = [resp EXCEPT ![c] = "none"]
      BY <1>1, <1>2, <2>1, CallMoves
    <2>3. phase[c] = "working" /\ phase' = phase
      <3>1. phase[c] = "working" /\ phase' = [phase EXCEPT ![c] = "working"]
        BY <1>1, <1>2, <2>1, CallMoves DEF PhaseOf
      <3> QED  BY <3>1 DEF phase
    <2>4. left' = [left EXCEPT ![c] = RetryMax + 1]
      <3>1. RetryMax + 1 - 0 = RetryMax + 1
        BY ClientAssumption
      <3> QED  BY <1>1, <2>1, <3>1, CallMoves
    <2>5. Calls!Renew(c)
      BY <1>2, <2>2, <2>3, <2>4 DEF Calls!Renew, phase, left, renewed
    <2> QED  BY <2>5 DEF Kept, Calls!Next
  <1> QED  BY <1>3, <1>4 DEF AuthRetry

LEMMA EndsRefine ==
    ASSUME DoInv, CallTypes', NEW c \in Caller, Begin(c) \/ Finish(c)
    PROVE  Kept
  <1>1. CallTypes /\ Alone(c)
    BY StepIsAlone DEF DoInv
  <1>2. CASE Begin(c)
    <2>1. stage[c] = "idle" /\ UNCHANGED <<round, attempt, resp>>
          /\ stage'[c] \in {"allow", "hooks", "returned"}
      BY <1>1, <1>2 DEF Begin, At, Goto, CallTypes
    <2>2. UNCHANGED <<left, renewed>>
      BY <2>1 DEF left, renewed
    <2>3. phase[c] = "idle" /\ PhaseOf(stage'[c]) \in {"working", "answered"}
          /\ phase' = [phase EXCEPT ![c] = PhaseOf(stage'[c])]
      BY <1>1, <2>1, CallMoves DEF PhaseOf
    <2>4. Calls!Call(c)
      BY <2>1, <2>2, <2>3 DEF Calls!Call, phase, left, renewed
    <2> QED  BY <2>4 DEF Kept, Calls!Next
  <1>3. CASE Finish(c)
    <2>1. /\ stage[c] = "returned" /\ stage'[c] = "idle" /\ round'[c] = 1
          /\ attempt'[c] = 0 /\ resp'[c] = "none"
      BY <1>1, <1>3 DEF Finish, At, Goto, Hold, CallTypes
    <2>2. /\ phase[c] = "answered" /\ phase' = [phase EXCEPT ![c] = "idle"]
          /\ renewed' = renewed \ {c} /\ resp' = [resp EXCEPT ![c] = "none"]
      BY <1>1, <2>1, CallMoves DEF PhaseOf
    <2>3. left' = [left EXCEPT ![c] = RetryMax + 1]
      <3>1. RetryMax + 1 - 0 = RetryMax + 1
        BY ClientAssumption
      <3> QED  BY <1>1, <2>1, <3>1, CallMoves
    <2>4. Calls!Finish(c)
      BY <2>2, <2>3 DEF Calls!Finish, phase, left, renewed
    <2> QED  BY <2>4 DEF Kept, Calls!Next
  <1> QED  BY <1>2, <1>3

LEMMA CallStepRefines ==
    ASSUME DoInv, DoInv', Refused, [DoNext]_doVars
    PROVE  Kept
  <1>1. CallTypes'
    BY DEF DoInv
  <1>2. ASSUME UNCHANGED callVars PROVE Kept
    BY <1>2 DEF callVars, Kept, Calls!callContractVars
  <1>3. CASE DoTick \/ UNCHANGED doVars
    BY <1>2, <1>3 DEF DoTick, doVars
  <1>4. ASSUME NEW c \in Caller, Begin(c) \/ Do(c) \/ Finish(c) PROVE Kept
    <2>1. CASE DoEmitGauge(c)
      BY <1>2, <2>1 DEF DoEmitGauge
    <2> QED  BY <1>1, <1>4, <2>1, PlainStepsRefine, SendRefines, AuthRetryRefines,
                EndsRefine DEF Do
  <1> QED  BY <1>3, <1>4 DEF DoNext

LEMMA StepKeepsRefused ==
    ASSUME DoInv, Refused, [DoNext]_doVars
    PROVE  Refused'
  <1>1. CallTypes
    BY DEF DoInv
  <1>2. ASSUME UNCHANGED callVars PROVE Refused'
    BY <1>2 DEF callVars, Refused
  <1>3. CASE DoTick \/ UNCHANGED doVars
    BY <1>2, <1>3 DEF DoTick, doVars
  <1>4. ASSUME NEW c \in Caller, Begin(c) \/ Do(c) \/ Finish(c) PROVE Refused'
    <2>1. Alone(c)
      BY <1>4, StepIsAlone
    <2>2. SUFFICES ASSUME stage'[c] = "refresh" PROVE resp'[c] = "unauthorized"
      BY <2>1 DEF Alone, Refused
    <2>3. ASSUME NEW s, Goto(c, s) PROVE s = "refresh"
      BY <1>1, <2>2, <2>3 DEF Goto, CallTypes
    <2>4. CASE RunResponseHooks(c)
      BY <2>3, <2>4 DEF RunResponseHooks, NeedsRefresh
    <2>5. CASE DoEmitGauge(c)
      BY <2>2, <2>5 DEF DoEmitGauge, callVars, Refused
    <2>6. CASE Begin(c) \/ Finish(c)
      BY <2>3, <2>6 DEF Begin, Finish
    <2>7. CASE AskBreaker(c)
      BY <2>2, <2>3, <2>7 DEF AskBreaker, At
    <2>8. CASE RunRequestHooks(c) \/ Convert(c)
      BY <2>3, <2>8 DEF RunRequestHooks, Convert
    <2>9. CASE Send(c) \/ Backoff(c) \/ GiveUp(c) \/ Settle(c)
      BY <2>3, <2>9 DEF Send, Backoff, GiveUp, Settle
    <2>10. CASE AuthRetry(c)
      BY <2>3, <2>10 DEF AuthRetry
    <2> QED  BY <1>4, <2>4, <2>5, <2>6, <2>7, <2>8, <2>9, <2>10 DEF Do
  <1> QED  BY <1>3, <1>4 DEF DoNext

(* A call sends at most RetryMax + 1 requests in a round, makes a second    *)
(* round once and only for a 401, and answers once (Client.Do, the retry    *)
(* loop and handleAuthRetry).                                               *)
THEOREM CallsKeepTheirContract == DoSpec => CallSpec
  <1>1. DoInit => Calls!Init /\ Refused
    <2> SUFFICES ASSUME DoInit PROVE Calls!Init /\ Refused
      OBVIOUS
    <2>1. \A c \in Caller : RetryMax + 1 - attempt[c] = RetryMax + 1
      BY ClientAssumption DEF DoInit
    <2> QED  BY <2>1 DEF DoInit, Calls!Init, Refused, PhaseOf
  <1>2. DoInv /\ Refused /\ [DoNext]_doVars => Refused'
    BY StepKeepsRefused
  <1>3. DoInv /\ DoInv' /\ Refused /\ [DoNext]_doVars
          => [Calls!Next]_(Calls!callContractVars)
    BY CallStepRefines DEF Kept
  <1> QED  BY <1>1, <1>2, <1>3, DoInvariance, PTL DEF DoSpec, CallSpec, Calls!Spec

(* The breaker keeps its contract when Do drives it: with hooks that fail   *)
(* after the admission, retries and the round after a 401 that it is not    *)
(* told of.                                                                 *)
THEOREM DoKeepsTheBreakersContract == DoSpec => ContractSpec
  BY DoRunsTheBreaker, ImplementsContract
=============================================================================

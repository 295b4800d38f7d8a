-------------------------- MODULE DialPolicyProofs --------------------------
(***************************************************************************)
(* Proofs about DialPolicy for any number of round trips, any dialers of   *)
(* the caller's and either trust in the proxy.                             *)
(***************************************************************************)
EXTENDS DialPolicy, TLAPS

\* What the Proxy hook has settled for a round trip it let pass, and keeps
\* settled when a dial begun under it ends late, after a failure or a repeat.
Settled(r) ==
    /\ stage[r] \in {"connect", "sent", "done"} =>
        /\ way[r].route # "error"
        /\ way[r].route = "proxy" => marker[r] /\ cleared[r]
    /\ dial[r] # "none" =>
        /\ stage[r] # "start"
        /\ way[r].route # "error"
        /\ way[r].route = "proxy" => marker[r]

\* The marker only exempts round trips that go to a proxy.
Exempt(r) == marker[r] => way[r].route = "proxy"

\* The inductive invariant.
DialInv ==
    /\ DialTypeOK
    /\ \A r \in RoundTrip : Settled(r) /\ Exempt(r)
    /\ \A k \in pool : k.way.route = "direct" => Passes(k.peer)
    /\ ProxiesAreReachable

----------------------------------------------------------------------------
(* A step that opens no connection and changes no kind: it is enough that   *)
(* every round trip stays settled, exempt only with cause, and unrefused    *)
(* when it goes to a proxy.                                                 *)
LEMMA QuietStepKeepsInv ==
    ASSUME DialInv, DialTypeOK', UNCHANGED way, pool' \subseteq pool,
           \A r \in RoundTrip : Settled(r)' /\ Exempt(r)',
           ProxiesAreReachable'
    PROVE  DialInv'
  BY DEF DialInv, Passes

LEMMA MarkKeepsInv ==
    ASSUME DialInv, NEW r \in RoundTrip, Mark(r)
    PROVE  DialInv'
  <1>1. DialTypeOK'
    BY DEF DialInv, DialTypeOK, Mark, Goto
  <1>2. dial[r] = "none"
    BY DEF DialInv, DialTypeOK, Settled, Mark
  <1>3. ASSUME NEW q \in RoundTrip PROVE Settled(q)' /\ Exempt(q)'
    <2>1. CASE q = r
      BY <1>2, <2>1 DEF DialInv, DialTypeOK, Settled, Exempt, Mark, Goto
    <2>2. CASE q # r
      BY <2>2 DEF DialInv, DialTypeOK, Settled, Exempt, Mark, Goto
    <2> QED  BY <2>1, <2>2
  <1>4. ProxiesAreReachable'
    BY DEF DialInv, ProxiesAreReachable, Mark
  <1> QED  BY <1>1, <1>3, <1>4, QuietStepKeepsInv DEF Mark

(* The hook settles the round trip, or ends it and leaves its dials as they *)
(* are.                                                                     *)
LEMMA ChooseRouteKeepsInv ==
    ASSUME DialInv, NEW r \in RoundTrip, ChooseRoute(r)
    PROVE  DialInv'
  <1>1. PICK answer \in {"allow", "deny", "notFound", "failure"} :
            IF RouteFound(r, answer)
            THEN /\ Goto(r, "connect")
                 /\ marker' = [marker EXCEPT ![r] = @ \/ way[r].route = "proxy"]
                 /\ cleared' = [cleared EXCEPT ![r] = way[r].route = "proxy"]
            ELSE Goto(r, "failed") /\ UNCHANGED <<marker, cleared>>
    BY DEF ChooseRoute
  <1>2. stage[r] = "hook" /\ UNCHANGED <<way, dial, pool>>
    BY DEF ChooseRoute
  <1>3. RouteFound(r, answer) => way[r].route \in {"direct", "proxy"}
    BY DEF RouteFound
  <1>4. DialTypeOK'
    <2>1. CASE RouteFound(r, answer)
      BY <1>1, <1>2, <2>1 DEF DialInv, DialTypeOK, Goto
    <2>2. CASE ~ RouteFound(r, answer)
      BY <1>1, <1>2, <2>2 DEF DialInv, DialTypeOK, Goto
    <2> QED  BY <2>1, <2>2
  <1>5. ASSUME NEW q \in RoundTrip PROVE Settled(q)' /\ Exempt(q)'
    <2>1. CASE q # r
      BY <1>1, <1>2, <2>1 DEF DialInv, DialTypeOK, Settled, Exempt, Goto
    <2>2. CASE q = r /\ RouteFound(r, answer)
      <3>1. /\ stage'[r] = "connect" /\ way[r].route \in {"direct", "proxy"}
            /\ marker'[r] = (marker[r] \/ way[r].route = "proxy")
            /\ cleared'[r] = (way[r].route = "proxy")
        BY <1>1, <1>3, <2>2 DEF DialInv, DialTypeOK, Goto
      <3> QED  BY <1>2, <2>2, <3>1 DEF DialInv, Settled, Exempt
    <2>3. CASE q = r /\ ~ RouteFound(r, answer)
      BY <1>1, <1>2, <2>3 DEF DialInv, DialTypeOK, Settled, Exempt, Goto
    <2> QED  BY <2>1, <2>2, <2>3
  <1>6. ProxiesAreReachable'
    BY <1>2 DEF DialInv, ProxiesAreReachable
  <1> QED  BY <1>2, <1>4, <1>5, <1>6, QuietStepKeepsInv

LEMMA ReuseKeepsInv ==
    ASSUME DialInv, NEW r \in RoundTrip, Reuse(r)
    PROVE  DialInv'
  <1>1. DialTypeOK'
    BY DEF DialInv, DialTypeOK, Reuse, Goto
  <1>2. \A q \in RoundTrip : Settled(q)' /\ Exempt(q)'
    BY DEF DialInv, DialTypeOK, Settled, Exempt, Reuse, Goto
  <1>3. ProxiesAreReachable'
    BY DEF DialInv, ProxiesAreReachable, Reuse
  <1> QED  BY <1>1, <1>2, <1>3, QuietStepKeepsInv DEF Reuse

LEMMA BeginDialKeepsInv ==
    ASSUME DialInv, NEW r \in RoundTrip, BeginDial(r)
    PROVE  DialInv'
  <1>1. DialTypeOK'
    BY DEF DialInv, DialTypeOK, BeginDial
  <1>2. \A q \in RoundTrip : Settled(q)' /\ Exempt(q)'
    BY DEF DialInv, DialTypeOK, Settled, Exempt, BeginDial
  <1>3. ProxiesAreReachable'
    BY DEF DialInv, DialTypeOK, ProxiesAreReachable, BeginDial
  <1> QED  BY <1>1, <1>2, <1>3, QuietStepKeepsInv DEF BeginDial

LEMMA EndRequestKeepsInv ==
    ASSUME DialInv, NEW r \in RoundTrip, EndRequest(r)
    PROVE  DialInv'
  <1>1. DialTypeOK'
    BY DEF DialInv, DialTypeOK, EndRequest, Goto
  <1>2. \A q \in RoundTrip : Settled(q)' /\ Exempt(q)'
    BY DEF DialInv, DialTypeOK, Settled, Exempt, EndRequest, Goto
  <1>3. ProxiesAreReachable'
    BY DEF DialInv, ProxiesAreReachable, EndRequest
  <1> QED  BY <1>1, <1>2, <1>3, QuietStepKeepsInv DEF EndRequest

(* A dial that ends: its connection has the kind of a round trip that was   *)
(* settled, so that an unjudged one only serves proxied requests.           *)
LEMMA EndDialKeepsInv ==
    ASSUME DialInv, NEW r \in RoundTrip, EndDial(r)
    PROVE  DialInv'
  <1>1. /\ dial[r] = "dialing" /\ UNCHANGED <<way, marker, cleared>>
        /\ way[r] \in Way /\ way[r].route # "error" /\ stage[r] # "start"
        /\ marker[r] <=> way[r].route = "proxy"
    BY DEF EndDial, DialInv, DialTypeOK, Settled, Exempt
  <1>2. way[r] \in [route : {"direct", "proxy"}, tls : BOOLEAN]
    BY <1>1 DEF Way
  <1>3. PICK peer \in Reachable(r) :
          \/ /\ Proxied(r) \/ Passes(peer)
             /\ pool' = pool \cup {[way |-> way[r], peer |-> peer]}
             /\ dial' = [dial EXCEPT ![r] = "none"]
             /\ UNCHANGED stage
          \/ /\ ~ (Proxied(r) \/ Passes(peer))
             /\ dial' = [dial EXCEPT ![r] = "refused"]
             /\ IF stage[r] = "connect" THEN Goto(r, "failed") ELSE UNCHANGED stage
             /\ UNCHANGED pool
          \/ /\ dial' = [dial EXCEPT ![r] = "none"]
             /\ IF stage[r] = "connect" THEN Goto(r, "failed") ELSE UNCHANGED stage
             /\ UNCHANGED pool
    BY DEF EndDial
  <1>4. CASE /\ Proxied(r) \/ Passes(peer)
             /\ pool' = pool \cup {[way |-> way[r], peer |-> peer]}
             /\ dial' = [dial EXCEPT ![r] = "none"]
             /\ UNCHANGED stage
    <2>1. peer \in Peer \cup OddPeer
      BY <1>3 DEF Reachable
    <2>2. [way |-> way[r], peer |-> peer] \in Conn
      BY <1>2, <2>1 DEF Conn
    <2>3. DialTypeOK'
      BY <1>1, <1>4, <2>2 DEF DialInv, DialTypeOK
    <2>4. \A q \in RoundTrip : Settled(q)' /\ Exempt(q)'
      BY <1>1, <1>4 DEF DialInv, DialTypeOK, Settled, Exempt
    <2>5. \A k \in pool' : k.way.route = "direct" => Passes(k.peer)
      BY <1>1, <1>4 DEF DialInv, Proxied
    <2>6. ProxiesAreReachable'
      BY <1>1, <1>4 DEF DialInv, DialTypeOK, ProxiesAreReachable
    <2> QED  BY <2>3, <2>4, <2>5, <2>6 DEF DialInv, Passes
  <1>5. ASSUME NEW end \in {"refused", "none"},
               end = "refused" => ~ Proxied(r),
               dial' = [dial EXCEPT ![r] = end],
               IF stage[r] = "connect" THEN Goto(r, "failed") ELSE UNCHANGED stage,
               UNCHANGED pool
        PROVE  DialInv'
    <2>1. stage' = [stage EXCEPT ![r] = IF @ = "connect" THEN "failed" ELSE @]
      BY <1>5 DEF Goto, DialInv, DialTypeOK
    <2>2. DialTypeOK'
      BY <1>1, <1>5, <2>1 DEF DialInv, DialTypeOK
    <2>3. \A q \in RoundTrip : Settled(q)' /\ Exempt(q)'
      BY <1>1, <1>5, <2>1 DEF DialInv, DialTypeOK, Settled, Exempt
    <2>4. ProxiesAreReachable'
      BY <1>1, <1>2, <1>5 DEF DialInv, DialTypeOK, ProxiesAreReachable, Proxied
    <2> QED  BY <1>1, <1>5, <2>2, <2>3, <2>4, QuietStepKeepsInv
  <1> QED  BY <1>3, <1>4, <1>5

LEMMA DialInitIsInv == DialInit => DialInv
  BY DEF DialInit, DialInv, DialTypeOK, Settled, Exempt, ProxiesAreReachable

LEMMA DialStepKeepsInv == DialInv /\ [DialNext]_dialVars => DialInv'
  <1> SUFFICES ASSUME DialInv, [DialNext]_dialVars PROVE DialInv'
    OBVIOUS
  <1>1. CASE Hangup
    <2>1. DialTypeOK' /\ ProxiesAreReachable'
      BY <1>1 DEF Hangup, DialInv, DialTypeOK, ProxiesAreReachable
    <2>2. \A q \in RoundTrip : Settled(q)' /\ Exempt(q)'
      BY <1>1 DEF Hangup, DialInv, Settled, Exempt
    <2> QED  BY <1>1, <2>1, <2>2, QuietStepKeepsInv DEF Hangup
  <1>2. CASE UNCHANGED dialVars
    BY <1>2 DEF dialVars, DialInv, DialTypeOK, Settled, Exempt, Passes, ProxiesAreReachable
  <1> QED
    BY <1>1, <1>2, MarkKeepsInv, ChooseRouteKeepsInv, ReuseKeepsInv, BeginDialKeepsInv,
       EndDialKeepsInv, EndRequestKeepsInv DEF DialNext

(* The inductive invariant holds in every reachable state.                  *)
THEOREM DialInvariance == DialSpec => []DialInv
  BY DialInitIsInv, DialStepKeepsInv, PTL DEF DialSpec

(* The types of the transport's round trips, dials and connections: no      *)
(* connection is ever of the kind of an erroneous route.                    *)
THEOREM DialTypes == DialSpec => []DialTypeOK
  <1>1. DialInv => DialTypeOK
    BY DEF DialInv
  <1> QED  BY <1>1, DialInvariance, PTL

(* However many round trips share the transport, every connection that may  *)
(* serve a direct request has been judged, and every proxied request's      *)
(* target has been validated (the dial hooks and the Proxy hook of          *)
(* policyTransport).                                                        *)
THEOREM HopsAreJudged == DialSpec => []EveryHopIsJudged
  <1>1. DialInv => EveryHopIsJudged
    BY DEF DialInv, Settled, EveryHopIsJudged
  <1> QED  BY <1>1, DialInvariance, PTL

(* No dial to a proxy is refused, whenever it ends (the proxyMarker).       *)
THEOREM ProxiesStayReachable == DialSpec => []ProxiesAreReachable
  <1>1. DialInv => ProxiesAreReachable
    BY DEF DialInv
  <1> QED  BY <1>1, DialInvariance, PTL
=============================================================================

----------------------------- MODULE DialPolicy -----------------------------
(***************************************************************************)
(* Where the IP policy is applied to the requests of one client            *)
(* (policyTransport in client.go): to the target, in the Proxy hook, when  *)
(* a proxy carries the request, and otherwise to the address dialed.  The  *)
(* two hooks meet only through the proxyMarker of the round trip.          *)
(*                                                                         *)
(* The transport of net/http is external, and matters: a dial runs in a    *)
(* goroutine of its own with the context of the request it was begun for,  *)
(* its connection may serve any request of the same kind, and a request    *)
(* whose connection turns out broken goes through the Proxy hook again.    *)
(* proxyFor is taken to be a function of the request.  The answers of      *)
(* validation are those of VerdictCache's calls.                           *)
(***************************************************************************)
CONSTANTS RoundTrip,   \* calls of markingTransport.RoundTrip
          CallerDial,  \* the transport came with a dialer of its own
          CallerTLS,   \* ... and with a TLS dialer of its own
          Trust        \* IPPolicy.TrustProxyResolution

ASSUME DialAssumption == {CallerDial, CallerTLS, Trust} \subseteq BOOLEAN

VARIABLES stage,    \* where each round trip is
          way,      \* the kind of each: the answer of proxyFor, TLS to the first hop
          marker,   \* proxyMarker.proxied of each
          cleared,  \* ghost: the target was validated, or left to the proxy
          dial,     \* the dial begun for each
          pool      \* connections that are up

dialVars == <<stage, way, marker, cleared, dial, pool>>

Way  == [route : {"direct", "proxy", "error"}, tls : BOOLEAN]

\* What an address dialed can be; only a dialer of the caller's can reach an
\* address that is no IP, or one that cannot be read.
Peer == {"permitted", "denied"}
OddPeer == {"unix", "unreadable"}
Conn == [way : [route : {"direct", "proxy"}, tls : BOOLEAN], peer : Peer \cup OddPeer]

DialInit ==
    /\ stage = [r \in RoundTrip |-> "start"]
    /\ way \in [RoundTrip -> Way]
    /\ marker = [r \in RoundTrip |-> FALSE]
    /\ cleared = [r \in RoundTrip |-> FALSE]
    /\ dial = [r \in RoundTrip |-> "none"]
    /\ pool = {}

Goto(r, s) == stage' = [stage EXCEPT ![r] = s]

\* markingTransport.RoundTrip: every round trip has a marker of its own.
Mark(r) ==
    /\ stage[r] = "start"
    /\ marker' = [marker EXCEPT ![r] = FALSE]
    /\ Goto(r, "hook")
    /\ UNCHANGED <<way, cleared, dial, pool>>

\* validateProxiedTarget after the cache: a name not found here is left to a
\* trusted proxy, every other failure is final.
GoesOn(answer) == answer = "allow" \/ (answer = "notFound" /\ Trust)

\* Fault: an error of proxyFor is taken for "no proxy".
ErrorIsDirect(r, answer) == way[r].route # "proxy" \/ GoesOn(answer)

\* The Proxy hook lets a round trip pass.
RouteFound(r, answer) ==
    way[r].route = "direct" \/ (way[r].route = "proxy" /\ GoesOn(answer))

ChooseRoute(r) ==
    /\ stage[r] = "hook"
    /\ \E answer \in {"allow", "deny", "notFound", "failure"} :
        IF RouteFound(r, answer)
        THEN /\ Goto(r, "connect")
             /\ marker' = [marker EXCEPT ![r] = @ \/ way[r].route = "proxy"]
             /\ cleared' = [cleared EXCEPT ![r] = way[r].route = "proxy"]
        ELSE Goto(r, "failed") /\ UNCHANGED <<marker, cleared>>
    /\ UNCHANGED <<way, dial, pool>>

\* A connection of the same kind is used, whoever dialed it.
Reuse(r) ==
    /\ stage[r] = "connect"
    /\ \E k \in pool : k.way = way[r]
    /\ Goto(r, "sent")
    /\ UNCHANGED <<way, marker, cleared, dial, pool>>

BeginDial(r) ==
    /\ stage[r] = "connect"
    /\ dial[r] = "none"
    /\ dial' = [dial EXCEPT ![r] = "dialing"]
    /\ UNCHANGED <<stage, way, marker, cleared, pool>>

\* Control on the enforcing dialer, or checkDialedConn after the caller's: no
\* connection to an address that is denied or cannot be read.
Passes(peer) == peer \in {"permitted", "unix"}

\* DialTLSContext runs for TLS to the first hop when the caller has one.
OwnDialer(r) == CallerDial \/ (way[r].tls /\ CallerTLS)
Reachable(r) == IF OwnDialer(r) THEN Peer \cup OddPeer ELSE Peer

\* Fault: the marker is the client's, not the round trip's.
ProxiedByAny(r) == \E q \in RoundTrip : marker[q]

\* Fault: what the caller's dialer reached is judged in any case.
ProxiedByLibrary(r) == marker[r] /\ ~ OwnDialer(r)

\* The exemption of a dial: the marker in its context.
Proxied(r) == marker[r]

\* The dial ends: with a connection for whoever wants it, or refused, or failed
\* for other reasons.  An error only concerns the round trip it was begun for.
EndDial(r) ==
    /\ dial[r] = "dialing"
    /\ \E peer \in Reachable(r) :
        \/ /\ Proxied(r) \/ Passes(peer)
           /\ pool' = pool \cup {[way |-> way[r], peer |-> peer]}
           /\ dial' = [dial EXCEPT ![r] = "none"]
           /\ UNCHANGED stage
        \/ /\ ~ (Proxied(r) \/ Passes(peer))
           /\ dial' = [dial EXCEPT ![r] = "refused"]
           /\ IF stage[r] = "connect" THEN Goto(r, "failed") ELSE UNCHANGED stage
           /\ UNCHANGED pool
        \/ /\ dial' = [dial EXCEPT ![r] = "none"]
           /\ IF stage[r] = "connect" THEN Goto(r, "failed") ELSE UNCHANGED stage
           /\ UNCHANGED pool
    /\ UNCHANGED <<way, marker, cleared>>

\* The response is there, or the connection was no longer good: net/http then
\* starts over, from the Proxy hook, in the same round trip.
EndRequest(r) ==
    /\ stage[r] = "sent"
    /\ Goto(r, "done") \/ Goto(r, "hook")
    /\ UNCHANGED <<way, marker, cleared, dial, pool>>

\* A connection is closed.
Hangup ==
    /\ \E k \in pool : pool' = pool \ {k}
    /\ UNCHANGED <<stage, way, marker, cleared, dial>>

DialNext ==
    \/ \E r \in RoundTrip : \/ Mark(r) \/ ChooseRoute(r) \/ Reuse(r)
                            \/ BeginDial(r) \/ EndDial(r) \/ EndRequest(r)
    \/ Hangup

DialSpec == DialInit /\ [][DialNext]_dialVars

----------------------------------------------------------------------------
\* Every variable has its type.
DialTypeOK ==
    /\ stage \in [RoundTrip -> {"start", "hook", "connect", "sent", "done", "failed"}]
    /\ way \in [RoundTrip -> Way]
    /\ marker \in [RoundTrip -> BOOLEAN] /\ cleared \in [RoundTrip -> BOOLEAN]
    /\ dial \in [RoundTrip -> {"none", "dialing", "refused"}]
    /\ pool \subseteq Conn

\* No round trip reaches an address nobody judged: a connection that serves
\* direct requests has a peer the policy lets through, although dials for
\* proxied requests to the same transport run beside it unjudged, and a
\* request on a connection to a proxy had its target validated first
\* ("Exemption is scoped to the single request", client.go:443).
EveryHopIsJudged ==
    /\ \A k \in pool : k.way.route = "direct" => Passes(k.peer)
    /\ \A r \in RoundTrip : stage[r] \in {"sent", "done"} /\ way[r].route = "proxy" => cleared[r]

\* A proxy may live on an address the policy denies: a dial to it is never
\* refused, in whatever goroutine and however late it runs ("Dials for a
\* request that selected a proxy are therefore exempt", client.go:299-300).
ProxiesAreReachable ==
    \A r \in RoundTrip : dial[r] = "refused" => way[r].route = "direct"
=============================================================================

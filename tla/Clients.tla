------------------------------ MODULE Clients ------------------------------
(***************************************************************************)
(* Clients of one program, with policies and response caches of their own  *)
(* choosing: what each is built from (NewClientFromAppConfig, NewClient),  *)
(* the policy that comes out, and the requests and redirects it makes.     *)
(*                                                                         *)
(* Clients meet in two places.  Those without a policy of their own point  *)
(* to one value, defaultIPPolicy, and those with a filesystem cache may    *)
(* share its directory, where only the key keeps their entries apart: the  *)
(* cache sits above the transport, so a hit is judged by nobody.           *)
(*                                                                         *)
(* DNS, the servers, httpcache's choice of what to store and net/http's    *)
(* redirect loop are external.  Nothing is assumed of DNS: every lookup    *)
(* may give another answer.  An attempt of the retry loop is one call.     *)
(***************************************************************************)
EXTENDS IPPolicy, AppConfig, FiniteSets

CONSTANTS Client,              \* clients the program holds
          Stack,               \* pairs of layers clients are built from
          Unwritable,          \* directories that cannot be made
          ConfigPolicy,        \* policies given to NewClient
          Target,              \* URLs requested or redirected to
          Redirect,            \* pairs of them: a redirect and where it leads
          Lookup,              \* answers of a resolver
          DefaultMaxRedirects,
          MaxRedirectsGiven,   \* values of ClientConfig.MaxRedirects
          MaxBuilds, MaxCalls  \* bounds of the instance

ASSUME ClientsAssumption ==
    /\ ConfigPolicy \subseteq Policy /\ Target \subseteq URL /\ Lookup \subseteq Answer
    /\ Redirect \subseteq Target \X Target
    /\ DefaultMaxRedirects \in Nat \ {0}
    /\ MaxRedirectsGiven \subseteq Int
    /\ MaxBuilds \in Nat /\ MaxCalls \in Nat

\* Layers are well typed where a policy comes from them, a merged one is not
\* nil, and DefaultConfig allows nothing.
ASSUME StackAssumption ==
    /\ \A stack \in Stack : \A layer \in {stack[1], stack[2]} \ {Absent} :
         /\ layer["allowedPrivateCIDRs"] \in {Unset} \cup SUBSET ((SUBSET Native) \cup {Malformed})
         /\ {layer["allowPrivateIPs"], layer["trustProxyResolution"]} \subseteq BOOLEAN \cup {Unset}
    /\ \A stack \in Stack : MergeAppConfig(stack[1], stack[2]) = Absent => stack[1] = Absent /\ stack[2] = Absent
    /\ Default["allowPrivateIPs"] = FALSE

VARIABLES shared,    \* the value of defaultIPPolicy
          client,    \* each client, or NoClient
          asked,     \* ghost: the policy its configuration asks for
          store,     \* entries of all caches
          call,      \* the request each client is making
          builds, calls

clientVars == <<shared, client, asked, store, call, builds, calls>>

NoClient == [kind |-> "none"]

\* The transport: an *http.Transport whose requests go out directly or to a
\* proxy, or a foreign RoundTripper behind urlPolicyTransport.
Kind == {"direct", "proxied", "foreign"}

\* A policy pointer: to a value of the client's own, or to defaultIPPolicy.
Own(p) == <<"own", p>>
Shared == <<"shared">>
Deref(pointer) == IF pointer = Shared THEN shared ELSE pointer[2]

PolicyOf(c) == Deref(client[c].policy)

\* A response, with ghosts: the addresses that were judged before it was
\* fetched, whether the name was left to the proxy, and on whose word.
Nowhere == [web |-> FALSE, host |-> <<"none">>]
Response == [from : SUBSET Address, unresolved : BOOLEAN,
             via : SUBSET Resolver, to : Target \cup {Nowhere}]

NoResponse == [from |-> {}, unresolved |-> FALSE, via |-> {}, to |-> Nowhere]
NoCall == [stage |-> "idle", url |-> Nowhere, hops |-> 0,
           answer |-> <<"failure">>, resp |-> NoResponse]

ClientsInit ==
    /\ shared = NewIPPolicy({})
    /\ client = [c \in Client |-> NoClient]
    /\ asked = [c \in Client |-> NewIPPolicy({})]
    /\ store = {}
    /\ call = [c \in Client |-> NoCall]
    /\ builds = 0 /\ calls = 0

----------------------------------------------------------------------------
(* Building clients.                                                        *)

\* ClientConfig.ipPolicy, for the fields NewClientFromAppConfig fills in.
Chosen(cfg) ==
    IF cfg # Absent /\ Given("allowedPrivateCIDRs", cfg["allowedPrivateCIDRs"])
    THEN Own(NewIPPolicy(cfg["allowedPrivateCIDRs"]))
    ELSE IF Setting(cfg, "allowPrivateIPs") THEN Own(AllowAllPrivateIPs) ELSE Shared

\* Fault: the policy is changed where it is, also when it is the shared one.
TrustInPlace(pointer, trust) ==
    IF pointer = Shared THEN [policy |-> Shared, default |-> [shared EXCEPT !.trust = trust]]
    ELSE [policy |-> Own([Deref(pointer) EXCEPT !.trust = trust]), default |-> shared]

\* TrustProxyResolution is set in a copy of the policy.
WithTrust(pointer, trust) ==
    [policy |-> Own([Deref(pointer) EXCEPT !.trust = trust]), default |-> shared]

Effective(cfg) ==
    IF cfg # Absent /\ Given("trustProxyResolution", cfg["trustProxyResolution"])
    THEN WithTrust(Chosen(cfg), cfg["trustProxyResolution"])
    ELSE [policy |-> Chosen(cfg), default |-> shared]

\* newCache: a directory, or memory of the client's own, which is also what
\* is left when NewFileCache cannot make the directory.
Place(c, cfg) ==
    CASE ~ Setting(cfg, "enableCache") -> <<"none">>
      [] Setting(cfg, "enableCache") /\ Setting(cfg, "cacheType") = "filesystem"
         /\ Setting(cfg, "cacheDir") \notin Unwritable -> <<"dir", Setting(cfg, "cacheDir")>>
      [] OTHER -> <<"memory", c>>

\* What the layers ask for, read from the top: for every field the last layer
\* that gives it; a list of blocks wins over AllowPrivateIPs even when empty
\* (appconfig.go:59-60); trust is independent of both.
Gives(layer, f) == layer # Absent /\ Given(f, layer[f])
Last(stack, f, none) == IF Gives(stack[2], f) THEN stack[2][f]
                        ELSE IF Gives(stack[1], f) THEN stack[1][f] ELSE none

AskedFor(stack) ==
    LET list == Last(stack, "allowedPrivateCIDRs", Unset) IN
    [allowPrivate |-> list = Unset /\ Last(stack, "allowPrivateIPs", FALSE),
     allowed |-> IF list = Unset THEN {} ELSE list,
     trust |-> Last(stack, "trustProxyResolution", FALSE),
     resolver |-> DefaultResolver]

\* The client in slot c is replaced; what it kept in memory goes with it.
Install(c, new, wanted) ==
    /\ call[c].stage = "idle" /\ builds < MaxBuilds
    /\ client' = [client EXCEPT ![c] = new]
    /\ asked' = [asked EXCEPT ![c] = wanted]
    /\ store' = {e \in store : e.place # <<"memory", c>>}
    /\ builds' = builds + 1
    /\ UNCHANGED <<call, calls>>

\* MergeAppConfig and NewClientFromAppConfig; the transport is a clone of
\* http.DefaultTransport, which takes its proxy from the environment.
BuildFromApp(c) ==
    \E stack \in Stack, kind \in {"direct", "proxied"} :
        LET cfg == MergeAppConfig(stack[1], stack[2]) IN
        /\ Usable(cfg)
        /\ Install(c, [kind |-> kind, policy |-> Effective(cfg).policy, place |-> Place(c, cfg),
                       prefix |-> Setting(cfg, "cacheKeyPrefix"), maxRedirects |-> DefaultMaxRedirects],
                   AskedFor(stack))
        /\ shared' = Effective(cfg).default

\* NewClient with a ClientConfig of the program's.
BuildDirect(c) ==
    /\ \E p \in ConfigPolicy, kind \in Kind, n \in MaxRedirectsGiven :
        Install(c, [kind |-> kind, policy |-> Own(p), place |-> Place(c, Absent),
                    prefix |-> Default["cacheKeyPrefix"], maxRedirects |-> n], p)
    /\ UNCHANGED shared

----------------------------------------------------------------------------
(* A request and its redirects.                                             *)

\* Fault: a redirect begins a request of its own.
PutAfresh(c, stage, url, hops) ==
    call' = [call EXCEPT ![c] = [NoCall EXCEPT !.stage = stage, !.url = url]]

\* A request of the call, after so many redirects, or its refusal.
Put(c, stage, url, hops) ==
    call' = [call EXCEPT ![c] = [NoCall EXCEPT !.stage = stage, !.url = url, !.hops = hops]]

\* Client.Do: the URL is judged before anything else.
Do(c) ==
    /\ client[c] # NoClient /\ call[c].stage = "idle" /\ calls < MaxCalls
    /\ \E u \in Target : Put(c, IF ValidateURL(PolicyOf(c), u) THEN "send" ELSE "refused", u, 0)
    /\ calls' = calls + 1
    /\ UNCHANGED <<shared, client, asked, store, builds>>

\* newCache's key prefix in front of httpcache's key.
Key(c, u) == [place |-> client[c].place, prefix |-> client[c].prefix,
              policy |-> Fingerprint(PolicyOf(c)), url |-> u]
Entry(k, r) == [place |-> k.place, prefix |-> k.prefix, policy |-> k.policy, url |-> k.url, resp |-> r]
Under(k) == {e \in store : Entry(k, e.resp) = e}

Answered(c, r) == call' = [call EXCEPT ![c].stage = "answered", ![c].resp = r]

\* Served from the cache: neither resolved, judged nor dialed.
Hit(c) ==
    /\ call[c].stage = "send"
    /\ \E e \in Under(Key(c, call[c].url)) : Answered(c, e.resp)
    /\ UNCHANGED <<shared, client, asked, store, builds, calls>>

\* The addresses a dialer tries for a URL.
Addresses(u, answer) == IF Literal(u) THEN {u.host[2]} ELSE IF answer[1] = "found" THEN answer[2] ELSE {}

\* The ways past the policy: dialing any address it permits, or asking the
\* proxy or the foreign transport once every address is judged.
Fetched(c, u, answer) ==
    LET p == PolicyOf(c)
        judged == ValidateURLResolved(p, u, answer)
        asking == [NoResponse EXCEPT !.via = IF Literal(u) THEN {} ELSE {p.resolver}] IN
    IF client[c].kind = "direct"
    THEN {[NoResponse EXCEPT !.from = {a}] : a \in {b \in Addresses(u, answer) : CheckIP(p, b)}}
    ELSE IF judged = "ok" THEN {[asking EXCEPT !.from = Addresses(u, answer)]}
    ELSE IF client[c].kind = "proxied" /\ judged = "notFound" /\ p.trust
    THEN {[asking EXCEPT !.unresolved = TRUE]} ELSE {}

\* The policy refuses what there is: an address at least, for a dialer all.
Blocked(c, u, answer) ==
    IF client[c].kind = "direct"
    THEN Addresses(u, answer) # {} /\ \A a \in Addresses(u, answer) : ~ CheckIP(PolicyOf(c), a)
    ELSE ValidateURLResolved(PolicyOf(c), u, answer) = "blocked"

\* A server answers, or redirects.
Leads(u) == {Nowhere} \cup {v \in Target : <<u, v>> \in Redirect}

\* The request goes down to the transport; httpcache may keep the response.
Fetch(c) ==
    /\ call[c].stage = "send"
    /\ \E answer \in Lookup :
        \/ \E r \in Fetched(c, call[c].url, answer), to \in Leads(call[c].url) :
            LET k == Key(c, call[c].url)
                response == [r EXCEPT !.to = to] IN
            /\ Answered(c, response)
            /\ \/ UNCHANGED store
               \/ /\ k.place # <<"none">>
                  /\ store' = (store \ Under(k)) \cup {Entry(k, response)}
        \/ /\ Blocked(c, call[c].url, answer)
           /\ call' = [call EXCEPT ![c].stage = "refused", ![c].answer = answer]
           /\ UNCHANGED store
    /\ UNCHANGED <<shared, client, asked, builds, calls>>

\* The resolver, the network or the server fails.
Fail(c) ==
    /\ call[c].stage = "send"
    /\ call' = [call EXCEPT ![c].stage = "failed"]
    /\ UNCHANGED <<shared, client, asked, store, builds, calls>>

Limit(c) == IF client[c].maxRedirects <= 0 THEN DefaultMaxRedirects ELSE client[c].maxRedirects

\* Fault: the limit counts redirects, not requests.
OneMore(c, via) == via > Limit(c)

TooMany(c, via) == via >= Limit(c)

\* CheckRedirect, run by net/http for every redirect, cached ones included;
\* via holds the requests made so far.
Follow(c) ==
    /\ call[c].stage = "answered" /\ call[c].resp.to # Nowhere
    /\ LET next == call[c].resp.to
           via == call[c].hops + 1 IN
       IF TooMany(c, via) THEN call' = [call EXCEPT ![c].stage = "failed"]
       ELSE Put(c, IF ValidateURL(PolicyOf(c), next) THEN "send" ELSE "refused", next, via)
    /\ UNCHANGED <<shared, client, asked, store, builds, calls>>

\* Do returns, and the program is done with the response.
Return(c) ==
    /\ \/ call[c].stage \in {"refused", "failed"}
       \/ call[c].stage = "answered" /\ call[c].resp.to = Nowhere
    /\ call' = [call EXCEPT ![c] = NoCall]
    /\ UNCHANGED <<shared, client, asked, store, builds, calls>>

\* ClearCache takes whatever lies in the directory; a memory cache refuses.
ClearCache(c) ==
    /\ client[c] # NoClient /\ client[c].place[1] = "dir"
    /\ store' = {e \in store : e.place # client[c].place}
    /\ UNCHANGED <<shared, client, asked, call, builds, calls>>

\* An entry is deleted, expires or is evicted.
DeleteCacheEntry ==
    /\ \E e \in store : store' = store \ {e}
    /\ UNCHANGED <<shared, client, asked, call, builds, calls>>

Answering(c) == Hit(c) \/ Fetch(c) \/ Fail(c) \/ Follow(c) \/ Return(c)

ClientsNext ==
    \/ \E c \in Client : \/ BuildFromApp(c) \/ BuildDirect(c) \/ ClearCache(c)
                         \/ Do(c) \/ Answering(c)
    \/ DeleteCacheEntry

\* Lookups, dials and exchanges end: the client's timeout covers them all.
ClientsSpec == ClientsInit /\ [][ClientsNext]_clientVars
                           /\ \A c \in Client : WF_clientVars(Answering(c))

----------------------------------------------------------------------------
\* Every variable has its type, the redirects of a call stay within its limit
\* and the counters in their bounds.
ClientsTypeOK ==
    /\ shared \in Policy /\ asked \in [Client -> Policy]
    /\ \A c \in Client : client[c] # NoClient => client[c].kind \in Kind /\ PolicyOf(c) \in Policy
    /\ \A e \in store : e.resp \in Response /\ e.place # <<"none">>
    /\ \A c \in Client : call[c].stage \in {"idle", "send", "answered", "refused", "failed"}
    /\ \A c \in Client : call[c].resp \in Response
    /\ \A c \in Client : call[c].stage # "idle" => call[c].hops \in 0 .. Limit(c) - 1
    /\ builds \in 0 .. MaxBuilds /\ calls \in 0 .. MaxCalls

\* Whatever a client is handed, from the network or from a cache it shares
\* with others, came from an address its own policy was, or would have been,
\* content with: nothing was fetched from an address it forbids, nothing was
\* left to a proxy it does not trust, and nothing was judged on the word of
\* another resolver ("never served to a client running a stricter one",
\* ssrf.go:506-514).
ServedIsJudged ==
    \A c \in Client : call[c].stage = "answered" =>
        /\ \A a \in call[c].resp.from : Reachable(asked[c], a)
        /\ call[c].resp.unresolved => asked[c].trust
        /\ call[c].resp.via \subseteq {asked[c].resolver}

\* A client follows the policy its layers ask for, whatever other clients are
\* built before or after it, one of them with TrustProxyResolution on top of
\* the default policy everybody shares included (appconfig.go:183-188).
ConfigIsHonoured ==
    \A c \in Client : client[c] # NoClient => Fingerprint(PolicyOf(c)) = Fingerprint(asked[c])

\* The policy of a client forbids a URL: it is no web address, names a
\* metadata service or the local host that may not be reached, or leads to an
\* address that is not permitted, for a dialer to nothing else.
Forbidden(c, u, answer) ==
    LET Bad(a) == ~ Reachable(asked[c], a) IN
    \/ ~ u.web \/ u.host[1] \in {"none", "numeric"} \/ Named(u, MetadataName)
    \/ Named(u, LoopbackName) /\ \A n \in Loopback : ~ Permits(asked[c], n)
    \/ \E a \in Addresses(u, answer) : Bad(a) /\ client[c].kind # "direct"
    \/ Addresses(u, answer) # {} /\ \A a \in Addresses(u, answer) : Bad(a)

\* Only what the policy forbids is refused: an exception a configuration makes
\* is open on every path a request takes, by URL, by name, by redirect, by an
\* encoded address and through a proxy.
RefusedForCause ==
    \A c \in Client : call[c].stage = "refused" => Forbidden(c, call[c].url, call[c].answer)

\* A chain of redirects ends, one that goes in a circle and one answered from
\* the cache included, whatever limit was given (client.go:263-272).
RedirectsEnd == \A c \in Client : call[c].stage = "send" ~> call[c].stage = "idle"
=============================================================================

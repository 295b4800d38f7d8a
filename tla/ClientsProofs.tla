---------------------------- MODULE ClientsProofs ----------------------------
(* Theorems about IPPolicy, AppConfig and Clients. *)
EXTENDS Clients, TLAPS

----------------------------------------------------------------------------
(* The rules on addresses.                                                  *)

\* CheckIP, which looks at the address, at what it embeds and at three lists
\* in turn, permits exactly the addresses all of whose destinations the
\* documentation permits (ssrf.go:320-379).
THEOREM CheckIPIsExact ==
    ASSUME NEW p \in Policy, NEW a \in Address
    PROVE  CheckIP(p, a) <=> Reachable(p, a)
<1>1. ASSUME NEW n \in Native
      PROVE  Permits(p, n) <=>
                 n \notin Metadata /\ (p.allowPrivate \/ n \notin Private
                                       \/ \E block \in p.allowed : n \in block)
  BY DEF Permits
<1>2. CASE a.form \in {"native", "mapped"}
  BY <1>1, <1>2, PolicyAssumption
     DEF CheckIP, Reachable, Reach, Embedded, Decodable, NonExemptible, InBlock, Allows,
         Address, Native
<1>3. CASE a.form \in Decodable
  <2>1. a.of \in IPv4 /\ a.of \in Native
    BY <1>3 DEF Address, Decodable, Native
  <2>2. NativeOf(a.of).form = "native" /\ NativeOf(a.of).of = a.of
    BY DEF NativeOf
  <2>3. CheckIP(p, a) <=>
            a.of \notin Metadata /\ (p.allowPrivate \/ a.of \notin Private \/ Allows(p, NativeOf(a.of)))
    BY <1>3, <2>2 DEF CheckIP, Embedded, NonExemptible, InBlock, Allows, Decodable
  <2>4. Allows(p, NativeOf(a.of)) <=> \E block \in p.allowed : a.of \in block
    BY <2>2 DEF Allows, InBlock
  <2> QED
    BY <1>1, <1>3, <2>1, <2>3, <2>4 DEF Reachable, Reach, Decodable
<1>4. CASE a.form = "nat64local"
  <2>1. ~ CheckIP(p, a)
    BY <1>4 DEF CheckIP, NonExemptible
  <2>2. ~ Reachable(p, a)
    BY <1>4, PolicyAssumption DEF Reachable, Reach, Permits
  <2> QED
    BY <2>1, <2>2
<1>5. CASE a.form = "malformed"
  BY <1>5 DEF CheckIP, Reachable, NonExemptible
<1> QED
  BY <1>2, <1>3, <1>4, <1>5 DEF Address, Decodable

\* Two policies with the same fingerprint decide alike: nil blocks and the
\* order of the others change nothing, and nothing else is left out
\* (ssrf.go:522-549).
THEOREM FingerprintDecides ==
    ASSUME NEW p \in Policy, NEW q \in Policy, Fingerprint(p) = Fingerprint(q)
    PROVE  /\ p.trust = q.trust /\ p.resolver = q.resolver
           /\ \A n : Permits(p, n) <=> Permits(q, n)
           /\ \A a : Reachable(p, a) <=> Reachable(q, a)
<1>1. /\ p.trust = q.trust /\ p.resolver = q.resolver /\ p.allowPrivate = q.allowPrivate
      /\ p.allowed \ {{}} = q.allowed \ {{}}
  BY DEF Fingerprint
<1>2. UNION p.allowed = UNION q.allowed
  <2>1. ASSUME NEW n PROVE n \in UNION p.allowed <=> n \in UNION q.allowed
    <3>1. n \in UNION p.allowed <=> \E block \in p.allowed \ {{}} : n \in block
      OBVIOUS
    <3>2. n \in UNION q.allowed <=> \E block \in q.allowed \ {{}} : n \in block
      OBVIOUS
    <3> QED
      BY <1>1, <3>1, <3>2
  <2> QED
    BY <2>1
<1>3. \A n : Permits(p, n) <=> Permits(q, n)
  BY <1>1, <1>2 DEF Permits
<1> QED
  BY <1>1, <1>3 DEF Reachable

\* What q is given on top of p: everything private, or more blocks.
Looser(p, q) == (p.allowPrivate => q.allowPrivate) /\ UNION p.allowed \subseteq UNION q.allowed

\* An exception only adds: what a policy lets through, one with more exceptions
\* does too, addresses, URLs and names alike, in whatever form they are given;
\* and no exception opens a way to a metadata service (ssrf.go:249-267, CheckIP,
\* ValidateURL, allowsLoopbackByName and ValidateURLResolved).
THEOREM ExceptionsOnlyAdd ==
    ASSUME NEW p \in Policy, NEW q \in Policy, Looser(p, q), NEW u \in URL
    PROVE  /\ \A a \in Address : CheckIP(p, a) => CheckIP(q, a) /\ Reach(a) \cap Metadata = {}
           /\ ValidateURL(p, u) => ValidateURL(q, u)
           /\ \A answer \in Answer :
                  ValidateURLResolved(p, u, answer) = "ok" => ValidateURLResolved(q, u, answer) = "ok"
<1>1. ASSUME NEW n, Permits(p, n) PROVE Permits(q, n)
  BY <1>1 DEF Looser, Permits
<1>2. ASSUME NEW a \in Address, CheckIP(p, a)
      PROVE  CheckIP(q, a) /\ Reach(a) \cap Metadata = {}
  <2>1. Reachable(p, a)
    BY <1>2, CheckIPIsExact
  <2>2. Reachable(q, a) /\ Reach(a) \cap Metadata = {}
    BY <1>1, <2>1 DEF Reachable, Permits
  <2> QED
    BY <2>2, CheckIPIsExact
<1>3. ASSUME ValidateURL(p, u) PROVE ValidateURL(q, u)
  <2>1. ASSUME Literal(u) PROVE u.host[2] \in Address
    BY <2>1 DEF Literal, URL, Host
  <2>2. Literal(u) => CheckIP(q, u.host[2])
    BY <1>2, <1>3, <2>1 DEF ValidateURL
  <2>3. ASSUME NEW n \in Loopback PROVE NativeOf(n) \in Address
    BY <2>3, PolicyAssumption DEF Address, NativeOf
  <2>4. AllowsLoopbackByName(p) => AllowsLoopbackByName(q)
    BY <1>2, <2>3 DEF AllowsLoopbackByName
  <2> QED
    BY <1>3, <2>2, <2>4 DEF ValidateURL
<1>4. ASSUME NEW answer \in Answer, ValidateURLResolved(p, u, answer) = "ok"
      PROVE  ValidateURLResolved(q, u, answer) = "ok"
  <2>1. ValidateURL(q, u)
    BY <1>3, <1>4 DEF ValidateURLResolved
  <2>2. CASE Literal(u)
    BY <2>1, <2>2 DEF ValidateURLResolved
  <2>3. CASE ~ Literal(u)
    <3>1. answer[1] = "found" /\ answer[2] # {} /\ \A a \in answer[2] : CheckIP(p, a)
      BY <1>4, <2>3 DEF ValidateURLResolved, Answer
    <3>2. answer[2] \subseteq Address
      BY <3>1 DEF Answer
    <3>3. \A a \in answer[2] : CheckIP(q, a)
      BY <1>2, <3>1, <3>2
    <3> QED
      BY <2>1, <2>3, <3>1, <3>3 DEF ValidateURLResolved
  <2> QED
    BY <2>2, <2>3
<1> QED
  BY <1>2, <1>3, <1>4

----------------------------------------------------------------------------
(* Merging configurations.                                                  *)

\* Layers can be merged in any grouping: a field comes from the last layer
\* that gives it, and a nil configuration changes nothing (appconfig.go:201).
THEOREM MergeIsAssociative ==
    ASSUME NEW Layer, Absent \notin Layer,
           \A x, y \in Layer : MergeAppConfig(x, y) \in Layer,
           NEW a \in Layer \cup {Absent}, NEW b \in Layer \cup {Absent},
           NEW c \in Layer \cup {Absent}
    PROVE  /\ MergeAppConfig(MergeAppConfig(a, b), c) = MergeAppConfig(a, MergeAppConfig(b, c))
           /\ MergeAppConfig(a, Absent) = a /\ MergeAppConfig(Absent, a) = a
<1>1. MergeAppConfig(a, Absent) = a /\ MergeAppConfig(Absent, a) = a
  BY DEF MergeAppConfig
<1>2. ASSUME NEW x \in Layer, NEW y \in Layer
      PROVE  /\ MergeAppConfig(x, y) # Absent
             /\ MergeAppConfig(x, y) = [f \in Field |-> IF Given(f, y[f]) THEN y[f] ELSE x[f]]
  BY <1>2 DEF MergeAppConfig
<1>3. CASE a # Absent /\ b # Absent /\ c # Absent
  <2> DEFINE ab == MergeAppConfig(a, b)
             bc == MergeAppConfig(b, c)
  <2>1. ab \in Layer /\ bc \in Layer /\ a \in Layer /\ c \in Layer /\ b \in Layer
    BY <1>3
  <2>2. ab = [f \in Field |-> IF Given(f, b[f]) THEN b[f] ELSE a[f]]
    BY <1>2, <2>1
  <2>3. bc = [f \in Field |-> IF Given(f, c[f]) THEN c[f] ELSE b[f]]
    BY <1>2, <2>1
  <2>4. MergeAppConfig(ab, c) = [f \in Field |-> IF Given(f, c[f]) THEN c[f] ELSE ab[f]]
    BY <1>2, <2>1
  <2>5. MergeAppConfig(a, bc) = [f \in Field |-> IF Given(f, bc[f]) THEN bc[f] ELSE a[f]]
    BY <1>2, <2>1
  <2>6. ASSUME NEW f \in Field
        PROVE  (IF Given(f, c[f]) THEN c[f] ELSE ab[f]) = (IF Given(f, bc[f]) THEN bc[f] ELSE a[f])
    <3>1. ab[f] = IF Given(f, b[f]) THEN b[f] ELSE a[f]
      BY <2>2
    <3>2. bc[f] = IF Given(f, c[f]) THEN c[f] ELSE b[f]
      BY <2>3
    <3> HIDE DEF ab, bc
    <3> QED
      BY <3>1, <3>2
  <2> HIDE DEF ab, bc
  <2>7. MergeAppConfig(ab, c) = MergeAppConfig(a, bc)
    BY <2>4, <2>5, <2>6
  <2> QED
    BY <1>1, <2>7 DEF ab, bc
<1>4. CASE a = Absent \/ b = Absent \/ c = Absent
  BY <1>1, <1>4 DEF MergeAppConfig
<1> QED
  BY <1>1, <1>3, <1>4

----------------------------------------------------------------------------
(* What a client is built with.                                             *)

\* A field of two merged layers is the one of the last that gives it.
LEMMA MergedField ==
    ASSUME NEW stack \in Stack, NEW f \in Field, NEW none
    PROVE  LET cfg == MergeAppConfig(stack[1], stack[2])
               given == cfg # Absent /\ Given(f, cfg[f]) IN
           /\ given <=> Gives(stack[1], f) \/ Gives(stack[2], f)
           /\ Last(stack, f, none) = IF given THEN cfg[f] ELSE none
<1> DEFINE cfg == MergeAppConfig(stack[1], stack[2])
<1>1. CASE stack[2] = Absent
  BY <1>1 DEF MergeAppConfig, Gives, Last
<1>2. CASE stack[2] # Absent /\ stack[1] = Absent
  BY <1>2 DEF MergeAppConfig, Gives, Last
<1>3. CASE stack[2] # Absent /\ stack[1] # Absent
  <2>1. cfg # Absent
    BY <1>3, StackAssumption
  <2>2. cfg[f] = IF Given(f, stack[2][f]) THEN stack[2][f] ELSE stack[1][f]
    BY <1>3 DEF MergeAppConfig
  <2> HIDE DEF cfg
  <2>3. /\ cfg # Absent /\ Given(f, cfg[f]) <=> Gives(stack[1], f) \/ Gives(stack[2], f)
        /\ Last(stack, f, none) = IF cfg # Absent /\ Given(f, cfg[f]) THEN cfg[f] ELSE none
    BY <1>3, <2>1, <2>2 DEF Gives, Last
  <2> QED
    BY <2>3 DEF cfg
<1> QED
  BY <1>1, <1>2, <1>3

\* The fields a policy comes from have the types the code gives them.
LEMMA MergedTypes ==
    ASSUME NEW stack \in Stack
    PROVE  LET cfg == MergeAppConfig(stack[1], stack[2]) IN
           cfg # Absent =>
             /\ cfg["allowedPrivateCIDRs"] \in {Unset} \cup SUBSET ((SUBSET Native) \cup {Malformed})
             /\ {cfg["allowPrivateIPs"], cfg["trustProxyResolution"]} \subseteq BOOLEAN \cup {Unset}
<1> DEFINE cfg == MergeAppConfig(stack[1], stack[2])
<1>1. ASSUME NEW i \in {1, 2}, stack[i] # Absent
      PROVE  /\ stack[i]["allowedPrivateCIDRs"] \in {Unset} \cup SUBSET ((SUBSET Native) \cup {Malformed})
             /\ {stack[i]["allowPrivateIPs"], stack[i]["trustProxyResolution"]} \subseteq BOOLEAN \cup {Unset}
  <2>1. stack[i] \in {stack[1], stack[2]} \ {Absent}
    BY <1>1
  <2> QED
    BY <2>1, StackAssumption
<1>2. {"allowedPrivateCIDRs", "allowPrivateIPs", "trustProxyResolution"} \subseteq Field
  BY DEF Field, Flag
<1>3. CASE stack[1] # Absent /\ stack[2] # Absent
  <2>1. ASSUME NEW f \in Field PROVE cfg[f] \in {stack[1][f], stack[2][f]}
    BY <1>3 DEF MergeAppConfig
  <2> HIDE DEF cfg
  <2>2. /\ cfg["allowedPrivateCIDRs"] \in {stack[1]["allowedPrivateCIDRs"], stack[2]["allowedPrivateCIDRs"]}
        /\ cfg["allowPrivateIPs"] \in {stack[1]["allowPrivateIPs"], stack[2]["allowPrivateIPs"]}
        /\ cfg["trustProxyResolution"] \in {stack[1]["trustProxyResolution"], stack[2]["trustProxyResolution"]}
    BY <1>2, <2>1
  <2>3. /\ cfg["allowedPrivateCIDRs"] \in {Unset} \cup SUBSET ((SUBSET Native) \cup {Malformed})
        /\ {cfg["allowPrivateIPs"], cfg["trustProxyResolution"]} \subseteq BOOLEAN \cup {Unset}
    BY <1>1, <1>3, <2>2
  <2> QED
    BY <2>3 DEF cfg
<1>4. CASE stack[1] = Absent \/ stack[2] = Absent
  BY <1>1, <1>4 DEF MergeAppConfig
<1> QED
  BY <1>3, <1>4

\* NewClientFromAppConfig makes the policy that the layers ask for, and leaves
\* the default policy as it is.
LEMMA BuiltAsAsked ==
    ASSUME NEW stack \in Stack, shared = NewIPPolicy({}),
           Usable(MergeAppConfig(stack[1], stack[2]))
    PROVE  LET made == Effective(MergeAppConfig(stack[1], stack[2])) IN
           /\ made.default = shared
           /\ Deref(made.policy) = AskedFor(stack)
           /\ AskedFor(stack) \in Policy
<1> DEFINE cfg == MergeAppConfig(stack[1], stack[2])
           HasList == cfg # Absent /\ Given("allowedPrivateCIDRs", cfg["allowedPrivateCIDRs"])
           HasFlag == cfg # Absent /\ Given("allowPrivateIPs", cfg["allowPrivateIPs"])
           HasTrust == cfg # Absent /\ Given("trustProxyResolution", cfg["trustProxyResolution"])
<1>1. {"allowedPrivateCIDRs", "allowPrivateIPs", "trustProxyResolution"} \subseteq Field
  BY DEF Field, Flag
<1>2. /\ Last(stack, "allowedPrivateCIDRs", Unset) = IF HasList THEN cfg["allowedPrivateCIDRs"] ELSE Unset
      /\ Last(stack, "allowPrivateIPs", FALSE) = IF HasFlag THEN cfg["allowPrivateIPs"] ELSE FALSE
      /\ Last(stack, "trustProxyResolution", FALSE) = IF HasTrust THEN cfg["trustProxyResolution"] ELSE FALSE
  BY <1>1, MergedField
<1>3. /\ HasList => cfg["allowedPrivateCIDRs"] # Unset /\ cfg["allowedPrivateCIDRs"] \in SUBSET SUBSET Native
      /\ HasFlag => cfg["allowPrivateIPs"] \in BOOLEAN
      /\ HasTrust => cfg["trustProxyResolution"] \in BOOLEAN
  <2>1. /\ Given("allowedPrivateCIDRs", cfg["allowedPrivateCIDRs"]) => cfg["allowedPrivateCIDRs"] # Unset
        /\ Given("allowPrivateIPs", cfg["allowPrivateIPs"]) => cfg["allowPrivateIPs"] # Unset
        /\ Given("trustProxyResolution", cfg["trustProxyResolution"]) => cfg["trustProxyResolution"] # Unset
    BY DEF Given, Number
  <2>2. cfg # Absent =>
          /\ cfg["allowedPrivateCIDRs"] \in {Unset} \cup SUBSET ((SUBSET Native) \cup {Malformed})
          /\ {cfg["allowPrivateIPs"], cfg["trustProxyResolution"]} \subseteq BOOLEAN \cup {Unset}
    BY MergedTypes
  <2>3. HasList => Malformed \notin cfg["allowedPrivateCIDRs"]
    BY DEF Usable
  <2> HIDE DEF cfg
  <2>4. ASSUME HasList
        PROVE  cfg["allowedPrivateCIDRs"] # Unset /\ cfg["allowedPrivateCIDRs"] \in SUBSET SUBSET Native
    <3>1. cfg["allowedPrivateCIDRs"] \subseteq (SUBSET Native) \cup {Malformed}
      BY <2>1, <2>2, <2>4
    <3>2. cfg["allowedPrivateCIDRs"] \subseteq SUBSET Native
      BY <2>3, <2>4, <3>1
    <3> QED
      BY <2>1, <2>4, <3>2
  <2>5. HasFlag => cfg["allowPrivateIPs"] \in BOOLEAN
    BY <2>1, <2>2
  <2>6. HasTrust => cfg["trustProxyResolution"] \in BOOLEAN
    BY <2>1, <2>2
  <2> QED
    BY <2>4, <2>5, <2>6
<1>4. Setting(cfg, "allowPrivateIPs") = IF HasFlag THEN cfg["allowPrivateIPs"] ELSE FALSE
  BY StackAssumption DEF Setting
<1> HIDE DEF cfg
<1>5. Deref(Chosen(cfg)) =
          [allowPrivate |-> ~ HasList /\ HasFlag /\ cfg["allowPrivateIPs"],
           allowed |-> IF HasList THEN cfg["allowedPrivateCIDRs"] ELSE {},
           trust |-> FALSE, resolver |-> DefaultResolver]
  BY <1>3, <1>4 DEF Chosen, Deref, Own, Shared, NewIPPolicy, AllowAllPrivateIPs
<1>6. AskedFor(stack) =
          [allowPrivate |-> ~ HasList /\ HasFlag /\ cfg["allowPrivateIPs"],
           allowed |-> IF HasList THEN cfg["allowedPrivateCIDRs"] ELSE {},
           trust |-> HasTrust /\ cfg["trustProxyResolution"], resolver |-> DefaultResolver]
  BY <1>2, <1>3 DEF AskedFor
<1>7. Effective(cfg).default = shared
  BY DEF Effective, WithTrust
<1>8. Deref(Effective(cfg).policy) = AskedFor(stack)
  <2>1. CASE HasTrust
    <3>1. Deref(Effective(cfg).policy) = [Deref(Chosen(cfg)) EXCEPT !.trust = cfg["trustProxyResolution"]]
      BY <2>1 DEF Effective, WithTrust, Deref, Own, Shared
    <3> QED
      BY <1>3, <1>5, <1>6, <2>1, <3>1
  <2>2. CASE ~ HasTrust
    <3>1. Deref(Effective(cfg).policy) = Deref(Chosen(cfg))
      BY <2>2 DEF Effective
    <3> QED
      BY <1>5, <1>6, <2>2, <3>1
  <2> QED
    BY <2>1, <2>2
<1>9. AskedFor(stack) \in Policy
  <2>1. (IF HasList THEN cfg["allowedPrivateCIDRs"] ELSE {}) \in SUBSET SUBSET Native
    BY <1>3
  <2>2. DefaultResolver \in Resolver
    BY PolicyAssumption
  <2> HIDE DEF HasList, HasFlag, HasTrust
  <2> QED
    BY <1>6, <2>1, <2>2 DEF Policy
<1> QED
  BY <1>7, <1>8, <1>9 DEF cfg

----------------------------------------------------------------------------
(* The invariant.  What a client is handed is right because what a cache    *)
(* keeps is: an entry suits every policy with the fingerprint in its key,   *)
(* those of clients not yet built included.                                 *)

\* A response suits a policy.
Suits(p, r) ==
    /\ \A a \in r.from : Reachable(p, a)
    /\ r.unresolved => p.trust
    /\ r.via \subseteq {p.resolver}

CallRecord == [stage : {"idle", "send", "answered", "refused", "failed"},
               url : Target \cup {Nowhere}, hops : Nat, answer : Answer, resp : Response]

Shape ==
    /\ shared = NewIPPolicy({})
    /\ DOMAIN client = Client
    /\ asked \in [Client -> Policy]
    /\ call \in [Client -> CallRecord]
    /\ builds \in 0 .. MaxBuilds /\ calls \in 0 .. MaxCalls

\* A client has exactly the policy that was asked for.
Built == \A c \in Client : client[c] # NoClient =>
    client[c].kind \in Kind /\ client[c].maxRedirects \in Int /\ PolicyOf(c) = asked[c]

\* The request of a call: its client, its place in the chain, its response.
InOrder(c, r) ==
    /\ r.stage # "idle" => client[c] # NoClient /\ r.hops < Limit(c)
    /\ r.stage = "answered" => Suits(asked[c], r.resp)
    /\ r.stage = "refused" => Forbidden(c, r.url, r.answer)

Calls == \A c \in Client : InOrder(c, call[c])

Kept == \A e \in store :
    /\ e.resp \in Response /\ e.place # <<"none">>
    /\ \A p \in Policy : Fingerprint(p) = e.policy => Suits(p, e.resp)

ClientsInv == Shape /\ Built /\ Calls /\ Kept

----------------------------------------------------------------------------
(* Judging a URL.                                                           *)

LEMMA NowhereIsURL == Nowhere \in URL
BY DEF Nowhere, URL, Host

LEMMA LiteralHost ==
    ASSUME NEW u \in URL, Literal(u)
    PROVE  u.host[2] \in Address
BY DEF URL, Host, Literal

LEMMA AddressesAreAddresses ==
    ASSUME NEW u \in URL, NEW answer \in Answer
    PROVE  Addresses(u, answer) \in SUBSET Address
<1>1. CASE Literal(u)
  BY <1>1, LiteralHost DEF Addresses
<1>2. CASE ~ Literal(u)
  BY <1>2 DEF Addresses, Answer
<1> QED
  BY <1>1, <1>2

\* A URL that ValidateURL refuses is forbidden, whatever its name resolves to.
LEMMA RefusedURLIsForbidden ==
    ASSUME NEW c \in Client, NEW u \in URL, NEW answer, asked[c] \in Policy,
           ~ ValidateURL(asked[c], u)
    PROVE  Forbidden(c, u, answer)
<1>1. CASE ~ u.web \/ u.host[1] \in {"none", "numeric"} \/ Named(u, MetadataName)
  BY <1>1 DEF Forbidden
<1>2. CASE Named(u, LoopbackName) /\ ~ AllowsLoopbackByName(asked[c])
  <2>1. ASSUME NEW n \in Loopback PROVE ~ Permits(asked[c], n)
    <3>1. NativeOf(n) \in Address
      BY PolicyAssumption DEF NativeOf, Address
    <3>2. ~ CheckIP(asked[c], NativeOf(n))
      BY <1>2 DEF AllowsLoopbackByName
    <3>3. ~ Reachable(asked[c], NativeOf(n))
      BY <3>1, <3>2, CheckIPIsExact
    <3> QED
      BY <3>3 DEF Reachable, Reach, NativeOf
  <2> QED
    BY <1>2, <2>1 DEF Forbidden
<1>3. CASE Literal(u) /\ ~ CheckIP(asked[c], u.host[2])
  <2>1. ~ Reachable(asked[c], u.host[2])
    BY <1>3, LiteralHost, CheckIPIsExact
  <2>2. Addresses(u, answer) = {u.host[2]}
    BY <1>3 DEF Addresses
  <2> QED
    BY <2>1, <2>2 DEF Forbidden
<1> QED
  BY <1>1, <1>2, <1>3 DEF ValidateURL

\* Whatever comes back from a fetch suits the policy it was fetched under.
LEMMA FetchedSuits ==
    ASSUME NEW c \in Client, NEW u \in URL, NEW answer \in Answer, asked[c] \in Policy,
           PolicyOf(c) = asked[c], NEW r \in Fetched(c, u, answer), NEW to \in Target \cup {Nowhere}
    PROVE  [r EXCEPT !.to = to] \in Response /\ Suits(asked[c], [r EXCEPT !.to = to])
<1> DEFINE p == asked[c]
           addresses == Addresses(u, answer)
<1>1. addresses \in SUBSET Address
  BY AddressesAreAddresses
<1>2. p.resolver \in Resolver
  BY DEF Policy
<1>3. PICK from \in SUBSET addresses, unresolved \in BOOLEAN, via \in SUBSET {p.resolver} :
        /\ r = [from |-> from, unresolved |-> unresolved, via |-> via, to |-> Nowhere]
        /\ \A a \in from : CheckIP(p, a)
        /\ unresolved => p.trust
  <2>1. CASE client[c].kind = "direct"
    <3>1. PICK a \in addresses : CheckIP(p, a) /\ r = [NoResponse EXCEPT !.from = {a}]
      BY <2>1 DEF Fetched
    <3>2. r = [from |-> {a}, unresolved |-> FALSE, via |-> {}, to |-> Nowhere]
      BY <3>1 DEF NoResponse
    <3> WITNESS {a} \in SUBSET addresses, FALSE \in BOOLEAN, {} \in SUBSET {p.resolver}
    <3> QED
      BY <3>1, <3>2
  <2> DEFINE names == IF Literal(u) THEN {} ELSE {p.resolver}
  <2>2. CASE client[c].kind # "direct" /\ ValidateURLResolved(p, u, answer) = "ok"
    <3>1. r = [from |-> addresses, unresolved |-> FALSE, via |-> names, to |-> Nowhere]
      BY <2>2 DEF Fetched, NoResponse
    <3>2. \A a \in addresses : CheckIP(p, a)
      BY <2>2 DEF ValidateURLResolved, ValidateURL, Addresses, Answer
    <3> QED
      BY <3>1, <3>2
  <2>3. CASE client[c].kind # "direct" /\ ValidateURLResolved(p, u, answer) # "ok"
    <3>1. p.trust /\ r = [from |-> {}, unresolved |-> TRUE, via |-> names, to |-> Nowhere]
      BY <2>3 DEF Fetched, NoResponse
    <3> WITNESS {} \in SUBSET addresses, TRUE \in BOOLEAN, names \in SUBSET {p.resolver}
    <3> QED
      BY <3>1
  <2> QED
    BY <2>1, <2>2, <2>3
<1>4. \A a \in from : Reachable(p, a)
  BY <1>1, <1>3, CheckIPIsExact
<1>5. [r EXCEPT !.to = to] = [from |-> from, unresolved |-> unresolved, via |-> via, to |-> to]
  BY <1>3
<1> QED
  BY <1>1, <1>2, <1>3, <1>4, <1>5 DEF Response, Suits

\* What the transport refuses is forbidden.
LEMMA BlockedIsForbidden ==
    ASSUME NEW c \in Client, NEW u \in URL, NEW answer \in Answer, asked[c] \in Policy,
           PolicyOf(c) = asked[c], Blocked(c, u, answer)
    PROVE  Forbidden(c, u, answer)
<1>1. \A a \in Addresses(u, answer) : CheckIP(asked[c], a) <=> Reachable(asked[c], a)
  BY AddressesAreAddresses, CheckIPIsExact
<1>2. CASE client[c].kind = "direct"
  BY <1>1, <1>2 DEF Blocked, Forbidden
<1>3. CASE client[c].kind # "direct"
  <2>1. ValidateURLResolved(asked[c], u, answer) = "blocked"
    BY <1>3 DEF Blocked
  <2>2. CASE ~ ValidateURL(asked[c], u)
    BY <2>2, RefusedURLIsForbidden
  <2>3. CASE ValidateURL(asked[c], u)
    <3>1. ~ Literal(u) /\ answer[1] = "found" /\ \E a \in answer[2] : ~ CheckIP(asked[c], a)
      BY <2>1, <2>3 DEF ValidateURLResolved, Answer
    <3>2. \E a \in Addresses(u, answer) : ~ Reachable(asked[c], a)
      BY <1>1, <3>1 DEF Addresses
    <3> QED
      BY <1>3, <3>2 DEF Forbidden
  <2> QED
    BY <2>2, <2>3
<1> QED
  BY <1>2, <1>3

----------------------------------------------------------------------------
(* The steps.                                                               *)

LEMMA InvInit == ClientsInit => ClientsInv
<1> SUFFICES ASSUME ClientsInit PROVE ClientsInv
  OBVIOUS
<1>1. NewIPPolicy({}) \in Policy
  BY PolicyAssumption DEF NewIPPolicy, Policy
<1>2. NoCall \in CallRecord
  BY DEF NoCall, CallRecord, NoResponse, Response, Answer
<1>3. Shape
  BY <1>1, <1>2, ClientsAssumption DEF ClientsInit, Shape
<1>4. Built /\ Kept
  BY DEF ClientsInit, Built, Kept
<1>5. Calls
  BY DEF ClientsInit, Calls, InOrder, NoCall
<1> QED
  BY <1>3, <1>4, <1>5 DEF ClientsInv

\* A client is installed: its call is idle, and the policies of the others
\* are what they were.
LEMMA InstallStep ==
    ASSUME ClientsInv, NEW c \in Client, NEW new, NEW wanted \in Policy,
           Install(c, new, wanted), shared' = shared,
           new # NoClient, new.kind \in Kind, new.maxRedirects \in Int,
           Deref(new.policy) = wanted
    PROVE  ClientsInv'
<1> USE DEF ClientsInv
<1>1. Shape'
  BY ClientsAssumption DEF Install, Shape
<1>2. client'[c] = new /\ asked'[c] = wanted
  BY DEF Install, Shape
<1>3. \A d \in Client \ {c} : client'[d] = client[d] /\ asked'[d] = asked[d]
  BY DEF Install, Shape
<1>4. Built'
  <2> SUFFICES ASSUME NEW d \in Client, client'[d] # NoClient
               PROVE  client'[d].kind \in Kind /\ client'[d].maxRedirects \in Int /\ PolicyOf(d)' = asked'[d]
    BY DEF Built
  <2>1. CASE d = c
    BY <1>2, <2>1 DEF PolicyOf, Deref
  <2>2. CASE d # c
    BY <1>3, <2>2 DEF Built, PolicyOf, Deref
  <2> QED
    BY <2>1, <2>2
<1>5. Calls'
  <2> SUFFICES ASSUME NEW d \in Client PROVE InOrder(d, call[d])'
    BY DEF Calls
  <2>1. call'[d] = call[d] /\ InOrder(d, call[d])
    BY DEF Install, Calls
  <2>2. CASE d = c
    BY <2>1, <2>2 DEF Install, InOrder
  <2>3. CASE d # c
    BY <1>3, <2>1, <2>3 DEF InOrder, Limit, Forbidden
  <2> QED
    BY <2>2, <2>3
<1>6. Kept'
  BY DEF Install, Kept
<1> QED
  BY <1>1, <1>4, <1>5, <1>6

LEMMA BuildStep ==
    ASSUME ClientsInv, NEW c \in Client, BuildFromApp(c) \/ BuildDirect(c)
    PROVE  ClientsInv'
<1>1. CASE BuildFromApp(c)
  <2>1. PICK stack \in Stack, kind \in {"direct", "proxied"} :
          LET cfg == MergeAppConfig(stack[1], stack[2]) IN
          /\ Usable(cfg)
          /\ Install(c, [kind |-> kind, policy |-> Effective(cfg).policy, place |-> Place(c, cfg),
                         prefix |-> Setting(cfg, "cacheKeyPrefix"), maxRedirects |-> DefaultMaxRedirects],
                     AskedFor(stack))
          /\ shared' = Effective(cfg).default
    BY <1>1 DEF BuildFromApp
  <2> DEFINE cfg == MergeAppConfig(stack[1], stack[2])
             new == [kind |-> kind, policy |-> Effective(cfg).policy, place |-> Place(c, cfg),
                     prefix |-> Setting(cfg, "cacheKeyPrefix"), maxRedirects |-> DefaultMaxRedirects]
  <2>2. /\ Effective(cfg).default = shared
        /\ Deref(Effective(cfg).policy) = AskedFor(stack)
        /\ AskedFor(stack) \in Policy
    BY <2>1, BuiltAsAsked DEF ClientsInv, Shape
  <2>3. new # NoClient /\ new.kind \in Kind /\ new.maxRedirects \in Int
    BY ClientsAssumption DEF NoClient, Kind
  <2>4. Install(c, new, AskedFor(stack)) /\ shared' = shared
    BY <2>1, <2>2
  <2>5. Deref(new.policy) = AskedFor(stack)
    BY <2>2
  <2> HIDE DEF new, cfg
  <2> QED
    BY <2>2, <2>3, <2>4, <2>5, InstallStep
<1>2. CASE BuildDirect(c)
  <2>1. PICK p \in ConfigPolicy, kind \in Kind, n \in MaxRedirectsGiven :
          Install(c, [kind |-> kind, policy |-> Own(p), place |-> Place(c, Absent),
                      prefix |-> Default["cacheKeyPrefix"], maxRedirects |-> n], p)
    BY <1>2 DEF BuildDirect
  <2> DEFINE new == [kind |-> kind, policy |-> Own(p), place |-> Place(c, Absent),
                     prefix |-> Default["cacheKeyPrefix"], maxRedirects |-> n]
  <2>2. new # NoClient /\ new.kind \in Kind /\ new.maxRedirects \in Int /\ p \in Policy
    BY ClientsAssumption DEF NoClient, Kind
  <2>3. Deref(new.policy) = p
    BY DEF Deref, Own, Shared
  <2>4. shared' = shared
    BY <1>2 DEF BuildDirect
  <2>5. Install(c, new, p)
    BY <2>1
  <2> HIDE DEF new
  <2> QED
    BY <2>2, <2>3, <2>4, <2>5, InstallStep
<1> QED
  BY <1>1, <1>2

\* A call moves on: only what it moves to matters, and what is stored.
LEMMA CallStep ==
    ASSUME ClientsInv, NEW c \in Client, NEW r \in CallRecord,
           UNCHANGED <<shared, client, asked, builds>>,
           call' = [call EXCEPT ![c] = r], InOrder(c, r),
           calls' \in 0 .. MaxCalls, Kept'
    PROVE  ClientsInv'
<1> USE DEF ClientsInv
<1>1. Shape' /\ Built'
  BY DEF Shape, Built, PolicyOf, Deref
<1>2. ASSUME NEW d \in Client PROVE InOrder(d, call[d])'
  <2>1. InOrder(d, call'[d])
    BY DEF Shape, Calls
  <2> QED
    BY <2>1 DEF InOrder, Limit, Forbidden
<1> QED
  BY <1>1, <1>2 DEF Calls

\* A request that is begun or goes on after a redirect.
LEMMA PutStep ==
    ASSUME ClientsInv, NEW c \in Client, NEW u \in Target, NEW hops \in Nat,
           client[c] # NoClient, hops < Limit(c),
           Put(c, IF ValidateURL(PolicyOf(c), u) THEN "send" ELSE "refused", u, hops),
           UNCHANGED <<shared, client, asked, store, builds>>, calls' \in 0 .. MaxCalls
    PROVE  ClientsInv'
<1> DEFINE r == [NoCall EXCEPT !.stage = IF ValidateURL(PolicyOf(c), u) THEN "send" ELSE "refused",
                               !.url = u, !.hops = hops]
<1>1. /\ r \in CallRecord /\ r.url = u /\ r.hops = hops
      /\ r.stage = IF ValidateURL(PolicyOf(c), u) THEN "send" ELSE "refused"
  BY DEF NoCall, CallRecord, NoResponse, Response, Answer
<1>2. call' = [call EXCEPT ![c] = r]
  BY DEF Put
<1> HIDE DEF r
<1>3. asked[c] \in Policy /\ PolicyOf(c) = asked[c] /\ u \in URL
  BY ClientsAssumption DEF ClientsInv, Shape, Built
<1>4. InOrder(c, r)
  BY <1>1, <1>3, RefusedURLIsForbidden DEF InOrder
<1>5. Kept'
  BY DEF ClientsInv, Kept
<1> QED
  BY <1>1, <1>2, <1>4, <1>5, CallStep

LEMMA DoStep ==
    ASSUME ClientsInv, NEW c \in Client, Do(c)
    PROVE  ClientsInv'
<1>1. client[c] # NoClient /\ client[c].maxRedirects \in Int
  BY DEF Do, ClientsInv, Built
<1>2. 0 < Limit(c)
  BY <1>1, ClientsAssumption DEF Limit
<1>3. PICK u \in Target : Put(c, IF ValidateURL(PolicyOf(c), u) THEN "send" ELSE "refused", u, 0)
  BY DEF Do
<1>4. calls' \in 0 .. MaxCalls
  BY ClientsAssumption DEF Do, ClientsInv, Shape
<1> QED
  BY <1>1, <1>2, <1>3, <1>4, PutStep DEF Do

\* A redirect stays within the limit and is judged like a request.
LEMMA FollowStep ==
    ASSUME ClientsInv, NEW c \in Client, Follow(c)
    PROVE  ClientsInv'
<1>1. call[c] \in CallRecord /\ client[c] # NoClient /\ client[c].maxRedirects \in Int
  BY DEF Follow, ClientsInv, Shape, Calls, InOrder, Built
<1>2. Limit(c) \in Int
  BY <1>1, ClientsAssumption DEF Limit
<1>3. calls' \in 0 .. MaxCalls /\ Kept'
  BY DEF Follow, ClientsInv, Shape, Kept
<1>4. CASE TooMany(c, call[c].hops + 1)
  <2> DEFINE r == [call[c] EXCEPT !.stage = "failed"]
  <2>1. r \in CallRecord /\ InOrder(c, r)
    BY <1>1 DEF CallRecord, InOrder, ClientsInv, Calls, Follow
  <2>2. call' = [call EXCEPT ![c] = r]
    BY <1>4 DEF Follow
  <2> HIDE DEF r
  <2> QED
    BY <1>3, <2>1, <2>2, CallStep DEF Follow
<1>5. CASE ~ TooMany(c, call[c].hops + 1)
  <2>1. call[c].resp.to \in Target /\ call[c].hops + 1 \in Nat
    BY <1>1 DEF Follow, CallRecord, Response
  <2>2. call[c].hops + 1 < Limit(c)
    BY <1>2, <1>5, <2>1 DEF TooMany
  <2>3. Put(c, IF ValidateURL(PolicyOf(c), call[c].resp.to) THEN "send" ELSE "refused",
            call[c].resp.to, call[c].hops + 1)
    BY <1>5 DEF Follow
  <2> QED
    BY <1>1, <1>3, <2>1, <2>2, <2>3, PutStep DEF Follow
<1> QED
  BY <1>4, <1>5

\* An entry found under the key of a client suits the client's policy.
LEMMA HitStep ==
    ASSUME ClientsInv, NEW c \in Client, Hit(c)
    PROVE  ClientsInv'
<1>1. PICK e \in Under(Key(c, call[c].url)) : Answered(c, e.resp)
  BY DEF Hit
<1>2. e \in store /\ e.policy = Fingerprint(PolicyOf(c))
  BY <1>1 DEF Under, Entry, Key
<1>3. call[c] \in CallRecord /\ call[c].stage = "send" /\ client[c] # NoClient /\ asked[c] \in Policy
  BY DEF Hit, ClientsInv, Shape, Calls, InOrder
<1>4. e.resp \in Response /\ Suits(asked[c], e.resp)
  BY <1>2, <1>3 DEF ClientsInv, Built, Kept
<1> DEFINE r == [call[c] EXCEPT !.stage = "answered", !.resp = e.resp]
<1>5. r \in CallRecord /\ InOrder(c, r)
  BY <1>3, <1>4 DEF CallRecord, InOrder, ClientsInv, Calls
<1>6. call' = [call EXCEPT ![c] = r]
  BY <1>1 DEF Answered, ClientsInv, Shape
<1>7. calls' \in 0 .. MaxCalls /\ Kept'
  BY DEF Hit, ClientsInv, Shape, Kept
<1> HIDE DEF r
<1> QED
  BY <1>5, <1>6, <1>7, CallStep DEF Hit

\* What is fetched suits the policy of the client, hence every policy with its
\* fingerprint, and may be kept for all of them.
LEMMA FetchStep ==
    ASSUME ClientsInv, NEW c \in Client, Fetch(c)
    PROVE  ClientsInv'
<1>1. /\ call[c] \in CallRecord /\ call[c].stage = "send" /\ client[c] # NoClient
      /\ call[c].hops < Limit(c) /\ asked[c] \in Policy /\ PolicyOf(c) = asked[c]
  BY DEF Fetch, ClientsInv, Shape, Calls, InOrder, Built
<1>2. call[c].url \in URL
  BY <1>1, ClientsAssumption, NowhereIsURL DEF CallRecord
<1>3. calls' \in 0 .. MaxCalls
  BY DEF Fetch, ClientsInv, Shape
<1>4. ASSUME NEW answer \in Lookup, NEW r \in Fetched(c, call[c].url, answer),
             NEW to \in Leads(call[c].url), Answered(c, [r EXCEPT !.to = to]),
             \/ UNCHANGED store
             \/ LET k == Key(c, call[c].url) IN
                /\ k.place # <<"none">>
                /\ store' = (store \ Under(k)) \cup {Entry(k, [r EXCEPT !.to = to])}
      PROVE  ClientsInv'
  <2> DEFINE response == [r EXCEPT !.to = to]
             k == Key(c, call[c].url)
             next == [call[c] EXCEPT !.stage = "answered", !.resp = response]
  <2>1. response \in Response /\ Suits(asked[c], response)
    BY <1>1, <1>2, ClientsAssumption, FetchedSuits DEF Leads
  <2>2. k.policy = Fingerprint(PolicyOf(c))
    BY DEF Key
  <2>3. /\ Answered(c, response)
        /\ \/ UNCHANGED store
           \/ k.place # <<"none">> /\ store' = (store \ Under(k)) \cup {Entry(k, response)}
    BY <1>4
  <2> HIDE DEF response, k
  <2>4. next \in CallRecord /\ InOrder(c, next)
    <3>1. next \in CallRecord
      BY <1>1, <2>1 DEF CallRecord
    <3>2. next.stage = "answered" /\ next.resp = response /\ next.hops = call[c].hops
      BY <1>1 DEF CallRecord
    <3> HIDE DEF next
    <3> QED
      BY <1>1, <2>1, <3>1, <3>2 DEF InOrder
  <2>5. call' = [call EXCEPT ![c] = next]
    BY <2>3 DEF Answered, ClientsInv, Shape
  <2>6. Kept'
    <3>1. ASSUME NEW p \in Policy, Fingerprint(p) = k.policy PROVE Suits(p, response)
      BY <1>1, <2>1, <2>2, <3>1, FingerprintDecides DEF Suits
    <3>2. Entry(k, response).place = k.place /\ Entry(k, response).resp = response
          /\ Entry(k, response).policy = k.policy
      BY DEF Entry
    <3>3. \/ store' \subseteq store
          \/ store' \subseteq store \cup {Entry(k, response)} /\ k.place # <<"none">>
      BY <2>3
    <3> SUFFICES ASSUME NEW e \in store'
                 PROVE  /\ e.resp \in Response /\ e.place # <<"none">>
                        /\ \A p \in Policy : Fingerprint(p) = e.policy => Suits(p, e.resp)
      BY DEF Kept
    <3>4. CASE e \in store
      BY <3>4 DEF ClientsInv, Kept
    <3>5. CASE e \notin store
      <4>1. e = Entry(k, response) /\ k.place # <<"none">>
        BY <3>3, <3>5
      <4> QED
        BY <2>1, <3>1, <3>2, <4>1
    <3> QED
      BY <3>4, <3>5
  <2> HIDE DEF next
  <2> QED
    BY <1>3, <2>4, <2>5, <2>6, CallStep DEF Fetch
<1>5. ASSUME NEW answer \in Lookup, Blocked(c, call[c].url, answer), UNCHANGED store,
             call' = [call EXCEPT ![c].stage = "refused", ![c].answer = answer]
      PROVE  ClientsInv'
  <2> DEFINE next == [call[c] EXCEPT !.stage = "refused", !.answer = answer]
  <2>1. answer \in Answer
    BY ClientsAssumption
  <2>2. Forbidden(c, call[c].url, answer)
    BY <1>1, <1>2, <1>5, <2>1, BlockedIsForbidden
  <2>3. next \in CallRecord /\ InOrder(c, next)
    BY <1>1, <2>1, <2>2 DEF CallRecord, InOrder
  <2>4. call' = [call EXCEPT ![c] = next]
    BY <1>5 DEF ClientsInv, Shape
  <2>5. Kept'
    BY <1>5 DEF ClientsInv, Kept
  <2> HIDE DEF next
  <2> QED
    BY <1>3, <2>3, <2>4, <2>5, CallStep DEF Fetch
<1> QED
  BY <1>4, <1>5 DEF Fetch

LEMMA EndStep ==
    ASSUME ClientsInv, NEW c \in Client, Fail(c) \/ Return(c)
    PROVE  ClientsInv'
<1>1. calls' \in 0 .. MaxCalls /\ Kept' /\ UNCHANGED <<shared, client, asked, builds>>
  BY DEF Fail, Return, ClientsInv, Shape, Kept
<1>2. CASE Fail(c)
  <2> DEFINE next == [call[c] EXCEPT !.stage = "failed"]
  <2>1. call[c] \in CallRecord /\ InOrder(c, call[c])
    BY DEF ClientsInv, Shape, Calls
  <2>2. next \in CallRecord /\ InOrder(c, next)
    BY <1>2, <2>1 DEF CallRecord, InOrder, Fail
  <2>3. call' = [call EXCEPT ![c] = next]
    BY <1>2 DEF Fail
  <2> HIDE DEF next
  <2> QED
    BY <1>1, <2>2, <2>3, CallStep
<1>3. CASE Return(c)
  <2>1. NoCall \in CallRecord /\ InOrder(c, NoCall)
    BY DEF NoCall, CallRecord, NoResponse, Response, Answer, InOrder
  <2>2. call' = [call EXCEPT ![c] = NoCall]
    BY <1>3 DEF Return
  <2> QED
    BY <1>1, <2>1, <2>2, CallStep
<1> QED
  BY <1>2, <1>3

\* A cache loses entries.
LEMMA LoseStep ==
    ASSUME ClientsInv, store' \subseteq store,
           UNCHANGED <<shared, client, asked, call, builds, calls>>
    PROVE  ClientsInv'
<1> USE DEF ClientsInv
<1>1. Shape' /\ Built'
  BY DEF Shape, Built, PolicyOf, Deref
<1>2. ASSUME NEW c \in Client PROVE InOrder(c, call[c])'
  BY DEF Calls, InOrder, Limit, Forbidden
<1>3. Kept'
  BY DEF Kept
<1> QED
  BY <1>1, <1>2, <1>3 DEF Calls

LEMMA InvNext == ClientsInv /\ [ClientsNext]_clientVars => ClientsInv'
<1> SUFFICES ASSUME ClientsInv, [ClientsNext]_clientVars PROVE ClientsInv'
  OBVIOUS
<1>1. ASSUME NEW c \in Client, BuildFromApp(c) \/ BuildDirect(c) PROVE ClientsInv'
  BY <1>1, BuildStep
<1>2. ASSUME NEW c \in Client, ClearCache(c) PROVE ClientsInv'
  BY <1>2, LoseStep DEF ClearCache
<1>3. ASSUME NEW c \in Client, Do(c) PROVE ClientsInv'
  BY <1>3, DoStep
<1>4. ASSUME NEW c \in Client, Answering(c) PROVE ClientsInv'
  BY <1>4, HitStep, FetchStep, EndStep, FollowStep DEF Answering
<1>5. CASE DeleteCacheEntry
  BY <1>5, LoseStep DEF DeleteCacheEntry
<1>6. CASE UNCHANGED clientVars
  BY <1>6, LoseStep DEF clientVars
<1> QED
  BY <1>1, <1>2, <1>3, <1>4, <1>5, <1>6 DEF ClientsNext

LEMMA InvHolds == ClientsSpec => []ClientsInv
<1>1. ClientsInit => ClientsInv
  BY InvInit
<1>2. ClientsInv /\ [ClientsNext]_clientVars => ClientsInv'
  BY InvNext
<1> QED
  BY <1>1, <1>2, PTL DEF ClientsSpec

----------------------------------------------------------------------------
(* What follows for every program.                                          *)

\* Types, and redirects that stay within the limit of their client
\* (client.go:263-272).
THEOREM TypesHold == ClientsSpec => []ClientsTypeOK
<1>1. ClientsInv => ClientsTypeOK
  <2> SUFFICES ASSUME ClientsInv PROVE ClientsTypeOK
    OBVIOUS
  <2> USE DEF ClientsInv
  <2>1. shared \in Policy /\ asked \in [Client -> Policy]
    BY PolicyAssumption DEF Shape, NewIPPolicy, Policy
  <2>2. \A c \in Client : client[c] # NoClient => client[c].kind \in Kind /\ PolicyOf(c) \in Policy
    BY <2>1 DEF Built
  <2>3. \A e \in store : e.resp \in Response /\ e.place # <<"none">>
    BY DEF Kept
  <2>4. ASSUME NEW c \in Client
        PROVE  /\ call[c].stage \in {"idle", "send", "answered", "refused", "failed"}
               /\ call[c].resp \in Response
               /\ call[c].stage # "idle" => call[c].hops \in 0 .. Limit(c) - 1
    <3>1. call[c] \in CallRecord
      BY DEF Shape
    <3>2. call[c].stage # "idle" => call[c].hops < Limit(c) /\ Limit(c) \in Int
      BY ClientsAssumption DEF Calls, InOrder, Built, Limit
    <3> QED
      BY <3>1, <3>2 DEF CallRecord
  <2> QED
    BY <2>1, <2>2, <2>3, <2>4 DEF ClientsTypeOK, Shape
<1> QED
  BY <1>1, InvHolds, PTL

\* Every client has the policy its layers ask for, however many others are
\* built, in any order (appconfig.go:178-188).
THEOREM PoliciesAreAsAsked == ClientsSpec => []ConfigIsHonoured
<1>1. ClientsInv => ConfigIsHonoured
  BY DEF ClientsInv, Built, ConfigIsHonoured
<1> QED
  BY <1>1, InvHolds, PTL

\* Nothing a client is handed, from any cache, comes from where its own policy
\* does not lead (ssrf.go:506-514, client.go:711).
THEOREM CachesKeepPoliciesApart == ClientsSpec => []ServedIsJudged
<1>1. ClientsInv => ServedIsJudged
  BY DEF ClientsInv, Calls, InOrder, Suits, ServedIsJudged
<1> QED
  BY <1>1, InvHolds, PTL

\* Nothing is refused that the policy permits, whichever way the request goes
\* (ssrf.go:351).
THEOREM RefusalsAreJustified == ClientsSpec => []RefusedForCause
<1>1. ClientsInv => RefusedForCause
  BY DEF ClientsInv, Calls, InOrder, RefusedForCause
<1> QED
  BY <1>1, InvHolds, PTL
=============================================================================

------------------------------ MODULE IPPolicy ------------------------------
(***************************************************************************)
(* The IP policy (ssrf.go): which addresses and URLs a client may reach.   *)
(* No state: a policy is a value and every check a function of it.         *)
(*                                                                         *)
(* An address is a kind of native address and the form it is written in.   *)
(* Kinds stand for the parts into which the address blocks of the code and *)
(* of a policy cut the address space.  URL parsing is left out: a URL is   *)
(* whether its scheme is http or https, and what its host is.              *)
(***************************************************************************)
CONSTANTS IPv4, IPv6,       \* kinds of native addresses
          Metadata,         \* those of metadataCIDRs
          Private,          \* those of privateCIDRs
          Loopback,         \* loopbackIPs: 127.0.0.1 and ::1
          Name,             \* host names
          LoopbackName,     \* those of loopbackHostnames
          MetadataName,     \* those of metadataHostnames
          Resolver,         \* resolvers, told apart by resolverIdentity
          DefaultResolver   \* the nil Resolver

Native == IPv4 \cup IPv6

ASSUME PolicyAssumption ==
    /\ IPv4 \cap IPv6 = {}
    /\ Metadata \cup Private \cup Loopback \subseteq Native
    /\ Metadata \cap IPv4 # {}
    /\ LoopbackName \cup MetadataName \subseteq Name
    /\ DefaultResolver \in Resolver

\* IPv6 encodings of an IPv4 address: three that embeddedIPv4 takes apart,
\* ::a.b.c.d without :: and ::1, and the prefix of nonDecodableCIDRs.
Decodable == {"6to4", "nat64", "compatible"}

Address == [form : {"native"}, of : Native]
           \cup [form : {"mapped", "nat64local"} \cup Decodable, of : IPv4]
           \cup [form : {"malformed"}, of : {"bytes"}]

NativeOf(n) == [form |-> "native", of |-> n]

\* A nil entry of AllowedCIDRs is the block {}: it contains nothing.
Policy == [allowPrivate : BOOLEAN, allowed : SUBSET SUBSET Native,
           trust : BOOLEAN, resolver : Resolver]

NewIPPolicy(blocks) == [allowPrivate |-> FALSE, allowed |-> blocks,
                        trust |-> FALSE, resolver |-> DefaultResolver]
AllowAllPrivateIPs == [NewIPPolicy({}) EXCEPT !.allowPrivate = TRUE]

----------------------------------------------------------------------------
(* CheckIP.                                                                 *)

\* net.IPNet.Contains, for the blocks CheckIP asks about: To4 turns a mapped
\* address into the native one; no encoding lies in a private block.
InBlock(a, block) == a.form \in {"native", "mapped"} /\ a.of \in block

\* embeddedIPv4: at most one address.
Embedded(a) == IF a.form \in Decodable THEN {NativeOf(a.of)} ELSE {}

\* No policy allows these.
NonExemptible(a) ==
    a.form \in {"malformed", "nat64local"} \/ InBlock(a, Metadata)

\* IPPolicy.allows.
Allows(p, a) == \E block \in p.allowed : InBlock(a, block)

\* The recursive call of CheckIP is on a native address, so it is the last.
CheckIP(p, a) ==
    \A b \in {a} \cup Embedded(a) :
        ~ NonExemptible(b) /\ (p.allowPrivate \/ ~ InBlock(b, Private) \/ Allows(p, b))

----------------------------------------------------------------------------
(* URLs.                                                                    *)

\* "numeric" is a spelling nonCanonicalIPPattern matches, "none" no host.
Host == ({"name"} \X Name) \cup ({"literal"} \X Address) \cup {<<"numeric">>, <<"none">>}
URL == [web : BOOLEAN, host : Host]

Literal(u) == u.host[1] = "literal"
Named(u, names) == u.host[1] = "name" /\ u.host[2] \in names

\* Fault: localhost is taken to have all of its addresses.
AllowsEveryLoopback(p) == \A n \in Loopback : CheckIP(p, NativeOf(n))

\* allowsLoopbackByName: one address of localhost suffices here, and the one
\* that is dialed is judged again.
AllowsLoopbackByName(p) == \E n \in Loopback : CheckIP(p, NativeOf(n))

ValidateURL(p, u) ==
    /\ u.web
    /\ u.host[1] \notin {"none", "numeric"}
    /\ ~ Named(u, MetadataName)
    /\ Named(u, LoopbackName) => AllowsLoopbackByName(p)
    /\ Literal(u) => CheckIP(p, u.host[2])

\* What a resolver answers: addresses, IsNotFound, or another failure.
Answer == ({"found"} \X SUBSET Address) \cup {<<"notFound">>, <<"failure">>}

\* ValidateURLResolved: a literal is judged already, a name by every address
\* of a non-empty answer.
ValidateURLResolved(p, u, answer) ==
    IF ~ ValidateURL(p, u) THEN "blocked"
    ELSE IF Literal(u) THEN "ok"
    ELSE IF answer[1] # "found" THEN answer[1]
    ELSE IF answer[2] = {} THEN "failure"
    ELSE IF \A a \in answer[2] : CheckIP(p, a) THEN "ok" ELSE "blocked"

----------------------------------------------------------------------------
(* The identity of a policy in cache keys.                                  *)

\* Fault: only the address rules count as decisions.
AddressRules(p) == <<p.allowPrivate, p.allowed \ {{}}>>

\* fingerprint, without the digest: nil blocks are skipped, the rest sorted.
Fingerprint(p) == <<p.allowPrivate, p.trust, p.resolver, p.allowed \ {{}}>>

----------------------------------------------------------------------------
(* What the documentation says, in terms of where a packet ends up.         *)

\* The native addresses an address can lead to: at 64:ff9b:1::/48 the place of
\* the IPv4 address is unknown, so it can be any.
Reach(a) == IF a.form = "nat64local" THEN IPv4 ELSE {a.of}

\* "Cloud instance-metadata endpoints are never reachable"; of the rest,
\* private ones are when everything private or their block is allowed
\* (IPPolicy, ssrf.go:249-267).
Permits(p, n) == n \notin Metadata /\ (n \in Private => p.allowPrivate \/ n \in UNION p.allowed)

\* All that an address can lead to is permitted.
Reachable(p, a) == a.form # "malformed" /\ \A n \in Reach(a) : Permits(p, n)
=============================================================================

----------------------------- MODULE MCClients -----------------------------
(* The instance of Clients that TLC checks: three native IPv4 kinds (public, *)
(* 127.0.0.1 and a metadata service), one IPv6 kind (::1), two names.        *)
EXTENDS Clients

DefaultLayer == [f \in Field |->
    CASE f \in Number -> 1
      [] f = "enableCache" -> TRUE
      [] f = "cacheType" -> "filesystem"
      [] f = "cacheDir" -> "usercache"
      [] f = "cacheKeyPrefix" -> "httpc:"
      [] OTHER -> FALSE]

Blank == [f \in Field |-> IF f \in Number THEN 0 ELSE Unset]
Only(f, v) == [Blank EXCEPT ![f] = v]
Listed(blocks) == Only("allowedPrivateCIDRs", blocks)

\* Nothing at all, trust on the default policy, an empty list over the
\* deprecated flag, a narrower list whose cache directory cannot be made, a
\* list that cannot be parsed.
Stacks ==
    {<<Absent, Absent>>,
     <<Absent, Only("trustProxyResolution", TRUE)>>,
     <<Only("allowPrivateIPs", TRUE), Listed({})>>,
     <<[Listed({{"lo6"}}) EXCEPT !["cacheDir"] = "readonly"], Absent>>,
     <<Absent, Listed({Malformed})>>}

\* Exceptions for 127.0.0.0/8 and a nil entry, with a resolver of its own.
Policies == {[NewIPPolicy({{"lo4"}, {}}) EXCEPT !.resolver = "own"]}

ByName(n) == [web |-> TRUE, host |-> <<"name", n>>]
Encoded == [web |-> TRUE, host |-> <<"literal", [form |-> "6to4", of |-> "lo4"]>>]
NotWeb == [web |-> FALSE, host |-> <<"name", "example">>]
Targets == {ByName("example"), ByName("localhost"), ByName("metadata"), NotWeb, Encoded}

\* One redirect leads to another host, one to the other spelling of a local
\* address, and back.
Redirects == {<<ByName("example"), ByName("localhost")>>,
              <<ByName("localhost"), Encoded>>, <<Encoded, ByName("localhost")>>}

Answers == {<<"found", {NativeOf("public")}>>,
            <<"found", {NativeOf("lo6"), [form |-> "mapped", of |-> "imds"]}>>,
            <<"notFound">>}

IPv4Kinds == {"public", "lo4", "imds"}
=============================================================================

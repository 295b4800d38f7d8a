----------------------------- MODULE AppConfig -----------------------------
(***************************************************************************)
(* Configuration in layers (appconfig.go): merging two of them, and the    *)
(* client settings one stands for.  A layer gives every field a value,     *)
(* which may be the one that means "not given": 0 or less for a number,    *)
(* Unset (the empty string, a nil pointer, a nil list) for the others.     *)
(* Absent is a nil *AppConfig.                                             *)
(***************************************************************************)
EXTENDS Integers

CONSTANTS Unset,       \* a field that is not given
          Malformed,   \* a text or CIDR that cannot be parsed
          Absent,      \* no configuration at all
          Default      \* DefaultConfig: a value for every field

Duration == {"timeout", "retryWaitMin", "retryWaitMax", "cacheTTL",
             "circuitBreakerOpenTimeout"}
Text     == Duration \cup {"cacheType", "cacheDir", "cacheKeyPrefix"}
Number   == {"retryMax", "maxCacheFileSize", "memoryCacheSize",
             "circuitBreakerMaxFailures", "circuitBreakerHalfOpenMaxRequests",
             "maxResponseBodySize"}
Flag     == {"enableCache", "enableCircuitBreaker", "enableCompression",
             "allowPrivateIPs", "trustProxyResolution"}
Field    == Text \cup Number \cup Flag \cup {"allowedPrivateCIDRs"}

\* A value that overrides: an empty but non-nil list does.
Given(f, v) == IF f \in Number THEN v > 0 ELSE v # Unset

MergeAppConfig(base, override) ==
    IF override = Absent THEN base
    ELSE IF base = Absent THEN override
    ELSE [f \in Field |-> IF Given(f, override[f]) THEN override[f] ELSE base[f]]

----------------------------------------------------------------------------
(* NewClientFromAppConfig.                                                  *)

\* It fails on the first field that cannot be used; which one is a message.
Usable(cfg) ==
    cfg # Absent =>
        /\ \A f \in Duration : cfg[f] # Malformed
        /\ cfg["cacheType"] \in {Unset, "memory", "filesystem"}
        /\ Given("allowedPrivateCIDRs", cfg["allowedPrivateCIDRs"])
             => Malformed \notin cfg["allowedPrivateCIDRs"]

\* Fields the configuration gives, and the default for the others.
Setting(cfg, f) == IF cfg # Absent /\ Given(f, cfg[f]) THEN cfg[f] ELSE Default[f]
=============================================================================

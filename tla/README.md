# A TLA+ model of httpc

httpc is a Go HTTP client library: retries, a per-host circuit breaker, a
filesystem or memory response cache, transparent gzip, an IP policy against
requests to private addresses, hooks and metrics. This directory models the parts
of it that share state between goroutines, survive crashes, or stack conditions
that unit tests reach one at a time. Every definition is translated from the
source; `PROJECT.json` ("map") gives the lines each one stands for.

    tlc -config BreakerRecovery.cfg BreakerRecovery    # one of the runs below
    tlapm FileCacheProofs.tla                          # one of the eight *Proofs

## 1. Inventory

| component | state | operations | meets |
|---|---|---|---|
| circuit breaker (`circuitbreaker.go`) | map of hosts to state, failures, half-open counters, time of the last change; one RWMutex | `allow`, `recordSuccess`, `recordFailure` | called by `Do` before and after a request; calls the metrics sink, mostly after unlocking |
| `Client.Do` (`client.go`) | nothing of its own but the call's locals; an in-flight counter in the metrics sink | `Do`, `handleAuthRetry` | breaker, user hooks, retry loop, body limit |
| retry loop (go-retryablehttp, external) | attempts of a call | `wrapCheckRetryWithMetrics` decides after each | `Do`, the transport chain |
| policy transport (`client.go`) | a marker per round trip, the transport's pool | Proxy hook, `DialContext`, `DialTLSContext`, `checkDialedConn` | net/http's pool and dial goroutines, the verdict cache, the IP policy |
| verdict cache (`client.go`) | `sync.Map`, atomic size, mutex | `check`, `evictIfFull` | Proxy hook, resolver |
| body readers (`client.go`, `compression.go`) | bytes read, the lazy gzip reader and its sticky error | `RoundTrip`, the two `Read`s | the caller's buffers |
| file cache (`filecache.go`) | a directory, an atomic size, hit and miss counters | `Set`, `Get`, `Del`, `Clear`, `CleanExpired`, `Close` | the filesystem, other goroutines, restarts |
| memory cache (`memorycache.go`) | hit and miss counters around an external cache | `Get`, `Set`, `Del` | httpcache |
| cache assembly (`client.go`) | the transport chain | `newCache`, `setupTransport`, `ClearCache`, `WarmCache` | file cache, policy fingerprint |
| IP policy (`ssrf.go`) | a value, and one package-level default that clients share by pointer | `CheckIP`, `ValidateURL`, `ValidateURLResolved`, `fingerprint` | everything that dials or validates, the cache key |
| configuration (`appconfig.go`, `defaults.go`) | layers of optional fields | `MergeAppConfig`, `NewClientFromAppConfig` | `NewClient`, the shared default policy |
| helpers (`helpers.go`) | none | `BuildNamedBackoff`, `BuildStatusCodeCheckRetry` | the retry loop |
| metrics transport | none | one round trip | |

What makes each of them correct:

- *breaker*: the half-open budget, the trip at the threshold, a state machine no
  race can short-cut, and recovery after an outage;
- *Do*: on every way out, bodies closed, the half-open slot given back, the
  in-flight counter restored, the returned response checked;
- *file cache*: whole entries under every race and crash, no leaked temporary
  file, a size that means something, no expired hit;
- *verdict cache*: a hard cap and bounded staleness;
- *policy transport*: no unjudged hop, and no proxy refused;
- *readers*: a limit is never exceeded and never looks like the end;
- *IP policy*: the rules, taken in turn, are the documented one: an address is
  permitted when everything it can lead to is;
- *configuration*: a client has the policy its layers ask for, whoever else is built;
- *cache assembly*: an entry is only handed to clients whose own policy would have
  let them fetch it;
- *redirects*: each hop judged, none refused without cause, and an end to them;
- *backoff*: waits in their range although durations wrap around.

The hard behaviours, with their lines, are listed under "hazards" in
`PROJECT.json`.

## 2. Modules

| module | models | kind |
|---|---|---|
| `CircuitBreaker` | `circuitbreaker.go` and how `Do` drives it | state machine |
| `BreakerContract` | what a breaker promises, without locks, timer or metrics | abstract specification |
| `BreakerRecovery` | the breaker, the duration of calls, and a service that comes back | composition, liveness |
| `CircuitBreakerProofs` | theorems about `CircuitBreaker` | proofs |
| `BreakerRecoveryProofs` | theorems about `BreakerRecovery` | proofs |
| `ClientDo` | `Do` and `handleAuthRetry`, EXTENDS `CircuitBreaker` | composition |
| `CallContract` | what one call of `Do` promises its caller and the service | abstract specification |
| `FileCache` | `filecache.go`, one step per system call | state machine |
| `CacheContract` | what the cache promises the goroutines that share it, without files | abstract specification |
| `VerdictCache` (`MCVerdict`) | `targetVerdictCache`, `validateProxiedTarget` | state machine |
| `DialPolicy` (`MCDialPolicy`) | `policyTransport` over net/http's pool | state machine |
| `BodyReaders` | `limitedReadCloser` over `gzipReadCloser` | state machine |
| `RetryWait` | `BuildNamedBackoff`, used by `ClientDo` | operators |
| `IPPolicy` | `ssrf.go` | operators |
| `AppConfig` | `appconfig.go` | operators |
| `Clients` (`MCClients`) | clients built from configurations, their requests, redirects and caches; EXTENDS `IPPolicy`, `AppConfig` | composition, liveness |
| `ClientDoProofs` | theorems about `ClientDo` and `RetryWait` | proofs |
| `FileCacheProofs`, `VerdictCacheProofs`, `DialPolicyProofs`, `BodyReadersProofs` | theorems about the module they are named after | proofs |
| `ClientsProofs` | theorems about `IPPolicy`, `AppConfig` and `Clients` | proofs |

`MCVerdict` and `MCDialPolicy` only add a symmetry set, `MCClients` gives the
constants of its instance. A definition preceded by a comment that
begins with "Fault:" is no part of any specification: it is a plausible bug, and
`PROJECT.json` ("mutants") says which definition it would replace and which
property then fails.

### CircuitBreaker

A step is one critical section of `cb.mu`, or a call made outside of it. `allow` is
split where the code releases the read lock: `AllowFast` (Closed under the read
lock), `AllowMiss` (anything else; the lock is given up), and then, under the write
lock and on whatever it finds there, `AllowClosed`, `AllowTransition`, `AllowProbe`
or `AllowReject`. `RecordSuccess` and `RecordFailure` are one step each. The
metrics call of a transition is a step of its own (`EmitGauge`), because the code
makes it after the unlock; the one for a new entry happens under the lock and is
part of `GetOrCreate`.

`age` is `time.Since(lastStateChange)`, in ticks and capped at `OpenTimeout`, which
is all the code compares it with. `MaxFailures` and `HalfOpenMaxRequests` are any
integers, since `newCircuitBreaker` does not validate them: a count compared with
">=" after an increment behaves at 0 and below as at 1 (`AtLeastOne`). `Abandon` is
a `Do` that returns without a record, enabled when request hooks may fail
(`HookEffects`); with "rewrite" a hook changes `req.URL`, and the record then names
another host. `probes` and `streak` are ghosts: the admitted requests of the
current half-open period still running, and the failures since the last success.

### BreakerContract

Three states, a budget per half-open period, a streak. `ContractSpec` instantiates
it with the budget as quota minus admissions and the running calls as those in
flight. What a success does to a half-open breaker (count or close) is a choice
there: how many are wanted is the implementation's business.

### ClientDo

One action per stage of `Do`, in the order of the code: `Begin` (validation),
`AskBreaker`, `RunRequestHooks`, `Convert`, then the loop `Send`, `Backoff`,
`GiveUp`, then `Settle` (body limit and record), `RunResponseHooks`, `AuthRetry` and
a second round of the loop. `Settle` is one step because nothing between the limit
and the record is shared but the breaker, and the record is one critical section of
it. `Send` chooses any status and any error, with or without an ended context.
retryablehttp is external and modelled as `Do` uses it: the wrapped `CheckRetry`
decides, bodies are drained before a wait, and exhausted retries give an error or
what the `ErrorHandler` hands back. `Passthrough` is a handler that returns what it
is given (as `retryablehttp.PassthroughErrorHandler` does). `open` counts the bodies
of a call that are not closed. In the second round, which runs inside an
`http.Client`, a response that comes with an error is not handed on.

### CallContract

A call as the service and the caller see it: rounds of at most `Tries` sends, a
response held or not, one renewal of the credentials, one answer. `CallSpec`
instantiates it with a round's sends as `RetryMax + 1` minus the attempts made, and
with the stages of `Do` as idle, working and answered; breaker, hooks, waits and
bodies have no counterpart. A request goes out only when nothing of the one before is
held, and a second round is only begun from a 401 that is held and only once.

### FileCache

A step is one system call or atomic operation, so every interleaving the kernel
allows is a behaviour. A file is its size and modification time. A renamed file
keeps its modification time; a write after the file was unlinked goes nowhere.
`Restart` may come between any two steps and rebuilds the size by a scan, as
`NewFileCache` does. With `Faults` every call of the operating system may fail and
every look at the context may find it ended. The stat that fails counts as size 0,
as in the code. Left out: hit and miss counters, permissions, and the directory walk
of `updateCacheSizeMetric` *inside* the restart, which is one step since no other
goroutine has the cache yet.

### CacheContract

What is kept under each key, and for each call the changes it may still make: one
entry to store for a `Set`, keys to empty for the others. `CacheContractSpec`
instantiates it with the sizes of the files under the keys' names and, for a call in
the middle, what its place in the code leaves to do (`MayOf`). The five operations,
each several system calls, then amount to: every change is one that its call was asked
for, happens in one step and happens once, and a call that fails or dies has made it or
not. It does not say that what an expiry removes is old: between several callers that
is not so (section 5), and `ExpiryTakesExpired` says it for one.

### VerdictCache

The lookup is lock-free, the validation runs outside the mutex, and eviction and
insertion are two steps under it. A caller's `now` is read once, before everything,
so a verdict's life starts at the beginning of the call. `Flip` is the environment
changing what a name stands for. `maxProxiedTargetEntries` and both lifetimes are
constants.

### DialPolicy

`markingTransport` gives each round trip a marker; the Proxy hook sets it; the dial
hooks read it from the context of the round trip *the dial was begun for*. net/http
is external and is given its full freedom: any connection of the same kind may be
used whoever dialed it, a dial may outlive its round trip and its result goes to the
pool, and a request on a broken connection goes through the Proxy hook again.
Assumption: the proxy selector is a function of the request. "unix" and
"unreadable" peers occur only behind a dialer of the caller's.

### BodyReaders

A Read is a set of results: how many bytes and which error. net/http's body and
`gzip.Reader` may give as little as they like and say EOF with the last bytes or
after them, as their contracts allow. The limit of the two readers is the same
number (`MaxResponseBodySize`); a client used through `StandardClient` has only the
inner one (`wrapped` FALSE). Sizes are small numbers: the readers only add, compare
and take minima.

### RetryWait

`BuildNamedBackoff` with durations from `-Half` to `Half - 1`, whose product wraps
around (`Wrap`). In the code `Half` is 2^63; the run takes 2^13, so that the products
of its samples do wrap around within 13 attempts. `ClientDo` also lets its
`CheckRetry` be `BuildStatusCodeCheckRetry`'s (`StatusCheck`, `RetryOn`).

### IPPolicy

An address is a kind of native address and the form it is written in. Kinds are the
parts into which `privateCIDRs`, `metadataCIDRs` and the blocks of the policies cut
the address space: a block is a set of kinds, and nothing else about an address is
asked. Forms are native, IPv4-mapped (which `net.IPNet.Contains` undoes), the three
encodings `embeddedIPv4` takes apart, the prefix it cannot, and bytes that are no
address. A URL is whether its scheme is http or https, and a host: a name, a literal,
a non-canonical number, or nothing. A resolver answers addresses, "no such host" or
another failure.

`Reach`, `Permits` and `Reachable` say what the comment on `IPPolicy`
(ssrf.go:249-267) says, in terms of where a packet ends up, and not how `CheckIP`
goes about it; the properties of `Clients` are stated with them.

### AppConfig

A layer is a function from the 20 fields to values, one of which means "not given":
`Unset` for a string, a pointer or a list (an empty list is given), 0 or less for a
number. `Usable` holds where `NewClientFromAppConfig` returns no error.

### Clients

`BuildFromApp` is `MergeAppConfig`, `NewClientFromAppConfig` and `NewClient`;
`BuildDirect` is `NewClient` with a policy of the program's. A policy is reached by a
pointer: to a value of the client's own, or to `defaultIPPolicy`, the variable
`shared`. `asked` is a ghost: the policy that the layers, read from the top, ask for.
`AskedFor` does not look at the merged configuration.

`Do` judges the URL; `Hit` answers it from the cache without another look; `Fetch`
goes down to a transport of one of three kinds. A plain transport dials any address
the policy lets through (`checkDialedConn`). One with a proxy, and a foreign
`RoundTripper` behind `urlPolicyTransport`, ask `ValidateURLResolved`, the former
going on after "no such host" if the policy says so. Every lookup may answer
something else. Either may be redirected, and `Follow` is `CheckRedirect`. `store`
holds the entries of all caches; an entry has its directory (or its client's memory),
its prefix, its policy's fingerprint and its URL. Whether a response is stored, how
long, and what is evicted is httpcache's choice (`Fetch`, `DeleteCacheEntry`).
A response carries, as ghosts, the addresses that were judged before it was fetched.

An attempt of the retry loop is one `Fetch`; what `Do` does around it is `ClientDo`'s
subject, dials and markers are `DialPolicy`'s, the verdict cache is
`VerdictCache`'s and the files of a cache are `FileCache`'s.
Assumptions: the program does not change a `ClientConfig` or a policy after it made a
client of it (`Do` reads the configuration again for every call, the redirect hook,
the dialer and the cache key do not), and a resolver's identity is its own.

## 3. Runs

| run | instance | shows |
|---|---|---|
| `BreakerRecovery` | 1 host, 3 callers, threshold 2, quota 2, timeout 2 | types; `ProbesWithinQuota`; `FullWaitsForProbe`; `ClosedBelowThreshold`; `JudgedByItsOwn`; `LegalTransitions`; refinement `ContractSpec`; liveness `Recovers` |
| `BreakerGauge` | 1 host, 2 callers | violation: `GaugeAgrees` |
| `ClientDo` | 2 callers, failing hooks, error handler, limit, 401, 1 retry | `NoBodyLeaks`, `ReturnedIsChecked`, `RecordedOnce`, `ConcurrentIsExact`; refinement `CallSpec` |
| `ClientDoLive` | the same with retries by status code, without error handler and failing hooks, with fairness | `FairSpec` (Do drives the breaker as its own module says, fairness included), `HalfOpenIsDecided`, `CallsReturn`; `WaitsAreBounded` |
| `ClientDoWedge` | 1 caller, failing hooks | violation: `HalfOpenIsDecided` |
| `FileCacheRace` | 2 goroutines, 1 key, faults, 1 restart | `EntriesAreWhole`, `TempsAreOwned`, `SizeNeverNegative`; refinement `CacheContractSpec` |
| `FileCacheTurns` | 1 goroutine, 2 keys, 5 calls, 1 restart | `SizeIsNotUnderstated`, `HitsAreFresh`, `ExpiryTakesExpired` |
| `Verdicts` | 3 hosts, 2 callers, cap 2, lifetimes 2 and 1 | `Bounded`, `ChangesTakeEffect` |
| `BodyReaders` | limit 3, bodies 0 to 5, buffers 1, 2, 4 | `EndIsTheEnd`, `WithinLimit`, `RefusalIsFinal` |
| `BodyReadersFit` | the same | violation: `LimitFits` |
| `DialPolicy` | 3 round trips, a TLS dialer of the caller's | `EveryHopIsJudged`, `ProxiesAreReachable` |
| `Clients` | 2 clients, 5 stacks of layers, 5 URLs, 3 answers of DNS | `ServedIsJudged`, `ConfigIsHonoured`, `RefusedForCause`, `RedirectsEnd` |

### Bounds

- *Callers.* A race in `allow` needs one caller per admission and one more to be
  turned away: three for a quota of two. A straggler of an earlier period and a
  probe of the current one are two. The theorems below remove the bound.
- *Threshold, quota and timeout of 2* are the least that tell "first", "not yet
  last" and "last" apart. The clock is not bounded: `age` saturates.
- *ClientDo* shares only the breaker and one counter between callers, so two see
  every kind of interference; one retry tells the first, a repeated and the last
  attempt apart. Nothing in it is bounded but the retries, which the code bounds.
- *FileCache* bounds the calls (`MaxCalls`), the clock (`MaxClock`) and the restarts
  (`MaxCrashes`). Three calls by two goroutines give every pair of overlapping
  operations and one after or before; two ticks against a TTL of one make a file
  young, old but alive, and expired. Once the bounds are used up the instance stops,
  hence `CHECK_DEADLOCK FALSE`.
- *VerdictCache* bounds the clock by `MaxClock`; with two ticks a verdict of either
  kind expires. Three hosts overflow a cap of two.
- *DialPolicy* has no counters; a round trip ends, and with it the instance, hence
  `CHECK_DEADLOCK FALSE`. A round trip that disturbs, one that is disturbed and a
  third whose connection is taken over are three.
- *Clients* bounds the clients built (`MaxBuilds`) and the calls (`MaxCalls`) by two:
  a property that relates clients relates two of them, of which one may replace the
  other in its slot, and one call fills the cache that the next one is answered from.
  The limit of redirects is three (10 in the code), so that a chain has a first hop,
  a second and one too many. Four kinds of native addresses (public, 127.0.0.1,
  ::1, a metadata service) and the encodings of one of them make every rule of
  `CheckIP` decide; the theorems remove these bounds. Once the calls are used up the
  instance stops, hence `CHECK_DEADLOCK FALSE`.
- *RetryWait* (`Half`, `WaitSamples`, `AttemptTop`): samples below and above the
  least duration whose product with 2^10 wraps around, attempts up to 12 against an
  exponent capped at 10.
- *BodyReaders*: limit minus one, limit, limit plus one and plus two, with buffers
  that divide the limit and buffers that do not.

### Fairness

- `FairSpec` (breaker): a call that was admitted is recorded (`Report`) and the
  goroutine that left the lock makes its metrics call. Every attempt of `Do` runs
  under `http.Client.Timeout` and the attempts are bounded. Nothing is assumed of
  `allow` or of new calls. `ClientDoLive` checks this fairness as a property of the
  pipeline, from `DoFairSpec` alone.
- `DoFairSpec`: a call that has begun goes on. Hooks are user code and are taken to
  return; attempts end by their timeouts. Beginning a call and closing a returned
  body are the caller's choice and not fair.
- `ClientsSpec`: a request that has been begun is answered, fails or is followed;
  lookups, dials and exchanges are covered by `http.Client.Timeout`. Nothing is
  assumed of builds and of new calls.
- `RecoverySpec`: time passes and every caller keeps calling. Without calls a breaker
  cannot recover: its transitions are only made by requests. No outage has to end.

## 4. Proofs

Every invariant that a passing run checks is also a theorem, for every value of the
constants (the number of goroutines, hosts, keys and messages, the settings, and the
bounds of the runs: `MaxCalls`, `MaxClock` and `MaxCrashes` are any numbers there).
So are the three action properties and the refinements of the three contracts. Where a
theorem has a premise, it is named below with the reason. The assumptions are those
the modules state next to their constants; TLC evaluates them on the runs.

| module | its state machine | proved |
|---|---|---|
| `CircuitBreakerProofs` | `CircuitBreaker` | 4 invariants, `LegalTransitions`, refines `BreakerContract` |
| `BreakerRecoveryProofs` | `BreakerRecovery` | `JudgedByItsOwn`; is a `CircuitBreaker`, and so refines `BreakerContract` |
| `ClientDoProofs` | `ClientDo` | 5 invariants; refines `CallContract`; is a `CircuitBreaker`, and so refines `BreakerContract`; `WaitsAreBounded` |
| `FileCacheProofs` | `FileCache` | 4 invariants; refines `CacheContract`; 2 more and `ExpiryTakesExpired` for one caller |
| `VerdictCacheProofs` | `VerdictCache` | 3 invariants |
| `DialPolicyProofs` | `DialPolicy` | 3 invariants |
| `BodyReadersProofs` | `BodyReaders` | 3 invariants, `RefusalIsFinal` |
| `ClientsProofs` | `Clients` | 4 invariants, 4 theorems on operators |

Each inductive invariant was checked by TLC on an instance before it was proved. The
proof that a step keeps it has one lemma per action (or per kind of action), and one
lemma that carries what the action does to its own call over to the whole system
(`CallStep`, `CallKeepsInv`, `QuietStepKeepsInv`, `AsideKeeps`).

### The breaker

`CircuitBreakerProofs` proves, for any set of hosts, any finite set of callers and
any integer settings (assumptions: `ConfigAssumption` and `SetAssumption`, which are
checked by TLC on every run):

| theorem | property |
|---|---|
| `TypeCorrect` | `TypeOK` |
| `QuotaHolds` | `ProbesWithinQuota` |
| `StreakIsCounted` | `ClosedBelowThreshold` |
| `FullBreakerWaits` | `FullWaitsForProbe`, when hooks neither fail nor rewrite |
| `TransitionsAreLegal` | `LegalTransitions` |
| `ImplementsContract` | `ContractSpec` |

*The invariant.* `TypeOK` is not inductive: nothing in it bounds `halfOpenAllowed`
when the breaker becomes half-open, or says that `failures` is below the threshold
while it is closed. `IInv` adds `Sound` for every host, which relates a breaker to
the ghosts in each state: closed, its failures are the streak and below the
threshold and the half-open counters are zero; open, the half-open counters are
zero; half-open, at most as many probes are out as were admitted, and at least one
was. `Sound` is stated for a breaker, a streak and a set of probes on their own, so
that the arithmetic of one host's change is proved once per kind of change
(`EnterHalfOpenIsSound`, `AdmitOneMoreIsSound`, `ReopenIsSound`, ...) without the
other hosts in sight. `StepKeepsIInv` then has one case per action.

*A full breaker waits.* That it has a probe out needs more: admissions are exactly
the successes counted plus the probes out. `Paid` says this and that a probe is in
flight to its own host. It fails if a hook can fail (an admission is lost) or rewrite
the host, so the theorem has the premise `HookEffects = {}`; `ClientDoWedge` shows
that the premise is needed.

*Refinement.* `StepRefines` maps each action: the fast path and the slow path of a
closed breaker to `AdmitClosed`, a transition and a probe to `AdmitFirst` and
`AdmitFurther`, records to `Succeed` and `Fail`, `Abandon` to `Vanish`, and the miss,
the rejection, the gauge and the tick to a stutter. It uses `IInv`: in particular a
trip at `failures + 1 >= MaxFailures` is a trip at the streak's threshold only
because the two counts agree.

*In its surroundings* (`BreakerRecoveryProofs`). `RecoveryRunsTheBreaker`: a service
that comes back and calls that are timed add no step, so the theorems above hold
there, the contract among them (`RecoveryKeepsTheContract`). `PeriodsAreJudgedByTheirOwn` proves `JudgedByItsOwn`, hooks of every kind
included. It is not inductive alone: when a host becomes half-open, what is in flight
to it must already be old. `Dated` says why it is: nothing is admitted to an open
host, so a call in flight to it has lasted at least as long as the host is open, and
the host leaves that state at `OpenTimeout`.

### Client.Do

`ClientDoProofs`, for any hosts, any finite set of callers and any configuration of
`Do` (`ClientAssumption`):

| theorem | property |
|---|---|
| `DoRunsTheBreaker` | `DoSpec => Spec`: what is proved of the breaker holds inside `Do` |
| `DoKeepsTheBreakersContract` | `ContractSpec`, with hooks of every kind |
| `CallsKeepTheirContract` | `CallSpec` |
| `DoTypes` | `DoTypeOK` |
| `BodiesAreClosed` | `NoBodyLeaks` |
| `ResponsesAreChecked` | `ReturnedIsChecked` |
| `CallsAreRecordedOnce` | `RecordedOnce` |
| `CounterIsExact` | `ConcurrentIsExact` |
| `WaitsStayBounded` | `WaitsAreBounded`, for any `Half`, samples and number of attempts |

*The invariant* `DoInv` says at each stage what the properties say at the end:
`Holds` (a call has exactly as many open bodies as responses, and neither response
nor error while it sends), `Checked` (what was done to the response so far) and
`Booked` (where the breaker has the call, on the way in too). The counter is the
cardinality of a set of calls; each action moves at most one call into or out of it
(`CallStep`). `Booked` needs the breaker's side: a caller's place in the breaker is
moved by its own steps only (`BreakerMovesOne`).

*The waits.* A product that fits is not changed by `Wrap`, one that does not is
still a duration, and `Clamp` is monotone and answers in its range. The powers of two
up to the capped exponent are proved one by one (`PowersAreBounded`, `PowersGrow`);
without the cap of the code there would be no end to them, and the property does fail
(the mutant of this run).

*The contract of a call.* Each stage maps to a step of `CallContract` or to a stutter
(`CallStepRefines`), where `DoInv` tells that a call which sends holds no response and
that `attempt` stays below `RetryMax + 1`. It does not say what the refresh of the
credentials relies on: that the response held there is the 401 which brought the call
there (`Refused`). `StepIsAlone` is the frame: of the other calls, the contract sees no
change.

### The file cache

`FileCacheProofs`, for any goroutines, keys, sizes and bounds:

| theorem | property | premise |
|---|---|---|
| `CacheTypes` | `CacheTypeOK` | |
| `EntriesStayWhole` | `EntriesAreWhole` | |
| `TempsStayOwned` | `TempsAreOwned` | |
| `SizeStaysCounted` | `SizeNeverNegative` | |
| `ImplementsCacheContract` | `CacheContractSpec` | |
| `LoneHitsAreFresh` | `HitsAreFresh` | one caller |
| `LoneExpiryIsRight` | `ExpiryTakesExpired` | one caller |
| `LoneSizeCovers` | `SizeIsNotUnderstated` | one caller, no faults |

*The invariant* `FileInv`: what a call knows (`Knows`: a Set that is about to rename
has written its whole payload, of an allowed size), that no two Sets share a
temporary file (`Apart`, without which one could rename what the other has only
begun), and that a counter below zero has a caller about to reset it (`Pending`).

*One caller.* The premise `Worker = {w}` is "calls made one at a time"; restarts may
still come between any two steps, and faults too for the first two. It cannot be
dropped: with two goroutines TLC finds a stale hit, a lost fresh entry and a size
below what is there (section 5). Nor can `Faults = FALSE` for the size: a stat that
fails in a scan, or in the walk of a restart, counts its file as 0. `Aged` follows
the modification time from the read to the stat and the removal. `Sized` says how far
the counter may be behind in the middle of a call: `cachedSize + Slack >= DirSize`,
where `Slack` is what the call has still to add.

*The contract.* A system call is an `Ask`, a `Change`, a `Renounce` or a stutter of
`CacheContract`, and a restart is its `Crash`. That a rename is the change its `Set`
was asked for needs `Knows` (the file has the whole payload) and `Apart` (nobody else
writes to it). That a removal happens once needs one fact more, `Once`: what
`CleanExpired` is about to remove has left its list.

*Sums.* `DirSize` is a fold over the files, and the induction theorems of the library
are not usable here. That the fold exists and does not depend on the order is
proved on a counterexample instead: if two sums disagreed on a finite set they would
on a smallest one (`SmallestSet`, from the well-foundedness of strict inclusion), and
one element less gives a smaller one (`SumsAgree`, `SumExists`, `DirSizeIsTotal`).

### The verdict cache

`VerdictCacheProofs`, for any hosts and callers, any cap of at least one and any two
lifetimes: `VerdictTypes`, `CacheIsBounded` (`Bounded`) and `ChangesAreFollowed`
(`ChangesTakeEffect`). `VerdictInv` adds to the properties that the holder of the
mutex has made room for one entry (`Room`), which is what an insertion after an
eviction relies on, and that whatever is stored *or about to be stored* was asked for
before the change it misses (`Currency`): a slow validation may overwrite a newer
verdict, and it is its expiry, counted from the beginning of the call, that bounds
the harm.

### The policy transport

`DialPolicyProofs`, for any number of round trips, any dialers of the caller's and
either trust in the proxy: `DialTypes`, `HopsAreJudged` (`EveryHopIsJudged`) and
`ProxiesStayReachable` (`ProxiesAreReachable`). `DialInv` adds what a round trip has
settled when its dial ends, however late (`Settled`), and that the marker exempts
only round trips that go to a proxy (`Exempt`). The two promises pull in opposite
directions, and the invariant needs both halves of the equivalence between the
marker and the route.

### The body readers

`BodyReadersProofs`, for any limit (0 and below are "none"), any contents and any
buffers: `ReaderTypes`, `EndsAreWhole` (`EndIsTheEnd`), `LimitsHold` (`WithinLimit`)
and the action property `RefusalsStay` (`RefusalIsFinal`). `ReaderInv` adds the
reason of each refusal (`Reasons`) and how the gzip reader came about (`Opening`):
a refusal is final because its reason is a count that never falls or the sticky
error. `ReaderTypeOK`, which includes that both counters count what was delivered, is
part of `ReaderInv` and checked by no run. The stack is proved layer by layer
(`SourceFacts`, `InnerFacts`, ...).

### Clients

`ClientsProofs` proves, for any kinds of addresses, policies, layers, URLs, redirects,
answers of DNS and any number of clients (assumptions: `PolicyAssumption`,
`ClientsAssumption`, `StackAssumption`, checked by TLC on the run):

| theorem | states |
|---|---|
| `CheckIPIsExact` | `CheckIP` permits exactly the `Reachable` addresses |
| `ExceptionsOnlyAdd` | more exceptions never refuse what fewer let through, address, URL or name, and none opens a metadata service |
| `FingerprintDecides` | policies with one fingerprint decide alike |
| `MergeIsAssociative` | layers can be merged in any grouping |
| `TypesHold` | `ClientsTypeOK` |
| `PoliciesAreAsAsked` | `ConfigIsHonoured` |
| `CachesKeepPoliciesApart` | `ServedIsJudged` |
| `RefusalsAreJustified` | `RefusedForCause` |

*The invariant* `ClientsInv` says more than the properties in two places. Of clients:
their policy is the one asked for itself (`Built`), which needs that the shared value
never changes (`Shape`); `BuiltAsAsked` shows that what `NewClientFromAppConfig` makes
of the merged layers is what they ask for read from the top, field by field
(`MergedField`). Of the cache: an entry suits *every* policy with the fingerprint in
its key (`Kept`), also those of clients not built yet. That is kept when a response is
stored because the fingerprint decides (`FingerprintDecides`), and used when it is
found. What a request does to its call alone is proved once (`CallStep`). The step
from verdicts to addresses is `CheckIPIsExact`, through `FetchedSuits` (what is
fetched suits) and `BlockedIsForbidden`, `RefusedURLIsForbidden` (what is refused is
forbidden).

### Only model-checked

- Everything temporal under fairness (`Recovers`, `HalfOpenIsDecided`, `CallsReturn`,
  `FairSpec`, `RedirectsEnd`): liveness and ENABLED are out of this prover's reach.
  Of `FairSpec` the safety part is `DoRunsTheBreaker`.
- The file cache's freshness and size for *several* callers is not claimed at all.
- The three violations (section 5) are counterexamples of an instance.

## 5. What the model shows of the code

Three runs end in a counterexample that the code has too:

1. **A lost half-open slot** (`ClientDoWedge`). `Do` asks the breaker and then runs
   the request hooks; when a hook fails it returns without a record. In a half-open
   period the slot is gone, and no timeout ends a half-open period: the host is
   refused for ever.
2. **The gauge can stay wrong** (`BreakerGauge`). Transitions are reported after the
   unlock; two reports can overtake each other.
3. **A body of exactly the limit is refused** (`BodyReadersFit`), unless its last
   bytes come together with EOF.

Seen on the way, without a run of their own: between the stat with which `Get` (or
`CleanExpired`) finds an entry expired and the removal another goroutine may store a
new one, which is removed (`ExpiryTakesExpired` holds for calls made one at a time,
and fails with two goroutines); a `Get` that reads before and stats after a `Set`
returns an expired payload as fresh; two goroutines can leave the tracked size below
what is on disk, and so can one when a stat fails in a scan; an expired entry
removed by `Get` stays in the tracked size; a failing `OnUnauthorized` returns a
response *and* an error although `client.go:93` says such an error passes the 401
response "through as-is"; the retry counter also counts the verdict on the last
attempt; when `Do` wraps a decompressed body both readers have the same limit and the
outer one answers first, so that `ErrDecompressionBombDetected` is only seen through
`StandardClient`.

Of clients: `MaxRedirects` is said to be "the maximum number of HTTP redirects to
follow" (client.go:117), but `CheckRedirect` counts requests, the first included, so
that one redirect fewer is followed and `MaxRedirects` 1 follows none (`TooMany`);
helpers.go:43 calls "exponential" the default strategy, but an unknown or empty name
waits like "none" (`Factor`); a number of 0 in a layer does not override, so that
`RetryMax` 0 cannot be asked for; the fingerprint names the policy but not the kind of
transport, so a client that dials itself may be handed what another fetched through a
proxy: what `ServedIsJudged` shows is that its own policy agrees with that, trust in
the proxy included.

About late reports: a record does not say when its request was admitted. A request
that outlives the closed period, the open period and a tick of the next can close a
half-open breaker. `JudgedByItsOwn` bounds the effect: whatever is in flight to a
half-open host and is not of its period has been so for at least `OpenTimeout`. The
default settings (three retries of up to 30 s, an `OpenTimeout` of 30 s) allow it.

## 6. Not modelled

The parsing of URLs, addresses, durations and CIDRs (what comes out of it is a choice
or a kind); what httpcache stores and for how long; the counters of hits, misses and
retries; `WarmCache`, `Get`, `Post` and the other methods that make a request and call
`Do`; the metrics transport, which observes one round trip and changes nothing;
tracing and logging: see "components" in `PROJECT.json` for each. The external parts
(net/http's pool and redirect loop, retryablehttp's loop, httpcache, gzip, the
resolver, the filesystem) are modelled from how the code uses them.

## 7. Plan

Next, in this order:

1. *The store of Clients*: `Clients` has a store of its own, above the choices of
   httpcache; that it is `CacheContract` with responses as the data would join the two.
2. *One answer*: `DialPolicy` with `IPPolicy`'s `CheckIP` in place of a choice, so
   that `HopsAreJudged` speaks of addresses, as `CachesKeepPoliciesApart` does.
3. *The second round* of a 401 bypasses the breaker (`client.go:904`): a promise about
   what a wave of such rounds may do to an open host would need a run of its own.

Runs are few on purpose; a new module's run takes the place of one whose question a
theorem answers by then.

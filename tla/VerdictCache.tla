---------------------------- MODULE VerdictCache ----------------------------
(***************************************************************************)
(* The per-host memory of proxied-target validation (targetVerdictCache    *)
(* and validateProxiedTarget in client.go): lock-free reads, validation    *)
(* outside the lock, and a mutex around the cap check, the eviction and    *)
(* the insertion.  A caller reads the time once, before anything else.     *)
(* All writers hold the mutex and an eviction only hides from readers what *)
(* it removes, so that an eviction is one step.                            *)
(***************************************************************************)
EXTENDS Integers, FiniteSets, Functions

CONSTANTS Host,        \* normalised hosts
          Caller,      \* goroutines in validateProxiedTarget
          MaxEntries,  \* maxProxiedTargetEntries
          DenyTTL,     \* proxiedTargetDenyTTL, in ticks
          AllowTTL,    \* proxiedTargetAllowTTL, in ticks
          Nobody,      \* the holder of the mutex when it is free
          MaxClock     \* bound: ticks of the clock

ASSUME VerdictAssumption ==
    /\ MaxEntries \in Nat \ {0}
    /\ {DenyTTL, AllowTTL} \subseteq Nat \ {0}
    /\ MaxClock \in Nat
    /\ Nobody \notin Caller
    /\ Host # {}

VARIABLES entries,   \* the sync.Map: [hosts stored -> verdicts]
          size,      \* the atomic counter of its entries
          admit,     \* the holder of the mutex, or Nobody
          clock,     \* the time
          policy,    \* environment: what validation says of each host now
          since,     \* ghost: when policy[h] became what it is
          call       \* the local state of each caller

verdictVars == <<entries, size, admit, clock, policy, since, call>>

Verdict == {"allow", "deny"}

\* The failures of a validation that are no verdict: the resolver does not know
\* the name, or anything else (timeouts, ended contexts).
Transient == {"notFound", "failure"}

Stored == DOMAIN entries

\* verdictTTL
Lifetime(v) == IF v = "deny" THEN DenyTTL ELSE AllowTTL

NewCall(h) == [pc |-> "lookup", host |-> h, now |-> clock, answer |-> "failure"]

VerdictInit ==
    /\ entries = [h \in {} |-> 0]
    /\ size = 0
    /\ admit = Nobody
    /\ clock = 0
    /\ policy \in [Host -> Verdict]
    /\ since = [h \in Host |-> 0]
    /\ call \in [Caller -> {[NewCall(h) EXCEPT !.pc = "done"] : h \in Host}]

At(c, pc) == call[c].pc = pc

\* The arguments of check: the host and time.Now().
Begin(c) ==
    /\ At(c, "done")
    /\ \E h \in Host : call' = [call EXCEPT ![c] = NewCall(h)]
    /\ UNCHANGED <<entries, size, admit, clock, policy, since>>

FreshAt(h, now) == h \in Stored /\ now < entries[h].expires

\* The lock-free read: a fresh verdict is the answer.
Lookup(c) ==
    LET h == call[c].host IN
    /\ At(c, "lookup")
    /\ call' = IF FreshAt(h, call[c].now)
               THEN [call EXCEPT ![c].pc = "done", ![c].answer = entries[h].verdict]
               ELSE [call EXCEPT ![c].pc = "validate"]
    /\ UNCHANGED <<entries, size, admit, clock, policy, since>>

\* Fault: failures are kept like verdicts.
KeepAll(a) == TRUE

\* What a validation answers may be kept: a verdict, never a failure.
Cacheable(a) == a \in Verdict

\* ValidateURLResolved; a failure is returned as it is.
Validate(c) ==
    /\ At(c, "validate")
    /\ \E a \in {policy[call[c].host]} \cup Transient :
        call' = [call EXCEPT ![c].pc = IF Cacheable(a) THEN "admit" ELSE "done",
                             ![c].answer = a]
    /\ UNCHANGED <<entries, size, admit, clock, policy, since>>

\* evictIfFull: expired entries go, and everything if that is not enough.
Kept(now) == {h \in Stored : now < entries[h].expires}
Survivors(now) ==
    IF size < MaxEntries THEN Stored
    ELSE IF size - Cardinality(Stored \ Kept(now)) < MaxEntries THEN Kept(now) ELSE {}

\* Fault: no mutex.
NoMutex == TRUE

MutexFree == admit = Nobody

Evict(c) ==
    LET left == Survivors(call[c].now) IN
    /\ At(c, "admit")
    /\ MutexFree
    /\ admit' = c
    /\ entries' = Restrict(entries, left)
    /\ size' = IF left = {} THEN 0 ELSE size - Cardinality(Stored \ left)
    /\ call' = [call EXCEPT ![c].pc = "insert"]
    /\ UNCHANGED <<clock, policy, since>>

\* Fault: the verdict lives from its insertion.
ExpiryFromInsert(c) == clock + Lifetime(call[c].answer)

\* The verdict lives from the time the call began, not from its validation.
Expiry(c) == call[c].now + Lifetime(call[c].answer)

Insert(c) ==
    LET h == call[c].host
        new == [verdict |-> call[c].answer, expires |-> Expiry(c)] IN
    /\ At(c, "insert")
    /\ entries' = [k \in Stored \cup {h} |-> IF k = h THEN new ELSE entries[k]]
    /\ size' = IF h \in Stored THEN size ELSE size + 1
    /\ admit' = Nobody
    /\ call' = [call EXCEPT ![c].pc = "done"]
    /\ UNCHANGED <<clock, policy, since>>

\* The addresses behind a name change.
Flip(h) ==
    /\ policy' = [policy EXCEPT ![h] = IF @ = "allow" THEN "deny" ELSE "allow"]
    /\ since' = [since EXCEPT ![h] = clock]
    /\ UNCHANGED <<entries, size, admit, clock, call>>

Tick ==
    /\ clock < MaxClock
    /\ clock' = clock + 1
    /\ UNCHANGED <<entries, size, admit, policy, since, call>>

VerdictNext ==
    \/ \E c \in Caller : Begin(c) \/ Lookup(c) \/ Validate(c) \/ Evict(c) \/ Insert(c)
    \/ \E h \in Host : Flip(h)
    \/ Tick

VerdictSpec == VerdictInit /\ [][VerdictNext]_verdictVars

----------------------------------------------------------------------------
\* Every variable has its type (the types of targetVerdictCache).
VerdictTypeOK ==
    /\ Stored \subseteq Host
    /\ \A h \in Stored : entries[h].expires \in Nat
    /\ size \in Nat /\ clock \in 0 .. MaxClock
    /\ admit \in Caller \cup {Nobody}
    /\ \A c \in Caller :
        /\ call[c].pc \in {"lookup", "validate", "admit", "insert", "done"}
        /\ call[c].now <= clock
        /\ call[c].pc = "insert" => call[c].answer \in Verdict

\* A burst of new hosts cannot grow the map past its cap, and the counter the
\* cap is checked with is the number of entries ("the cache must not grow
\* without bound", client.go:574-575).
Bounded ==
    /\ Cardinality(Stored) <= MaxEntries
    /\ size = Cardinality(Stored)

\* A change behind a name is followed within the lifetime of the old verdict:
\* a call answered against what holds now asked less than that long after the
\* change, even when a slow validation has overwritten a newer verdict
\* (client.go:560-568 on the two lifetimes), and what is kept for others is
\* never a failure ("Only deterministic verdicts are cached", client.go:615).
ChangesTakeEffect ==
    /\ \A h \in Stored : entries[h].verdict \in Verdict
    /\ \A c \in Caller : At(c, "done") /\ call[c].answer \in Verdict =>
        LET v == call[c].answer
            h == call[c].host IN
        v # policy[h] => call[c].now < since[h] + Lifetime(v)
=============================================================================

------------------------- MODULE VerdictCacheProofs -------------------------
(***************************************************************************)
(* Proofs about VerdictCache for any hosts and callers, any cap of at      *)
(* least one and any two lifetimes.                                        *)
(***************************************************************************)
EXTENDS VerdictCache, TLAPS, FiniteSetTheorems

Call == [pc     : {"lookup", "validate", "admit", "insert", "done"},
         host   : Host,
         now    : Nat,
         answer : Verdict \cup Transient]

Entry == [verdict : Verdict, expires : Nat]

\* The types, with the verdict of a call that is to be kept.
Types ==
    /\ Stored \subseteq Host
    /\ entries \in [Stored -> Entry]
    /\ IsFiniteSet(Stored)
    /\ clock \in 0 .. MaxClock
    /\ admit \in Caller \cup {Nobody}
    /\ policy \in [Host -> Verdict]
    /\ since \in [Host -> Nat]
    /\ call \in [Caller -> Call]
    /\ \A c \in Caller : call[c].now <= clock
    /\ \A c \in Caller : call[c].pc \in {"admit", "insert"} => call[c].answer \in Verdict

\* The counter counts, and who holds the mutex has made room for one entry.
Room ==
    /\ size = Cardinality(Stored)
    /\ size <= MaxEntries
    /\ admit # Nobody => size < MaxEntries
    /\ \A c \in Caller : At(c, "insert") => admit = c

\* A verdict v of the host h that lives until t is not older than it may be:
\* it was asked for before now, and before the change if there was one.
Current(v, h, t) ==
    /\ t <= clock + Lifetime(v)
    /\ v # policy[h] => t <= since[h] + Lifetime(v)

\* What is stored, and what is about to be stored, is current.
Currency ==
    /\ \A h \in Stored : Current(entries[h].verdict, h, entries[h].expires)
    /\ \A c \in Caller : call[c].pc \in {"admit", "insert"} =>
            Current(call[c].answer, call[c].host, Expiry(c))

\* An answer that no longer holds was asked for in time.
InTime(c) ==
    LET v == call[c].answer
        h == call[c].host IN
    v # policy[h] => call[c].now < since[h] + Lifetime(v)

Answers == \A c \in Caller : At(c, "done") /\ call[c].answer \in Verdict => InTime(c)

\* The inductive invariant.
VerdictInv == Types /\ Room /\ Currency /\ Answers

----------------------------------------------------------------------------
(* The lifetimes.                                                           *)
LEMMA LifetimeIsPositive == \A v : Lifetime(v) \in Nat \ {0}
  BY VerdictAssumption DEF Lifetime

(* What an eviction leaves: part of what there was, and less than the cap.  *)
LEMMA EvictionMakesRoom ==
    ASSUME VerdictInv, NEW now, NEW left, left = Survivors(now),
           NEW n, n = IF left = {} THEN 0 ELSE size - Cardinality(Stored \ left)
    PROVE  /\ left \subseteq Stored /\ IsFiniteSet(left)
           /\ n = Cardinality(left) /\ n \in Nat /\ n < MaxEntries
  <1>1. IsFiniteSet(Stored) /\ size = Cardinality(Stored) /\ size \in Nat
    BY FS_CardinalityType DEF VerdictInv, Types, Room
  <1>2. left \in SUBSET Stored
    BY DEF Survivors, Kept
  <1>3. /\ IsFiniteSet(left) /\ Cardinality(left) \in Nat
        /\ Cardinality(Stored \ left) = size - Cardinality(left)
    <2>1. IsFiniteSet(left) /\ Stored \cap left = left
      BY <1>1, <1>2, FS_Subset
    <2>2. Cardinality(left) \in Nat
      BY <2>1, FS_CardinalityType
    <2>3. Cardinality(Stored \ left) = Cardinality(Stored) - Cardinality(Stored \cap left)
      BY <1>1, FS_Difference, Zenon
    <2> QED  BY <1>1, <2>1, <2>2, <2>3
  <1>4. Cardinality({}) = 0
    BY FS_EmptySet
  <1>5. n = Cardinality(left)
    BY <1>1, <1>3, <1>4
  <1>6. Cardinality(left) < MaxEntries
    <2>1. CASE size < MaxEntries
      BY <1>1, <2>1 DEF Survivors
    <2>2. CASE /\ ~ size < MaxEntries
               /\ size - Cardinality(Stored \ Kept(now)) < MaxEntries
      <3>1. left = Kept(now)
        BY <2>2 DEF Survivors
      <3> QED  BY <1>1, <1>3, <2>2, <3>1
    <2>3. CASE /\ ~ size < MaxEntries
               /\ ~ size - Cardinality(Stored \ Kept(now)) < MaxEntries
      <3>1. left = {}
        BY <2>3 DEF Survivors
      <3> QED  BY <1>4, <3>1, VerdictAssumption
    <2> QED  BY <2>1, <2>2, <2>3
  <1> QED  BY <1>2, <1>3, <1>5, <1>6

(* A verdict that is current stays so as time passes and when the addresses *)
(* behind the name change.                                                  *)
LEMMA StaysCurrent ==
    ASSUME VerdictInv, NEW v \in Verdict, NEW h \in Host, NEW t \in Nat, Current(v, h, t),
           Tick \/ \E k \in Host : Flip(k)
    PROVE  Current(v, h, t)'
  <1> USE LifetimeIsPositive DEF VerdictInv, Types, Verdict
  <1>0. Lifetime(v)' = Lifetime(v)
    BY DEF Lifetime
  <1>1. CASE Tick
    BY <1>0, <1>1, VerdictAssumption DEF Tick, Current
  <1>2. ASSUME NEW k \in Host, Flip(k) PROVE Current(v, h, t)'
    <2>1. CASE k = h
      BY <1>0, <1>2, <2>1 DEF Flip, Current
    <2>2. CASE k # h
      BY <1>0, <1>2, <2>2 DEF Flip, Current
    <2> QED  BY <2>1, <2>2
  <1> QED  BY <1>1, <1>2

(* A step that changes one call, and neither what is stored nor the world:  *)
(* it is enough that the call stays as it should be.                        *)
LEMMA CallKeepsInv ==
    ASSUME VerdictInv, NEW c \in Caller, NEW r \in Call,
           call' = [call EXCEPT ![c] = r],
           UNCHANGED <<entries, size, admit, clock, policy, since>>,
           r.now <= clock,
           r.pc # "insert",
           r.pc = "admit" => /\ r.answer \in Verdict
                             /\ Current(r.answer, r.host, r.now + Lifetime(r.answer)),
           r.pc = "done" /\ r.answer \in Verdict /\ r.answer # policy[r.host] =>
               r.now < since[r.host] + Lifetime(r.answer)
    PROVE  VerdictInv'
  <1>1. \A d \in Caller : call'[d] = IF d = c THEN r ELSE call[d]
    BY DEF VerdictInv, Types
  <1>2. Stored' = Stored
    BY DEF Stored
  <1>3. Types'
    BY <1>1, <1>2 DEF VerdictInv, Types
  <1>4. Room'
    BY <1>1, <1>2 DEF VerdictInv, Room, At
  <1>5. Currency'
    <2>1. \A h \in Stored' : Current(entries[h].verdict, h, entries[h].expires)'
      BY <1>2 DEF VerdictInv, Currency, Current, Lifetime
    <2>2. ASSUME NEW d \in Caller, call'[d].pc \in {"admit", "insert"}
          PROVE  Current(call[d].answer, call[d].host, Expiry(d))'
      <3>1. CASE d = c
        BY <1>1, <2>2, <3>1 DEF Current, Expiry, Lifetime
      <3>2. CASE d # c
        BY <1>1, <2>2, <3>2 DEF VerdictInv, Currency, Current, Expiry, Lifetime
      <3> QED  BY <3>1, <3>2
    <2> QED  BY <2>1, <2>2 DEF Currency
  <1>6. Answers'
    <2> SUFFICES ASSUME NEW d \in Caller, At(d, "done")', call'[d].answer \in Verdict
                 PROVE  InTime(d)'
      BY DEF Answers, Verdict
    <2>1. CASE d = c
      BY <1>1, <2>1 DEF InTime, At, Lifetime
    <2>2. CASE d # c
      BY <1>1, <2>2 DEF VerdictInv, Answers, InTime, At, Lifetime
    <2> QED  BY <2>1, <2>2
  <1> QED  BY <1>3, <1>4, <1>5, <1>6 DEF VerdictInv

(* The steps of a call before it takes the mutex.                           *)
LEMMA BeginKeepsInv ==
    ASSUME VerdictInv, NEW c \in Caller, Begin(c)
    PROVE  VerdictInv'
  <1>1. PICK h \in Host : call' = [call EXCEPT ![c] = NewCall(h)]
    BY DEF Begin
  <1> DEFINE r == NewCall(h)
  <1>2. r \in Call /\ r.now = clock /\ r.pc = "lookup"
    BY VerdictAssumption DEF VerdictInv, Types, NewCall, Call, Transient
  <1>3. clock \in Nat
    BY VerdictAssumption DEF VerdictInv, Types
  <1>4. call' = [call EXCEPT ![c] = r]
    BY <1>1
  <1>5. UNCHANGED <<entries, size, admit, clock, policy, since>>
    BY DEF Begin
  <1>6. r.now <= clock
    BY <1>2, <1>3
  <1> HIDE DEF r
  <1> QED  BY <1>2, <1>4, <1>5, <1>6, CallKeepsInv

(* A fresh verdict that is read from the map is an answer in time: it is    *)
(* current, and the call asked before it ended.                             *)
LEMMA LookupKeepsInv ==
    ASSUME VerdictInv, NEW c \in Caller, Lookup(c)
    PROVE  VerdictInv'
  <1> DEFINE h == call[c].host
  <1>1. call[c] \in Call /\ h \in Host /\ call[c].now \in Nat /\ call[c].now <= clock
    BY DEF VerdictInv, Types, Call
  <1>2. CASE FreshAt(h, call[c].now)
    <2> DEFINE r == [call[c] EXCEPT !.pc = "done", !.answer = entries[h].verdict]
    <2>1. h \in Stored /\ entries[h] \in Entry /\ call[c].now < entries[h].expires
      BY <1>2 DEF FreshAt, VerdictInv, Types
    <2>2. call' = [call EXCEPT ![c] = r]
      BY <1>2 DEF Lookup, VerdictInv, Types
    <2>3. /\ r \in Call /\ r.pc = "done" /\ r.now = call[c].now /\ r.host = h
          /\ r.answer = entries[h].verdict
      BY <1>1, <2>1 DEF Call, Entry
    <2>4. Current(entries[h].verdict, h, entries[h].expires)
      BY <2>1 DEF VerdictInv, Currency
    <2>5. /\ since[h] \in Nat /\ Lifetime(entries[h].verdict) \in Nat
          /\ entries[h].expires \in Nat
      BY <1>1, <2>1, LifetimeIsPositive DEF VerdictInv, Types, Entry
    <2>6. r.answer # policy[r.host] => r.now < since[r.host] + Lifetime(r.answer)
      BY <1>1, <2>1, <2>3, <2>4, <2>5 DEF Current
    <2> HIDE DEF r
    <2> QED  BY <1>1, <2>2, <2>3, <2>6, CallKeepsInv DEF Lookup
  <1>3. CASE ~ FreshAt(h, call[c].now)
    <2> DEFINE r == [call[c] EXCEPT !.pc = "validate"]
    <2>1. call' = [call EXCEPT ![c] = r]
      BY <1>3 DEF Lookup, VerdictInv, Types
    <2>2. r \in Call /\ r.pc = "validate" /\ r.now = call[c].now
      BY <1>1 DEF Call
    <2> HIDE DEF r
    <2> QED  BY <1>1, <2>1, <2>2, CallKeepsInv DEF Lookup
  <1> QED  BY <1>2, <1>3

(* A validation answers with what holds now, or with no verdict.            *)
LEMMA ValidateKeepsInv ==
    ASSUME VerdictInv, NEW c \in Caller, Validate(c)
    PROVE  VerdictInv'
  <1>1. PICK a \in {policy[call[c].host]} \cup Transient :
            call' = [call EXCEPT ![c].pc = IF Cacheable(a) THEN "admit" ELSE "done",
                                 ![c].answer = a]
    BY DEF Validate
  <1> DEFINE h == call[c].host
             r == [call[c] EXCEPT !.pc = IF Cacheable(a) THEN "admit" ELSE "done",
                                  !.answer = a]
  <1>2. /\ call[c] \in Call /\ h \in Host /\ call[c].now \in Nat /\ call[c].now <= clock
        /\ clock \in Nat /\ policy[h] \in Verdict
    BY VerdictAssumption DEF VerdictInv, Types, Call
  <1>3. call' = [call EXCEPT ![c] = r]
    BY <1>1 DEF VerdictInv, Types
  <1>4. /\ r \in Call /\ r.now = call[c].now /\ r.host = h /\ r.answer = a
        /\ r.pc = IF Cacheable(a) THEN "admit" ELSE "done"
    BY <1>1, <1>2 DEF Call
  <1>5. Cacheable(a) => a \in Verdict /\ a = policy[h]
    BY <1>1 DEF Cacheable, Transient, Verdict
  <1>6. Lifetime(a) \in Nat
    BY LifetimeIsPositive
  <1>7. Cacheable(a) => Current(a, h, r.now + Lifetime(a))
    BY <1>2, <1>4, <1>5, <1>6 DEF Current
  <1> HIDE DEF r
  <1> QED  BY <1>2, <1>3, <1>4, <1>5, <1>7, CallKeepsInv DEF Validate, Cacheable

(* An eviction makes room and hands the mutex over.                         *)
LEMMA EvictKeepsInv ==
    ASSUME VerdictInv, NEW c \in Caller, Evict(c)
    PROVE  VerdictInv'
  <1> DEFINE left == Survivors(call[c].now)
  <1>1. left \subseteq Stored /\ IsFiniteSet(left)
        /\ size' = Cardinality(left) /\ size' \in Nat /\ size' < MaxEntries
    <2> HIDE DEF left
    <2> QED  BY EvictionMakesRoom DEF Evict, left
  <1>2. /\ entries' = [h \in left |-> entries[h]] /\ Stored' = left
        /\ admit = Nobody /\ admit' = c /\ At(c, "admit")
        /\ UNCHANGED <<clock, policy, since>>
    BY DEF Evict, Restrict, Stored, MutexFree
  <1>3. /\ call' = [call EXCEPT ![c] = [call[c] EXCEPT !.pc = "insert"]]
        /\ \A d \in Caller : d # c => call'[d] = call[d]
        /\ /\ call'[c].pc = "insert" /\ call'[c].host = call[c].host
           /\ call'[c].now = call[c].now /\ call'[c].answer = call[c].answer
           /\ call'[c] \in Call
    BY DEF Evict, VerdictInv, Types, Call
  <1> HIDE DEF left
  <1>4. Types'
    <2>1. call' \in [Caller -> Call]
      BY <1>3 DEF VerdictInv, Types
    <2>2. entries' \in [left -> Entry]
      BY <1>1, <1>2 DEF VerdictInv, Types
    <2>3. \A d \in Caller : /\ call'[d].now <= clock
                            /\ call'[d].pc \in {"admit", "insert"} => call'[d].answer \in Verdict
      BY <1>2, <1>3 DEF VerdictInv, Types, At
    <2> QED  BY <1>1, <1>2, <2>1, <2>2, <2>3 DEF VerdictInv, Types, Verdict
  <1>5. Room'
    <2>1. ASSUME NEW d \in Caller, At(d, "insert")' PROVE d = c
      BY <1>2, <1>3, <2>1, VerdictAssumption DEF VerdictInv, Room, At
    <2> QED  BY <1>1, <1>2, <2>1, VerdictAssumption DEF Room, At
  <1>6. Currency'
    <2>1. \A h \in Stored' : Current(entries[h].verdict, h, entries[h].expires)'
      BY <1>1, <1>2 DEF VerdictInv, Currency, Current, Lifetime
    <2>2. ASSUME NEW d \in Caller, call'[d].pc \in {"admit", "insert"}
          PROVE  Current(call[d].answer, call[d].host, Expiry(d))'
      BY <1>2, <1>3, <2>2 DEF VerdictInv, Currency, Current, Expiry, Lifetime, At
    <2> QED  BY <2>1, <2>2 DEF Currency
  <1>7. Answers'
    BY <1>2, <1>3 DEF VerdictInv, Answers, InTime, At, Lifetime, Verdict
  <1> QED  BY <1>4, <1>5, <1>6, <1>7 DEF VerdictInv

(* An insertion by the holder of the mutex adds at most one entry.          *)
LEMMA InsertKeepsInv ==
    ASSUME VerdictInv, NEW c \in Caller, Insert(c)
    PROVE  VerdictInv'
  <1> DEFINE h == call[c].host
             new == [verdict |-> call[c].answer, expires |-> Expiry(c)]
  <1>1. /\ call[c] \in Call /\ h \in Host /\ call[c].now \in Nat /\ call[c].now <= clock
        /\ call[c].answer \in Verdict /\ clock \in Nat
        /\ Current(call[c].answer, h, Expiry(c))
        /\ admit = c /\ At(c, "insert") /\ admit # Nobody
    BY VerdictAssumption DEF Insert, At, VerdictInv, Types, Call, Currency, Room
  <1>2. Expiry(c) \in Nat /\ Lifetime(call[c].answer) \in Nat \ {0}
    BY <1>1, LifetimeIsPositive DEF Expiry
  <1>3. /\ Stored' = Stored \cup {h}
        /\ \A k \in Stored' : entries'[k] = IF k = h THEN new ELSE entries[k]
        /\ entries' = [k \in Stored \cup {h} |-> IF k = h THEN new ELSE entries[k]]
        /\ admit' = Nobody
        /\ UNCHANGED <<clock, policy, since>>
    BY DEF Insert, Stored
  <1>4. /\ call' = [call EXCEPT ![c].pc = "done"]
        /\ \A d \in Caller : d # c => call'[d] = call[d]
        /\ /\ call'[c].pc = "done" /\ call'[c].host = h
           /\ call'[c].now = call[c].now /\ call'[c].answer = call[c].answer
           /\ call'[c] \in Call
    BY DEF Insert, VerdictInv, Types, Call
  <1>5. new \in Entry /\ new.verdict = call[c].answer /\ new.expires = Expiry(c)
    BY <1>1, <1>2 DEF Entry
  <1>6. /\ size' = IF h \in Stored THEN size ELSE size + 1
        /\ IsFiniteSet(Stored) /\ size = Cardinality(Stored) /\ size < MaxEntries
    BY <1>1 DEF Insert, VerdictInv, Types, Room
  <1> HIDE DEF h, new
  <1>7. Types'
    <2>1. IsFiniteSet(Stored')
      BY <1>3, <1>6, FS_AddElement
    <2>2. entries' \in [Stored \cup {h} -> Entry]
      BY <1>3, <1>5 DEF VerdictInv, Types
    <2>3. call' \in [Caller -> Call]
      BY <1>4 DEF VerdictInv, Types
    <2>4. \A d \in Caller : /\ call'[d].now <= clock
                            /\ call'[d].pc \in {"admit", "insert"} => call'[d].answer \in Verdict
      BY <1>1, <1>4 DEF VerdictInv, Types
    <2> QED  BY <1>1, <1>3, <2>1, <2>2, <2>3, <2>4 DEF VerdictInv, Types, Verdict
  <1>8. Room'
    <2>1. size' = Cardinality(Stored')
      BY <1>3, <1>6, FS_AddElement
    <2>2. size' <= MaxEntries
      BY <1>6, FS_CardinalityType, VerdictAssumption
    <2>3. \A d \in Caller : ~ At(d, "insert")'
      BY <1>1, <1>4, VerdictAssumption DEF VerdictInv, Room, At
    <2> QED  BY <1>3, <2>1, <2>2, <2>3 DEF Room
  <1>9. Currency'
    <2>1. ASSUME NEW k \in Stored'
          PROVE  Current(entries[k].verdict, k, entries[k].expires)'
      <3>1. CASE k = h
        BY <1>1, <1>3, <1>5, <3>1 DEF Current, Lifetime
      <3>2. CASE k # h
        BY <1>3, <3>2 DEF VerdictInv, Currency, Current, Lifetime
      <3> QED  BY <3>1, <3>2
    <2>2. ASSUME NEW d \in Caller, call'[d].pc \in {"admit", "insert"}
          PROVE  Current(call[d].answer, call[d].host, Expiry(d))'
      BY <1>3, <1>4, <2>2 DEF VerdictInv, Currency, Current, Expiry, Lifetime
    <2> QED  BY <2>1, <2>2 DEF Currency
  <1>10. Answers'
    <2> SUFFICES ASSUME NEW d \in Caller, At(d, "done")', call'[d].answer \in Verdict
                 PROVE  InTime(d)'
      BY DEF Answers, Verdict
    <2>1. CASE d = c
      <3>1. Lifetime(call[c].answer)' = Lifetime(call[c].answer)
        BY <1>4 DEF Lifetime
      <3>2. call[c].answer # policy[h] => call[c].now <= since[h] /\ since[h] \in Nat
        BY <1>1, <1>2 DEF Current, Expiry, VerdictInv, Types
      <3> QED  BY <1>1, <1>2, <1>3, <1>4, <2>1, <3>1, <3>2 DEF InTime
    <2>2. CASE d # c
      BY <1>3, <1>4, <2>2 DEF VerdictInv, Answers, InTime, At, Lifetime
    <2> QED  BY <2>1, <2>2
  <1> QED  BY <1>7, <1>8, <1>9, <1>10 DEF VerdictInv

(* The steps of the world: time passes, or a name changes its addresses.    *)
LEMMA WorldKeepsInv ==
    ASSUME VerdictInv, Tick \/ \E h \in Host : Flip(h)
    PROVE  VerdictInv'
  <1>1. UNCHANGED <<entries, size, admit, call>> /\ Stored' = Stored
    BY DEF Tick, Flip, Stored
  <1>2. Types'
    <2>1. CASE Tick
      <3>1. clock \in Nat /\ clock' \in 0 .. MaxClock /\ clock <= clock'
        BY <2>1, VerdictAssumption DEF Tick, VerdictInv, Types
      <3>2. \A c \in Caller : call[c].now \in Nat
        BY DEF VerdictInv, Types, Call
      <3> QED  BY <1>1, <2>1, <3>1, <3>2 DEF Tick, VerdictInv, Types, Verdict
    <2>2. ASSUME NEW h \in Host, Flip(h) PROVE Types'
      BY <1>1, <2>2, VerdictAssumption DEF Flip, VerdictInv, Types, Verdict
    <2> QED  BY <2>1, <2>2
  <1>3. Room'
    BY <1>1 DEF VerdictInv, Room, At
  <1>4. Currency'
    <2>1. ASSUME NEW k \in Stored
          PROVE  Current(entries[k].verdict, k, entries[k].expires)'
      <3>1. /\ k \in Host /\ entries[k].verdict \in Verdict /\ entries[k].expires \in Nat
            /\ Current(entries[k].verdict, k, entries[k].expires)
        BY DEF VerdictInv, Types, Entry, Currency
      <3> QED  BY <1>1, <3>1, StaysCurrent DEF Current, Lifetime
    <2>2. ASSUME NEW d \in Caller, call[d].pc \in {"admit", "insert"}
          PROVE  Current(call[d].answer, call[d].host, Expiry(d))'
      <3>1. /\ call[d].host \in Host /\ call[d].answer \in Verdict /\ call[d].now \in Nat
            /\ Current(call[d].answer, call[d].host, Expiry(d))
        BY <2>2 DEF VerdictInv, Types, Call, Currency
      <3>2. Expiry(d) \in Nat /\ Expiry(d)' = Expiry(d)
        BY <1>1, <3>1, LifetimeIsPositive DEF Expiry, Lifetime
      <3> QED  BY <1>1, <3>1, <3>2, StaysCurrent DEF Current, Lifetime
    <2> QED  BY <1>1, <2>1, <2>2 DEF Currency
  <1>5. Answers'
    <2> SUFFICES ASSUME NEW d \in Caller, At(d, "done")', call'[d].answer \in Verdict
                 PROVE  InTime(d)'
      BY DEF Answers, Verdict
    <2> DEFINE h == call[d].host
    <2>1. /\ call'[d] = call[d] /\ call[d].answer \in Verdict /\ h \in Host
          /\ call[d].now \in Nat /\ call[d].now <= clock /\ clock \in Nat /\ InTime(d)
          /\ Lifetime(call[d].answer)' = Lifetime(call[d].answer)
          /\ Lifetime(call[d].answer) \in Nat \ {0}
      BY <1>1, LifetimeIsPositive, VerdictAssumption
         DEF VerdictInv, Types, Call, Answers, At, Lifetime
    <2>2. CASE Tick
      BY <2>1, <2>2 DEF Tick, InTime
    <2>3. ASSUME NEW k \in Host, Flip(k) PROVE InTime(d)'
      <3>1. CASE k = h
        BY <2>1, <2>3, <3>1 DEF Flip, InTime, VerdictInv, Types
      <3>2. CASE k # h
        BY <2>1, <2>3, <3>2 DEF Flip, InTime, VerdictInv, Types
      <3> QED  BY <3>1, <3>2
    <2> QED  BY <2>2, <2>3
  <1> QED  BY <1>2, <1>3, <1>4, <1>5 DEF VerdictInv

LEMMA VerdictInitIsInv == VerdictInit => VerdictInv
  <1> SUFFICES ASSUME VerdictInit PROVE VerdictInv
    OBVIOUS
  <1>1. Stored = {} /\ IsFiniteSet(Stored) /\ Cardinality(Stored) = 0
    BY FS_EmptySet DEF VerdictInit, Stored
  <1>2. PICK f \in [Caller -> Host] :
            call = [c \in Caller |-> [NewCall(f[c]) EXCEPT !.pc = "done"]]
    <2>1. \A c \in Caller : \E h \in Host : call[c] = [NewCall(h) EXCEPT !.pc = "done"]
      BY DEF VerdictInit
    <2> DEFINE g == [c \in Caller |->
                       CHOOSE h \in Host : call[c] = [NewCall(h) EXCEPT !.pc = "done"]]
    <2>2. g \in [Caller -> Host]
      BY <2>1
    <2>3. \A c \in Caller : call[c] = [NewCall(g[c]) EXCEPT !.pc = "done"]
      BY <2>1
    <2>4. call = [c \in Caller |-> call[c]]
      BY DEF VerdictInit
    <2> QED  BY <2>2, <2>3, <2>4
  <1>3. \A c \in Caller : /\ call[c] \in Call /\ call[c].pc = "done"
                          /\ call[c].now = 0 /\ call[c].answer = "failure"
    BY <1>2 DEF VerdictInit, NewCall, Call, Transient
  <1>4. Types
    BY <1>1, <1>2, <1>3, VerdictAssumption DEF VerdictInit, Types
  <1>5. Room /\ Currency
    BY <1>1, <1>3, VerdictAssumption DEF VerdictInit, Room, Currency, At
  <1>6. Answers
    BY <1>3 DEF Answers, Verdict
  <1> QED  BY <1>4, <1>5, <1>6 DEF VerdictInv

LEMMA StepKeepsInv == VerdictInv /\ [VerdictNext]_verdictVars => VerdictInv'
  <1> SUFFICES ASSUME VerdictInv, [VerdictNext]_verdictVars PROVE VerdictInv'
    OBVIOUS
  <1>1. CASE UNCHANGED verdictVars
    BY <1>1 DEF verdictVars, VerdictInv, Types, Room, Currency, Answers, Stored,
                At, InTime, Current, Expiry, Lifetime
  <1> QED
    BY <1>1, BeginKeepsInv, LookupKeepsInv, ValidateKeepsInv, EvictKeepsInv,
       InsertKeepsInv, WorldKeepsInv DEF VerdictNext

(* The inductive invariant holds in every reachable state.                  *)
THEOREM VerdictInvariance == VerdictSpec => []VerdictInv
  BY VerdictInitIsInv, StepKeepsInv, PTL DEF VerdictSpec

(* The types of targetVerdictCache; what is about to be kept is a verdict.  *)
THEOREM VerdictTypes == VerdictSpec => []VerdictTypeOK
  <1>1. VerdictInv => VerdictTypeOK
    <2> SUFFICES ASSUME VerdictInv PROVE VerdictTypeOK
      OBVIOUS
    <2>1. size \in Nat
      BY FS_CardinalityType DEF VerdictInv, Types, Room
    <2> QED  BY <2>1 DEF VerdictInv, Types, VerdictTypeOK, Entry, Call
  <1> QED  BY <1>1, VerdictInvariance, PTL

(* However many goroutines insert at once, the map of verdicts stays within *)
(* its cap and its counter exact: the mutex around evictIfFull and the      *)
(* insertion, and the lock-free reads beside it.                            *)
THEOREM CacheIsBounded == VerdictSpec => []Bounded
  <1>1. VerdictInv => Bounded
    BY DEF VerdictInv, Room, Bounded
  <1> QED  BY <1>1, VerdictInvariance, PTL

(* A change behind a name takes effect within the lifetime of the verdict   *)
(* it overturns, for any lifetimes and any number of slow validations.      *)
THEOREM ChangesAreFollowed == VerdictSpec => []ChangesTakeEffect
  <1>1. VerdictInv => ChangesTakeEffect
    BY DEF VerdictInv, Types, Entry, Answers, InTime, ChangesTakeEffect
  <1> QED  BY <1>1, VerdictInvariance, PTL
=============================================================================

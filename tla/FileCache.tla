----------------------------- MODULE FileCache -----------------------------
(***************************************************************************)
(* The filesystem cache (filecache.go), one step per system call or atomic *)
(* operation, so that the calls of several goroutines interleave as they   *)
(* may in the program.  A file is its size (the payload is only counted)   *)
(* and its modification time; the directory maps the names present to      *)
(* files; temporary names are the ones os.CreateTemp hands out.  A restart *)
(* may come between any two steps and finds what was renamed or created.   *)
(* The hit and miss counters are left out.                                 *)
(***************************************************************************)
EXTENDS Integers, FiniteSets, Functions, FiniteSetsExt

CONSTANTS Key,          \* names keyToFilename gives (a hash of prefix and key)
          Temp,         \* names os.CreateTemp may choose
          NoName,       \* no file name
          Worker,       \* goroutines calling the cache
          DataSize,     \* sizes of the entries callers store
          MaxSize,      \* FileCacheConfig.MaxSize, 0 for no limit
          TTL,          \* FileCacheConfig.TTL, in ticks, 0 for none
          Faults,       \* system calls may fail and contexts may end
          MaxClock,     \* bound: ticks of the clock
          MaxCalls,     \* bound: calls made to the cache
          MaxCrashes    \* bound: restarts of the process

ASSUME CacheAssumption ==
    /\ DataSize \subseteq Nat \ {0}
    /\ {MaxSize, TTL, MaxClock, MaxCalls, MaxCrashes} \subseteq Nat
    /\ Faults \in BOOLEAN
    /\ Key \cap Temp = {} /\ NoName \notin Key \cup Temp

VARIABLES dir,         \* the cache directory: [names present -> files]
          clock,       \* the time
          cachedSize,  \* FileCache.cachedSize, an atomic integer
          reported,    \* last value given to Metrics.SetCacheSizeBytes
          op,          \* the local state of each worker's call
          calls,       \* ghost: calls started
          crashes,     \* ghost: restarts so far
          orphans      \* ghost: temporary files a restart left behind

cacheVars == <<dir, clock, cachedSize, reported, op, calls, crashes, orphans>>
ghosts == <<calls, crashes, orphans>>

Present   == DOMAIN dir
SizeOf(n) == IF n \in Present THEN dir[n].size ELSE 0
DirSize   == MapThenSumSet(SizeOf, Present)

\* Fault: the end of an entry's life is kept as its modification time.
WithExpiry(n, size) == [m \in Present \cup {n} |->
    IF m = n THEN [size |-> size, mtime |-> clock + TTL] ELSE dir[m]]

WithFile(n, size)  == [m \in Present \cup {n} |->
                          IF m = n THEN [size |-> size, mtime |-> clock] ELSE dir[m]]
WithoutFile(n)     == Restrict(dir, Present \ {n})
Renamed(from, to)  == [m \in (Present \ {from}) \cup {to} |->
                          IF m = to THEN dir[from] ELSE dir[m]]

\* What a stat adds to a sum: nothing when it fails for any reason.
StatSizes(n) == {SizeOf(n)} \cup (IF Faults THEN {0} ELSE {})

\* Older than the TTL at the time t.
ExpiredAt(n, t) == t - dir[n].mtime > TTL

\* A worker between two calls; the fields are the variables of the functions.
Idle == [pc    |-> "idle",
         name  |-> NoName,   \* the file of the key, or the directory entry at hand
         temp  |-> NoName,   \* tmpPath
         size  |-> 0,        \* len(data)
         total |-> 0,        \* oldSize, removedSize, then the delta; totalSize
         todo  |-> {},       \* directory entries still to visit
         now   |-> 0,        \* CleanExpired's now
         mtime |-> 0,        \* ghost: when what Get read was written
         bad   |-> FALSE]    \* Clear has collected an error

CacheInit ==
    /\ dir = [n \in {} |-> 0]
    /\ clock = 0
    /\ cachedSize = 0 /\ reported = 0
    /\ op = [w \in Worker |-> Idle]
    /\ calls = 0 /\ crashes = 0 /\ orphans = {}

At(w, pc) == op[w].pc = pc
Begin(w)  == At(w, "idle") /\ calls < MaxCalls /\ calls' = calls + 1
             /\ UNCHANGED <<crashes, orphans>>
Return(w) == op' = [op EXCEPT ![w] = Idle]
Goto(w, pc) == op' = [op EXCEPT ![w].pc = pc]

----------------------------------------------------------------------------
(* Set                                                                      *)

Oversized(d) == MaxSize > 0 /\ d > MaxSize

\* The context and size checks, then the stat of the old entry.
SetStat(w) ==
    /\ Begin(w)
    /\ \E k \in Key : \E d \in {x \in DataSize : ~ Oversized(x)}, old \in StatSizes(k) :
        op' = [op EXCEPT ![w] = [Idle EXCEPT !.pc = "create", !.name = k,
                                             !.size = d, !.total = old]]
    /\ UNCHANGED <<dir, clock, cachedSize, reported>>

\* Fault: the entry is written in its place.
CreateInPlace(w) ==
    /\ At(w, "create")
    /\ dir' = WithFile(op[w].name, 0)
    /\ op' = [op EXCEPT ![w].pc = "write", ![w].temp = op[w].name]
    /\ UNCHANGED <<clock, cachedSize, reported, ghosts>>

\* os.CreateTemp: an empty file under a fresh name.
SetCreate(w) ==
    /\ At(w, "create")
    /\ \/ \E t \in Temp \ (Present \cup {op[v].temp : v \in Worker}) :
            /\ dir' = WithFile(t, 0)
            /\ op' = [op EXCEPT ![w].pc = "write", ![w].temp = t]
       \/ Faults /\ Return(w) /\ UNCHANGED dir
    /\ UNCHANGED <<clock, cachedSize, reported, ghosts>>

\* Fault: an error path forgets the temporary file.
FailLeavesTemp(w) == Return(w) /\ UNCHANGED dir

\* Fault: an error path removes the entry instead of the temporary file.
FailRemovesEntry(w) == dir' = WithoutFile(op[w].name) /\ Return(w)

\* An error path of Set: the temporary file is removed.
SetFails(w) ==
    /\ dir' = WithoutFile(op[w].temp)
    /\ Return(w)

\* The write goes to the open file: a name removed meanwhile stays removed.
SetWrite(w) ==
    /\ At(w, "write")
    /\ \/ /\ dir' = IF op[w].temp \in Present
                    THEN WithFile(op[w].temp, op[w].size) ELSE dir
          /\ Goto(w, "rename")
       \/ Faults /\ SetFails(w)
    /\ UNCHANGED <<clock, cachedSize, reported, ghosts>>

\* Close, chmod, the last look at the context, and the rename, which fails when
\* Clear or CleanExpired removed the temporary file.
SetRename(w) ==
    /\ At(w, "rename")
    /\ \/ /\ op[w].temp \in Present
          /\ dir' = Renamed(op[w].temp, op[w].name)
          /\ op' = [op EXCEPT ![w].pc = "adjust", ![w].total = op[w].size - @]
       \/ /\ Faults \/ op[w].temp \notin Present
          /\ SetFails(w)
    /\ UNCHANGED <<clock, cachedSize, reported, ghosts>>

----------------------------------------------------------------------------
(* adjustCacheSize, at the end of Set and Del                               *)

\* Fault: no guard against underflow.
AdjustUnguarded(w) ==
    /\ At(w, "adjust")
    /\ cachedSize' = cachedSize + op[w].total
    /\ op' = [op EXCEPT ![w].pc = "report", ![w].total = cachedSize']
    /\ UNCHANGED <<dir, clock, reported, ghosts>>

Adjust(w) ==
    /\ At(w, "adjust")
    /\ cachedSize' = cachedSize + op[w].total
    /\ op' = [op EXCEPT ![w].pc = IF cachedSize' < 0 THEN "clamp" ELSE "report",
                        ![w].total = cachedSize']
    /\ UNCHANGED <<dir, clock, reported, ghosts>>

\* The guard against underflow.
Clamp(w) ==
    /\ At(w, "clamp")
    /\ cachedSize' = 0
    /\ op' = [op EXCEPT ![w].pc = "report", ![w].total = 0]
    /\ UNCHANGED <<dir, clock, reported, ghosts>>

Report(w) ==
    /\ At(w, "report")
    /\ reported' = op[w].total
    /\ Return(w)
    /\ UNCHANGED <<dir, clock, cachedSize, ghosts>>

----------------------------------------------------------------------------
(* Get                                                                      *)

\* os.ReadFile: a missing file is a miss.  Without a TTL this is a hit.
GetRead(w) ==
    /\ Begin(w)
    /\ \E k \in Key :
        \/ /\ k \in Present /\ TTL > 0
           /\ op' = [op EXCEPT ![w] = [Idle EXCEPT !.pc = "check", !.name = k,
                                                   !.mtime = dir[k].mtime]]
        \/ /\ k \notin Present \/ TTL = 0 \/ Faults
           /\ UNCHANGED op
    /\ UNCHANGED <<dir, clock, cachedSize, reported>>

\* Fault: the age is not looked at.
HitAnyAge(w) == op[w].name \in Present

\* The stat after the read: a fresh file makes a hit, a missing one a miss.
Hit(w) == op[w].name \in Present /\ ~ ExpiredAt(op[w].name, clock)

GetCheck(w) ==
    /\ At(w, "check")
    /\ \/ Hit(w) /\ Return(w)
       \/ op[w].name \in Present /\ ~ Hit(w) /\ Goto(w, "expire")
       \/ /\ Faults \/ op[w].name \notin Present
          /\ Return(w)
    /\ UNCHANGED <<dir, clock, cachedSize, reported, ghosts>>

\* The removal of the expired entry; its error is only logged, and the size is
\* not adjusted.
GetExpire(w) ==
    /\ At(w, "expire")
    /\ dir' = WithoutFile(op[w].name) \/ (Faults /\ UNCHANGED dir)
    /\ Return(w)
    /\ UNCHANGED <<clock, cachedSize, reported, ghosts>>

----------------------------------------------------------------------------
(* Del                                                                      *)

DelStat(w) ==
    /\ Begin(w)
    /\ \E k \in Key : \E old \in StatSizes(k) :
        op' = [op EXCEPT ![w] = [Idle EXCEPT !.pc = "remove", !.name = k,
                                             !.total = - old]]
    /\ UNCHANGED <<dir, clock, cachedSize, reported>>

\* A file that is already gone is no error: the size seen by the stat is
\* subtracted all the same.
DelRemove(w) ==
    /\ At(w, "remove")
    /\ \/ /\ dir' = WithoutFile(op[w].name)
          /\ IF op[w].total < 0 THEN Goto(w, "adjust") ELSE Return(w)
       \/ Faults /\ Return(w) /\ UNCHANGED dir
    /\ UNCHANGED <<clock, cachedSize, reported, ghosts>>

----------------------------------------------------------------------------
(* updateCacheSizeMetric, at the end of Clear and CleanExpired              *)

\* ReadDir, then one stat per entry, then the store; a failing ReadDir ends it.
Scan(w) ==
    \/ op' = [op EXCEPT ![w] = [Idle EXCEPT !.pc = "scan", !.todo = Present]]
    \/ Faults /\ Return(w)

ScanEntry(w) ==
    /\ At(w, "scan")
    /\ \E n \in op[w].todo : \E size \in StatSizes(n) :
        op' = [op EXCEPT ![w].todo = @ \ {n}, ![w].total = @ + size]
    /\ UNCHANGED <<dir, clock, cachedSize, reported, ghosts>>

\* Fault: a cache that was cleaned is taken to be empty.
StoreZero(w) ==
    /\ At(w, "scan")
    /\ op[w].todo = {}
    /\ cachedSize' = 0
    /\ op' = [op EXCEPT ![w].pc = "report", ![w].total = 0]
    /\ UNCHANGED <<dir, clock, reported, ghosts>>

ScanStore(w) ==
    /\ At(w, "scan")
    /\ op[w].todo = {}
    /\ cachedSize' = op[w].total
    /\ Goto(w, "report")
    /\ UNCHANGED <<dir, clock, reported, ghosts>>

----------------------------------------------------------------------------
(* Clear and CleanExpired (Close is CleanExpired)                           *)

ClearList(w) ==
    /\ Begin(w)
    /\ op' = [op EXCEPT ![w] = [Idle EXCEPT !.pc = "clear", !.todo = Present]]
    /\ UNCHANGED <<dir, clock, cachedSize, reported>>

\* Here a file that is already gone is an error.
ClearEntry(w) ==
    /\ At(w, "clear")
    /\ \E n \in op[w].todo, fault \in {FALSE, Faults} :
        /\ dir' = IF fault THEN dir ELSE WithoutFile(n)
        /\ op' = [op EXCEPT ![w].todo = @ \ {n},
                            ![w].bad = @ \/ fault \/ n \notin Present]
    /\ UNCHANGED <<clock, cachedSize, reported, ghosts>>

\* After an error the tracked size is left as it is.
ClearEnd(w) ==
    /\ At(w, "clear")
    /\ op[w].todo = {}
    /\ IF op[w].bad THEN Return(w) ELSE Scan(w)
    /\ UNCHANGED <<dir, clock, cachedSize, reported, ghosts>>

CleanList(w) ==
    /\ Begin(w)
    /\ TTL > 0
    /\ op' = [op EXCEPT ![w] = [Idle EXCEPT !.pc = "clean", !.todo = Present,
                                            !.now = clock]]
    /\ UNCHANGED <<dir, clock, cachedSize, reported>>

\* Fault: every entry there is removed, whatever its age.
CleanAnyEntry(w) ==
    /\ At(w, "clean")
    /\ \E n \in op[w].todo :
        op' = [op EXCEPT ![w].todo = @ \ {n}, ![w].pc = "unlink", ![w].name = n]
    /\ UNCHANGED <<dir, clock, cachedSize, reported, ghosts>>

\* The stat of one entry decides, and its removal is a step of its own.
CleanEntry(w) ==
    /\ At(w, "clean")
    /\ \E n \in op[w].todo :
        IF n \in Present /\ ExpiredAt(n, op[w].now)
        THEN op' = [op EXCEPT ![w].todo = @ \ {n}, ![w].pc = "unlink", ![w].name = n]
        ELSE op' = [op EXCEPT ![w].todo = @ \ {n}]
    /\ UNCHANGED <<dir, clock, cachedSize, reported, ghosts>>

CleanRemove(w) ==
    /\ At(w, "unlink")
    /\ dir' = WithoutFile(op[w].name) \/ (Faults /\ UNCHANGED dir)
    /\ Goto(w, "clean")
    /\ UNCHANGED <<clock, cachedSize, reported, ghosts>>

CleanEnd(w) ==
    /\ At(w, "clean")
    /\ op[w].todo = {}
    /\ Scan(w)
    /\ UNCHANGED <<dir, clock, cachedSize, reported, ghosts>>

----------------------------------------------------------------------------
\* The process dies at any point; NewFileCache then scans what is there.
Restart ==
    /\ crashes < MaxCrashes
    /\ crashes' = crashes + 1
    /\ op' = [w \in Worker |-> Idle]
    /\ orphans' = Present \cap Temp
    /\ \E size \in {DirSize} \cup (IF Faults THEN {0} ELSE {}) :
          cachedSize' = size /\ reported' = size
    /\ UNCHANGED <<dir, clock, calls>>

Tick ==
    /\ clock < MaxClock
    /\ clock' = clock + 1
    /\ UNCHANGED <<dir, cachedSize, reported, op, ghosts>>

SetSteps(w) == SetStat(w) \/ SetCreate(w) \/ SetWrite(w) \/ SetRename(w)
GetSteps(w) == GetRead(w) \/ GetCheck(w) \/ GetExpire(w)
DelSteps(w) == DelStat(w) \/ DelRemove(w)
SizeSteps(w) == Adjust(w) \/ Clamp(w) \/ Report(w) \/ ScanEntry(w) \/ ScanStore(w)
ClearSteps(w) == ClearList(w) \/ ClearEntry(w) \/ ClearEnd(w)
CleanSteps(w) == CleanList(w) \/ CleanEntry(w) \/ CleanRemove(w) \/ CleanEnd(w)

CacheNext ==
    \/ \E w \in Worker : \/ SetSteps(w) \/ GetSteps(w) \/ DelSteps(w)
                         \/ SizeSteps(w) \/ ClearSteps(w) \/ CleanSteps(w)
    \/ Restart \/ Tick

CacheSpec == CacheInit /\ [][CacheNext]_cacheVars

----------------------------------------------------------------------------
(* What the cache promises.                                                 *)

PC == {"idle", "create", "write", "rename", "adjust", "clamp", "report", "check",
       "expire", "remove", "scan", "clear", "clean", "unlink"}

\* Every variable has its type, and the directory only holds names the cache
\* gives out (Set, Clear and CleanExpired walk the same directory).
CacheTypeOK ==
    /\ Present \subseteq Key \cup Temp
    /\ \A n \in Present : dir[n].size \in Nat /\ dir[n].mtime \in 0 .. clock
    /\ clock \in 0 .. MaxClock
    /\ cachedSize \in Int /\ reported \in Int
    /\ \A w \in Worker : op[w].pc \in PC /\ op[w].todo \subseteq Key \cup Temp
    /\ orphans \subseteq Temp

\* Whatever was interrupted, raced or failed, a file under a key's name is a
\* whole entry within the size limit: Set writes elsewhere and renames
\* ("write-then-rename for Set", filecache.go:44).
EntriesAreWhole ==
    \A k \in Key \cap Present : dir[k].size \in DataSize /\ (MaxSize > 0 => dir[k].size <= MaxSize)

\* A temporary file belongs to a Set that will rename or remove it, unless a
\* restart cut that Set short: no error path of Set leaves its file behind.
TempsAreOwned ==
    \A t \in Temp \cap Present :
        t \in orphans \/ \E w \in Worker : op[w].temp = t /\ op[w].pc \in {"write", "rename"}

\* The metrics sink is never told a negative size, whatever deletes race, and a
\* negative counter is one that a call is about to reset (adjustCacheSize).
SizeNeverNegative ==
    /\ reported >= 0
    /\ cachedSize < 0 => \E w \in Worker : op[w].pc = "clamp"

Quiet == \A w \in Worker : op[w].pc = "idle"

\* For calls made one at a time the reported size is at least what is there:
\* no order of Set, Get, Del, Clear, CleanExpired and restarts hides bytes.
SizeIsNotUnderstated == Quiet => cachedSize >= DirSize

\* "TTL is the time-to-live for cached entries" (filecache.go:25): what a hit
\* returns was written at most TTL ago.
HitsAreFresh ==
    \A w \in Worker : At(w, "check") /\ Hit(w) => clock - op[w].mtime <= TTL

\* "Clean up expired file" (filecache.go:246): the removals that Get and
\* CleanExpired make on account of age take an expired file.
ExpiryTakesExpired ==
    [][\A w \in Worker :
          op[w].pc \in {"expire", "unlink"} /\ op'[w].pc # op[w].pc
            /\ op[w].name \in (Key \cap Present) \ DOMAIN dir' => ExpiredAt(op[w].name, clock)]_cacheVars

----------------------------------------------------------------------------
\* The changes a call may still make to the keys: a Set stores its entry until
\* it has renamed; the others remove what they have found or listed.
Storing == {"create", "write", "rename"}

Drops(c) == {k \in Key : \/ c.pc \in {"check", "expire", "remove", "unlink"} /\ k = c.name
                         \/ c.pc \in {"clear", "clean", "unlink"} /\ k \in c.todo}

MayOf(c) == IF c.pc \in Storing THEN {<<c.name, c.size>>} ELSE Drops(c) \X {0}

kept == [k \in Key |-> SizeOf(k)]
may  == [w \in Worker |-> MayOf(op[w])]

Contract == INSTANCE CacheContract
              WITH Data <- {d \in DataSize : ~ Oversized(d)}, Nothing <- 0

\* The cache keeps the contract: whatever calls interleave, fail or are cut
\* short by a restart, an entry only changes as a call was asked to change it,
\* all at once and once (filecache.go:44, Set, Del, Clear and CleanExpired).
CacheContractSpec == Contract!Spec
=============================================================================

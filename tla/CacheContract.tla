--------------------------- MODULE CacheContract ---------------------------
(***************************************************************************)
(* What the file cache promises the goroutines that share it, without      *)
(* files, clock, sizes or system calls: each call may make the changes it  *)
(* was asked for, each at most once and each in one step; a call that      *)
(* fails or dies has changed nothing else.  FileCache implements it.       *)
(***************************************************************************)
CONSTANTS Key, Worker,
          Data,      \* what callers may store under a key
          Nothing    \* what is kept under a key that has no entry

VARIABLES kept,      \* what is kept under each key
          may        \* the changes <<key, data>> each call may still make

promiseVars == <<kept, may>>

Init ==
    /\ kept = [k \in Key |-> Nothing]
    /\ may = [w \in Worker |-> {}]

\* A call starts with the changes it is asked to make.
Ask(w, changes) ==
    /\ may[w] = {}
    /\ may' = [may EXCEPT ![w] = changes]
    /\ UNCHANGED kept

\* Set.
Store(w) == \E k \in Key, d \in Data : Ask(w, {<<k, d>>})

\* Get, Del, Clear and CleanExpired may all remove entries.
Drop(w) == \E keys \in SUBSET Key : Ask(w, keys \X {Nothing})

Change(w) ==
    \E c \in may[w] :
        /\ kept' = [kept EXCEPT ![c[1]] = c[2]]
        /\ may' = [may EXCEPT ![w] = @ \ {c}]

\* A call that fails, or finds that there is nothing to do.
Renounce(w) ==
    /\ \E changes \in SUBSET may[w] : may' = [may EXCEPT ![w] = changes]
    /\ UNCHANGED kept

\* The process dies; what was kept stays.
Crash ==
    /\ may' = [w \in Worker |-> {}]
    /\ UNCHANGED kept

Next ==
    \/ \E w \in Worker : Store(w) \/ Drop(w) \/ Change(w) \/ Renounce(w)
    \/ Crash

Spec == Init /\ [][Next]_promiseVars
=============================================================================

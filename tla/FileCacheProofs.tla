-------------------------- MODULE FileCacheProofs --------------------------
(***************************************************************************)
(* Proofs about FileCache: what holds for any workers, faults and          *)
(* restarts, and what holds for calls made one at a time.                  *)
(***************************************************************************)
EXTENDS FileCache, FiniteSetTheorems, TLAPS

----------------------------------------------------------------------------
(* Sums over the names of a directory.  The operator DirSize is a recursive *)
(* function on the subsets of the names present; that such a function       *)
(* exists, and that the order in which it takes the names does not matter,  *)
(* is shown on a smallest set for which it would fail.                      *)

Pick(s) == CHOOSE x \in s : TRUE

IsSum(g, f, U) ==
    g = [s \in SUBSET U |-> IF s = {} THEN 0 ELSE f[Pick(s)] + g[s \ {Pick(s)}]]

(* Among finite sets there is one that has no smaller one in it.            *)
LEMMA SmallestSet ==
    ASSUME NEW U, IsFiniteSet(U), NEW Bad, Bad \subseteq SUBSET U, Bad # {}
    PROVE  \E S \in Bad : \A T \in Bad : T \subseteq S => T = S
  <1>1. IsWellFoundedOn(StrictSubsetOrdering(U), SUBSET U)
    BY FS_StrictSubsetOrderingWellFounded, FS_FiniteSubsetsOfFinite
  <1>2. PICK S \in Bad : \A T \in Bad : ~ (<<T, S>> \in StrictSubsetOrdering(U))
    BY <1>1, WFMin
  <1>3. ASSUME NEW T \in Bad, T \subseteq S PROVE T = S
    BY <1>2, <1>3 DEF StrictSubsetOrdering
  <1> QED  BY <1>2, <1>3

LEMMA PickIsMember == \A s : s # {} => Pick(s) \in s
  BY DEF Pick

(* Two sums of the same terms agree.                                        *)
LEMMA SumsAgree ==
    ASSUME NEW U, NEW V, IsFiniteSet(U), NEW f, NEW g, IsSum(g, f, U),
           NEW h, IsSum(h, f, V), NEW s \in SUBSET (U \cap V)
    PROVE  g[s] = h[s]
  <1> DEFINE Bad == {t \in SUBSET s : g[t] # h[t]}
  <1>1. SUFFICES ASSUME Bad # {} PROVE FALSE
    OBVIOUS
  <1>2. IsFiniteSet(s)
    BY FS_Subset
  <1>3. PICK t \in Bad : \A r \in Bad : r \subseteq t => r = t
    <2>1. Bad \subseteq SUBSET s
      OBVIOUS
    <2> HIDE DEF Bad
    <2> QED  BY <1>1, <1>2, <2>1, SmallestSet
  <1>4. /\ g[t] = IF t = {} THEN 0 ELSE f[Pick(t)] + g[t \ {Pick(t)}]
        /\ h[t] = IF t = {} THEN 0 ELSE f[Pick(t)] + h[t \ {Pick(t)}]
    <2>1. t \in SUBSET U /\ t \in SUBSET V
      OBVIOUS
    <2> QED  BY <2>1 DEF IsSum
  <1>5. t # {} /\ Pick(t) \in t
    BY <1>4, PickIsMember
  <1>6. t \ {Pick(t)} \notin Bad
    BY <1>3, <1>5
  <1>7. g[t \ {Pick(t)}] = h[t \ {Pick(t)}]
    BY <1>5, <1>6
  <1> QED  BY <1>4, <1>5, <1>7

(* The sum over the subsets of a finite set is a function.                  *)
LEMMA SumExists ==
    ASSUME NEW U, IsFiniteSet(U), NEW f
    PROVE  \E g : IsSum(g, f, U)
  <1> DEFINE Some(s)  == CHOOSE g : IsSum(g, f, s)
             Total(s) == Some(s)[s]
             Bad == {S \in SUBSET U : ~ \E g : IsSum(g, f, S)}
  <1>1. SUFFICES ASSUME Bad # {} PROVE FALSE
    OBVIOUS
  <1>2. PICK S \in Bad : \A T \in Bad : T \subseteq S => T = S
    <2>1. Bad \subseteq SUBSET U
      OBVIOUS
    <2> HIDE DEF Bad
    <2> QED  BY <1>1, <2>1, SmallestSet
  <1>3. ASSUME NEW T \in SUBSET S, T # S PROVE IsSum(Some(T), f, T)
    <2>1. T \notin Bad
      BY <1>2, <1>3
    <2>2. \E g : IsSum(g, f, T)
      BY <2>1
    <2> QED  BY <2>2
  <1> DEFINE H == [s \in SUBSET S |-> IF s = {} THEN 0
                                      ELSE f[Pick(s)] + Total(s \ {Pick(s)})]
  <1>4. ASSUME NEW T \in SUBSET S, T # S PROVE H[T] = Total(T)
    <2>1. Total(T) = IF T = {} THEN 0 ELSE f[Pick(T)] + Some(T)[T \ {Pick(T)}]
      <3>1. IsSum(Some(T), f, T)
        BY <1>3, <1>4
      <3>2. T \in SUBSET T
        OBVIOUS
      <3> HIDE DEF Some
      <3> QED  BY <3>1, <3>2 DEF IsSum
    <2>2. CASE T = {}
      BY <2>1, <2>2
    <2>3. CASE T # {}
      <3> DEFINE R == T \ {Pick(T)}
      <3>1. R \in SUBSET T /\ R \in SUBSET S /\ R # S /\ IsFiniteSet(T)
        BY <1>4, <2>3, PickIsMember, FS_Subset
      <3>2. IsSum(Some(R), f, R) /\ IsSum(Some(T), f, T)
        BY <1>3, <1>4, <3>1
      <3>3. Some(T)[R] = Some(R)[R]
        BY <3>1, <3>2, SumsAgree
      <3> QED  BY <2>1, <2>3, <3>3
    <2> QED  BY <2>2, <2>3
  <1>5. IsSum(H, f, S)
    <2>1. ASSUME NEW s \in SUBSET S, s # {} PROVE H[s \ {Pick(s)}] = Total(s \ {Pick(s)})
      <3>1. s \ {Pick(s)} \in SUBSET S /\ s \ {Pick(s)} # S
        BY <2>1, PickIsMember
      <3> QED  BY <1>4, <3>1
    <2> HIDE DEF Total
    <2>2. H = [s \in SUBSET S |-> IF s = {} THEN 0 ELSE f[Pick(s)] + H[s \ {Pick(s)}]]
      BY <2>1
    <2> QED  BY <2>2 DEF IsSum
  <1> QED  BY <1>2, <1>5

Total(f, s) == (CHOOSE g : IsSum(g, f, s))[s]

LEMMA TotalOfEmpty == \A f : Total(f, {}) = 0
  <1>1. ASSUME NEW f PROVE Total(f, {}) = 0
    <2> DEFINE g == CHOOSE h : IsSum(h, f, {})
    <2>1. IsSum(g, f, {})
      BY SumExists, FS_EmptySet
    <2>2. Total(f, {}) = g[{}]
      BY DEF Total
    <2> HIDE DEF g
    <2> QED  BY <2>1, <2>2 DEF IsSum
  <1> QED  BY <1>1

(* The total of a set is that of any part of the sum over a larger one.     *)
LEMMA TotalOfPart ==
    ASSUME NEW U, IsFiniteSet(U), NEW f, NEW g, IsSum(g, f, U), NEW s \in SUBSET U
    PROVE  Total(f, s) = g[s]
  <1> DEFINE h == CHOOSE k : IsSum(k, f, s)
  <1>1. IsFiniteSet(s)
    BY FS_Subset
  <1>2. IsSum(h, f, s)
    BY <1>1, SumExists
  <1>3. Total(f, s) = h[s] /\ s \in SUBSET (s \cap U)
    BY DEF Total
  <1> HIDE DEF h
  <1> QED  BY <1>1, <1>2, <1>3, SumsAgree

LEMMA TotalUnfolds ==
    ASSUME NEW s, IsFiniteSet(s), s # {}, NEW f
    PROVE  Total(f, s) = f[Pick(s)] + Total(f, s \ {Pick(s)})
  <1>1. PICK g : IsSum(g, f, s)
    BY SumExists
  <1>2. s \in SUBSET s /\ s \ {Pick(s)} \in SUBSET s
    OBVIOUS
  <1>3. g[s] = f[Pick(s)] + g[s \ {Pick(s)}]
    BY <1>1, <1>2 DEF IsSum
  <1>4. Total(f, s) = g[s] /\ Total(f, s \ {Pick(s)}) = g[s \ {Pick(s)}]
    BY <1>1, <1>2, TotalOfPart
  <1> QED  BY <1>3, <1>4

(* Totals of terms that agree are the same.                                 *)
LEMMA TotalsAgree ==
    ASSUME NEW s, IsFiniteSet(s), NEW f, NEW e, \A x \in s : f[x] = e[x]
    PROVE  Total(f, s) = Total(e, s)
  <1> DEFINE Bad == {t \in SUBSET s : Total(f, t) # Total(e, t)}
  <1>1. SUFFICES ASSUME Bad # {} PROVE FALSE
    OBVIOUS
  <1>2. PICK t \in Bad : \A r \in Bad : r \subseteq t => r = t
    <2>1. Bad \subseteq SUBSET s
      OBVIOUS
    <2> HIDE DEF Bad
    <2> QED  BY <1>1, <2>1, SmallestSet
  <1>3. t # {} /\ t \in SUBSET s
    BY TotalOfEmpty
  <1>4. Pick(t) \in t /\ IsFiniteSet(t)
    BY <1>3, PickIsMember, FS_Subset
  <1>5. /\ Total(f, t) = f[Pick(t)] + Total(f, t \ {Pick(t)})
        /\ Total(e, t) = e[Pick(t)] + Total(e, t \ {Pick(t)})
    BY <1>3, <1>4, TotalUnfolds
  <1>6. t \ {Pick(t)} \notin Bad /\ t \ {Pick(t)} \in SUBSET s
    BY <1>2, <1>3, <1>4
  <1>7. Total(f, t \ {Pick(t)}) = Total(e, t \ {Pick(t)}) /\ f[Pick(t)] = e[Pick(t)]
    BY <1>3, <1>4, <1>6
  <1>8. Total(f, t) = Total(e, t)
    BY <1>5, <1>7
  <1> QED  BY <1>8

(* A total of natural numbers is one.                                       *)
LEMMA TotalIsNat ==
    ASSUME NEW s, IsFiniteSet(s), NEW f, \A x \in s : f[x] \in Nat
    PROVE  Total(f, s) \in Nat
  <1> DEFINE Bad == {t \in SUBSET s : Total(f, t) \notin Nat}
  <1>1. SUFFICES ASSUME Bad # {} PROVE FALSE
    OBVIOUS
  <1>2. PICK t \in Bad : \A r \in Bad : r \subseteq t => r = t
    <2>1. Bad \subseteq SUBSET s
      OBVIOUS
    <2> HIDE DEF Bad
    <2> QED  BY <1>1, <2>1, SmallestSet
  <1>3. t # {} /\ t \in SUBSET s
    BY TotalOfEmpty
  <1>4. Pick(t) \in t /\ IsFiniteSet(t)
    BY <1>3, PickIsMember, FS_Subset
  <1>5. Total(f, t) = f[Pick(t)] + Total(f, t \ {Pick(t)})
    BY <1>3, <1>4, TotalUnfolds
  <1>6. t \ {Pick(t)} \notin Bad /\ t \ {Pick(t)} \in SUBSET s
    BY <1>2, <1>3, <1>4
  <1>7. Total(f, t \ {Pick(t)}) \in Nat /\ f[Pick(t)] \in Nat
    BY <1>3, <1>4, <1>6
  <1> QED  BY <1>5, <1>7

(* Any name may be taken from the sum first.                                *)
LEMMA TotalTakesAny ==
    ASSUME NEW s, IsFiniteSet(s), NEW f, \A y \in s : f[y] \in Nat, NEW x \in s
    PROVE  Total(f, s) = f[x] + Total(f, s \ {x})
  <1> DEFINE Bad == {t \in SUBSET s : \E y \in t : Total(f, t) # f[y] + Total(f, t \ {y})}
  <1>1. SUFFICES ASSUME Bad # {} PROVE FALSE
    OBVIOUS
  <1>2. PICK t \in Bad : \A r \in Bad : r \subseteq t => r = t
    <2>1. Bad \subseteq SUBSET s
      OBVIOUS
    <2> HIDE DEF Bad
    <2> QED  BY <1>1, <2>1, SmallestSet
  <1>3. PICK y \in t : Total(f, t) # f[y] + Total(f, t \ {y})
    BY <1>2
  <1> DEFINE p == Pick(t)
  <1>4. t \in SUBSET s /\ p \in t /\ IsFiniteSet(t)
    BY PickIsMember, FS_Subset
  <1>5. Total(f, t) = f[p] + Total(f, t \ {p})
    BY <1>4, TotalUnfolds
  <1> HIDE DEF p
  <1>6. ASSUME NEW y0 \in t, NEW z \in t \ {y0}
        PROVE  Total(f, t \ {y0}) = f[z] + Total(f, (t \ {y0}) \ {z})
    <2>1. t \ {y0} \notin Bad /\ t \ {y0} \in SUBSET s
      BY <1>2, <1>4
    <2> QED  BY <2>1
  <1>7. p # y
    BY <1>3, <1>5
  <1>8. /\ Total(f, t \ {p}) = f[y] + Total(f, (t \ {p}) \ {y})
        /\ Total(f, t \ {y}) = f[p] + Total(f, (t \ {y}) \ {p})
    BY <1>4, <1>6, <1>7
  <1>9. (t \ {p}) \ {y} = (t \ {y}) \ {p}
    OBVIOUS
  <1>10. /\ f[y] \in Nat /\ f[p] \in Nat /\ Total(f, (t \ {p}) \ {y}) \in Nat
    <2>1. IsFiniteSet((t \ {p}) \ {y}) /\ \A z \in (t \ {p}) \ {y} : f[z] \in Nat
      BY <1>4, FS_Subset
    <2> QED  BY <1>4, <2>1, TotalIsNat
  <1>11. PICK n \in Nat : n = Total(f, (t \ {p}) \ {y})
    BY <1>10
  <1>12. Total(f, t) = f[p] + (f[y] + n) /\ Total(f, t \ {y}) = f[p] + n
    BY <1>5, <1>8, <1>9, <1>11
  <1> QED  BY <1>3, <1>10, <1>12

\* The size of each file there.
Sizes == [n \in Present |-> SizeOf(n)]

(* The size NewFileCache scans is the sum of the sizes of the files.        *)
LEMMA DirSizeIsTotal ==
    ASSUME IsFiniteSet(Present)
    PROVE  DirSize = Total(Sizes, Present)
  <1> DEFINE Iter(g) == g = [s \in SUBSET Present |->
                               IF s = {} THEN 0 ELSE SizeOf(Pick(s)) + g[s \ {Pick(s)}]]
             iter == CHOOSE g : Iter(g)
  <1>1. DirSize = iter[Present]
    BY DEF DirSize, MapThenSumSet, MapThenFoldSet, Pick
  <1>2. ASSUME NEW g, IsSum(g, Sizes, Present) PROVE Iter(g)
    <2>1. ASSUME NEW s \in SUBSET Present, s # {} PROVE Sizes[Pick(s)] = SizeOf(Pick(s))
      BY <2>1, PickIsMember DEF Sizes
    <2> QED  BY <1>2, <2>1 DEF IsSum
  <1>3. ASSUME NEW g, Iter(g) PROVE IsSum(g, Sizes, Present)
    <2>1. ASSUME NEW s \in SUBSET Present, s # {} PROVE Sizes[Pick(s)] = SizeOf(Pick(s))
      BY <2>1, PickIsMember DEF Sizes
    <2> QED  BY <1>3, <2>1 DEF IsSum
  <1>4. IsSum(iter, Sizes, Present)
    <2>1. \E g : Iter(g)
      BY <1>2, SumExists
    <2> HIDE DEF Iter
    <2> QED  BY <1>3, <2>1
  <1>5. Present \in SUBSET Present
    OBVIOUS
  <1> HIDE DEF iter
  <1> QED  BY <1>1, <1>4, <1>5, TotalOfPart

----------------------------------------------------------------------------
(* What holds for any workers, whatever fails and whenever the process      *)
(* restarts.                                                                *)

File == [size : Nat, mtime : Nat]

Call == [pc : PC, name : Key \cup Temp \cup {NoName}, temp : Temp \cup {NoName},
         size : Nat, total : Int, todo : SUBSET (Key \cup Temp), now : Nat,
         mtime : Nat, bad : BOOLEAN]

Writing == {"write", "rename"}

Types ==
    /\ IsFiniteSet(Present) /\ Present \subseteq Key \cup Temp
    /\ dir \in [Present -> File] /\ \A n \in Present : dir[n].mtime <= clock
    /\ clock \in 0 .. MaxClock
    /\ cachedSize \in Int /\ reported \in Nat
    /\ op \in [Worker -> Call]
    /\ orphans \subseteq Temp

\* What a call knows of its files and sums: a Set that is about to rename has
\* written all of a size that is allowed.
Knows(w) ==
    /\ op[w].pc \in {"create"} \cup Writing =>
            op[w].name \in Key /\ op[w].size \in DataSize /\ ~ Oversized(op[w].size)
    /\ op[w].pc \in Writing => op[w].temp \in Temp
    /\ op[w].pc = "rename" /\ op[w].temp \in Present => dir[op[w].temp].size = op[w].size
    /\ op[w].pc \in {"report", "scan"} => op[w].total >= 0

\* No two Sets have the same temporary file.
Apart ==
    \A v, w \in Worker :
        v # w /\ op[v].pc \in Writing /\ op[w].pc \in Writing => op[v].temp # op[w].temp

\* A negative counter is about to be reset.
Pending == cachedSize < 0 => \E w \in Worker : op[w].pc = "clamp"

\* The inductive invariant.
FileInv ==
    /\ Types
    /\ \A w \in Worker : Knows(w)
    /\ Apart /\ EntriesAreWhole /\ TempsAreOwned /\ Pending

\* A step that at most removes files.
Fewer == Present' \subseteq Present /\ dir' = [n \in Present' |-> dir[n]]

LEMMA RemovalIsFewer ==
    ASSUME Types, NEW n
    PROVE  /\ dir' = WithoutFile(n) => Fewer /\ Present' = Present \ {n}
           /\ UNCHANGED dir => Fewer /\ Present' = Present
  <1>1. ASSUME dir' = WithoutFile(n) PROVE Fewer /\ Present' = Present \ {n}
    <2>1. dir' = [m \in Present \ {n} |-> dir[m]]
      BY <1>1 DEF WithoutFile, Restrict
    <2>2. Present' = Present \ {n}
      BY <2>1 DEF Present
    <2> QED  BY <2>1, <2>2 DEF Fewer
  <1>2. ASSUME UNCHANGED dir PROVE Fewer /\ Present' = Present
    BY <1>2 DEF Types, Fewer, Present
  <1> QED  BY <1>1, <1>2

(* A call that writes no file keeps the invariant when what it knows stays  *)
(* true and the temporary file it leaves is gone.                           *)
LEMMA MoveKeeps ==
    ASSUME FileInv, Fewer, UNCHANGED <<clock, orphans>>,
           NEW w \in Worker, NEW o \in Call, op' = [op EXCEPT ![w] = o], Knows(w)',
           cachedSize' \in Int, reported' \in Nat,
           o.pc \in Writing => op[w].pc \in Writing /\ o.temp = op[w].temp,
           op[w].pc \in Writing /\ op[w].temp \in Present' => o.pc \in Writing,
           \/ cachedSize' < 0 => o.pc = "clamp"
           \/ cachedSize' = cachedSize /\ op[w].pc # "clamp"
    PROVE  FileInv'
  <1>1. Types'
    <2>1. IsFiniteSet(Present') /\ Present' \subseteq Key \cup Temp
      BY FS_Subset DEF FileInv, Types, Fewer
    <2>2. dir' \in [Present' -> File] /\ \A n \in Present' : dir'[n].mtime <= clock'
      BY DEF FileInv, Types, Fewer
    <2>3. op' \in [Worker -> Call]
      BY DEF FileInv, Types
    <2> QED  BY <2>1, <2>2, <2>3 DEF FileInv, Types
  <1>2. op'[w] = o /\ \A v \in Worker \ {w} : op'[v] = op[v]
    BY DEF FileInv, Types
  <1>3. ASSUME NEW v \in Worker PROVE Knows(v)'
    <2>1. CASE v # w
      BY <1>2, <2>1 DEF FileInv, Knows, Fewer
    <2> QED  BY <2>1
  <1>4. Apart'
    BY <1>2 DEF FileInv, Apart
  <1>5. EntriesAreWhole'
    BY DEF FileInv, EntriesAreWhole, Fewer
  <1>6. TempsAreOwned'
    <2> SUFFICES ASSUME NEW t \in Temp, t \in Present'
                 PROVE  t \in orphans' \/ \E v \in Worker : op'[v].temp = t /\ op'[v].pc \in Writing
      BY DEF TempsAreOwned, Writing
    <2>1. t \in orphans \/ \E v \in Worker : op[v].temp = t /\ op[v].pc \in Writing
      BY DEF FileInv, TempsAreOwned, Fewer, Writing
    <2> QED  BY <1>2, <2>1
  <1>7. Pending'
    BY <1>2 DEF FileInv, Pending
  <1> QED  BY <1>1, <1>3, <1>4, <1>5, <1>6, <1>7 DEF FileInv

LEMMA IdleIsCall == Idle \in Call
  BY DEF Idle, Call, PC

(* A call may end when its temporary file is gone.                          *)
LEMMA ReturnKeeps ==
    ASSUME FileInv, Fewer, UNCHANGED <<clock, orphans>>, cachedSize' = cachedSize,
           reported' \in Nat, NEW w \in Worker, Return(w), op[w].pc # "clamp",
           ~ (op[w].pc \in Writing /\ op[w].temp \in Present')
    PROVE  FileInv'
  <1>1. Idle.pc = "idle"
    BY DEF Idle
  <1>2. op' = [op EXCEPT ![w] = Idle] /\ op'[w] = Idle
    BY DEF Return, FileInv, Types
  <1>3. Knows(w)'
    BY <1>1, <1>2 DEF Knows, Writing
  <1>4. cachedSize' \in Int
    BY DEF FileInv, Types
  <1> QED  BY <1>1, <1>2, <1>3, <1>4, IdleIsCall, MoveKeeps DEF Writing

(* The call at hand has its fields.                                         *)
LEMMA CallFields ==
    ASSUME FileInv, NEW w \in Worker
    PROVE  op \in [Worker -> Call] /\ op[w] \in Call /\ Knows(w) /\ Types
  BY DEF FileInv, Types

(* What is seen of a size is a natural number, and a key's file is allowed. *)
LEMMA StatIsNat ==
    ASSUME FileInv, NEW n, NEW size \in StatSizes(n)
    PROVE  size \in Nat
  BY DEF FileInv, Types, StatSizes, SizeOf, File

LEMMA StatStepsKeep ==
    ASSUME FileInv, NEW w \in Worker,
           SetStat(w) \/ GetRead(w) \/ DelStat(w) \/ ClearList(w) \/ CleanList(w)
    PROVE  FileInv'
  <1>1. /\ op[w].pc = "idle" /\ UNCHANGED <<dir, clock, cachedSize, reported, orphans>>
        /\ op \in [Worker -> Call] /\ Types
    BY CallFields DEF SetStat, GetRead, DelStat, ClearList, CleanList, Begin, At
  <1>2. Fewer /\ Present' = Present /\ cachedSize' \in Int /\ reported' \in Nat
    BY <1>1, RemovalIsFewer DEF Types
  <1>3. ASSUME NEW o \in Call, op' = [op EXCEPT ![w] = o], o.pc \notin Writing,
               o.pc = "create" => o.name \in Key /\ o.size \in DataSize /\ ~ Oversized(o.size),
               o.pc \notin {"report", "scan"}
        PROVE  FileInv'
    <2>1. op'[w] = o
      BY <1>1, <1>3
    <2>2. Knows(w)'
      BY <1>3, <2>1 DEF Knows, Writing
    <2> QED  BY <1>1, <1>2, <1>3, <2>2, MoveKeeps DEF Writing
  <1>4. CASE SetStat(w)
    <2>1. PICK k \in Key, d \in DataSize, old \in Nat :
              /\ ~ Oversized(d)
              /\ op' = [op EXCEPT ![w] = [Idle EXCEPT !.pc = "create", !.name = k,
                                                      !.size = d, !.total = old]]
      BY <1>4, StatIsNat DEF SetStat
    <2>2. d \in Nat /\ old \in Int
      BY CacheAssumption
    <2> DEFINE o == [Idle EXCEPT !.pc = "create", !.name = k, !.size = d, !.total = old]
    <2>3. o \in Call /\ o.pc = "create" /\ o.name = k /\ o.size = d
      BY <2>2, IdleIsCall DEF Call, PC
    <2> HIDE DEF o
    <2>4. op' = [op EXCEPT ![w] = o]
      BY <2>1 DEF o
    <2> QED  BY <1>3, <2>1, <2>3, <2>4 DEF Writing
  <1>5. CASE GetRead(w)
    <2>1. PICK k \in Key :
              \/ /\ k \in Present
                 /\ op' = [op EXCEPT ![w] = [Idle EXCEPT !.pc = "check", !.name = k,
                                                         !.mtime = dir[k].mtime]]
              \/ UNCHANGED op
      BY <1>5 DEF GetRead
    <2>2. CASE UNCHANGED op
      <3>1. op' = [op EXCEPT ![w] = op[w]]
        BY <1>1, <2>2
      <3> QED  BY <1>1, <1>3, <3>1, CallFields DEF Writing
    <2>3. CASE k \in Present /\ op' = [op EXCEPT ![w] = [Idle EXCEPT !.pc = "check",
                                            !.name = k, !.mtime = dir[k].mtime]]
      <3>1. dir[k].mtime \in Nat
        BY <1>1, <2>3 DEF Types, File
      <3> DEFINE o == [Idle EXCEPT !.pc = "check", !.name = k, !.mtime = dir[k].mtime]
      <3>2. o \in Call /\ o.pc = "check"
        BY <3>1, IdleIsCall DEF Call, PC
      <3> HIDE DEF o
      <3>3. op' = [op EXCEPT ![w] = o]
        BY <2>3 DEF o
      <3> QED  BY <1>3, <3>2, <3>3 DEF Writing
    <2> QED  BY <2>1, <2>2, <2>3
  <1>6. CASE DelStat(w)
    <2>1. PICK k \in Key, old \in Nat :
              op' = [op EXCEPT ![w] = [Idle EXCEPT !.pc = "remove", !.name = k,
                                                   !.total = - old]]
      BY <1>6, StatIsNat DEF DelStat
    <2>2. - old \in Int
      OBVIOUS
    <2> DEFINE o == [Idle EXCEPT !.pc = "remove", !.name = k, !.total = - old]
    <2>3. o \in Call /\ o.pc = "remove"
      BY <2>2, IdleIsCall DEF Call, PC
    <2> HIDE DEF o
    <2>4. op' = [op EXCEPT ![w] = o]
      BY <2>1 DEF o
    <2> QED  BY <1>3, <2>3, <2>4 DEF Writing
  <1>7. CASE ClearList(w)
    <2> DEFINE o == [Idle EXCEPT !.pc = "clear", !.todo = Present]
    <2>1. o \in Call /\ o.pc = "clear"
      BY <1>1, IdleIsCall DEF Call, PC, Types
    <2> HIDE DEF o
    <2>2. op' = [op EXCEPT ![w] = o]
      BY <1>7 DEF ClearList, o
    <2> QED  BY <1>3, <2>1, <2>2 DEF Writing
  <1>8. CASE CleanList(w)
    <2>1. clock \in Nat
      BY <1>1 DEF Types
    <2> DEFINE o == [Idle EXCEPT !.pc = "clean", !.todo = Present, !.now = clock]
    <2>2. o \in Call /\ o.pc = "clean"
      BY <1>1, <2>1, IdleIsCall DEF Call, PC, Types
    <2> HIDE DEF o
    <2>3. op' = [op EXCEPT ![w] = o]
      BY <1>8 DEF CleanList, o
    <2> QED  BY <1>3, <2>2, <2>3 DEF Writing
  <1> QED  BY <1>4, <1>5, <1>6, <1>7, <1>8

(* Set: the temporary file is created, written and moved to its place.      *)
LEMMA SetFailsKeeps ==
    ASSUME FileInv, NEW w \in Worker, SetFails(w), op[w].pc \in Writing,
           UNCHANGED <<clock, cachedSize, reported, ghosts>>
    PROVE  FileInv'
  <1>1. Fewer /\ Present' = Present \ {op[w].temp} /\ Return(w)
    BY RemovalIsFewer DEF SetFails, FileInv
  <1>2. reported' \in Nat
    BY DEF FileInv, Types
  <1> QED  BY <1>1, <1>2, ReturnKeeps DEF ghosts, Writing

LEMMA SetCreateKeeps ==
    ASSUME FileInv, NEW w \in Worker, SetCreate(w)
    PROVE  FileInv'
  <1>1. /\ op[w].pc = "create" /\ UNCHANGED <<clock, cachedSize, reported, orphans>>
        /\ op \in [Worker -> Call] /\ Types /\ Knows(w)
    BY CallFields DEF SetCreate, At, ghosts
  <1>2. CASE Faults /\ Return(w) /\ UNCHANGED dir
    <2>1. Fewer /\ Present' = Present /\ reported' \in Nat
      BY <1>1, <1>2, RemovalIsFewer DEF Types
    <2> QED  BY <1>1, <1>2, <2>1, ReturnKeeps DEF Writing
  <1>3. ASSUME NEW t \in Temp \ (Present \cup {op[v].temp : v \in Worker}),
               dir' = WithFile(t, 0),
               op' = [op EXCEPT ![w].pc = "write", ![w].temp = t]
        PROVE  FileInv'
    <2>1. dir' = [m \in Present \cup {t} |->
                    IF m = t THEN [size |-> 0, mtime |-> clock] ELSE dir[m]]
      BY <1>3 DEF WithFile
    <2>2. Present' = Present \cup {t}
      BY <2>1 DEF Present
    <2>3. /\ op'[w] = [op[w] EXCEPT !.pc = "write", !.temp = t]
          /\ \A v \in Worker \ {w} : op'[v] = op[v]
          /\ op' \in [Worker -> Call]
      BY <1>1, <1>3 DEF Call, PC
    <2>4. op'[w].pc = "write" /\ op'[w].temp = t /\ op'[w].name = op[w].name
          /\ op'[w].size = op[w].size
      BY <1>1, <2>3 DEF Call
    <2>5. Types'
      <3>1. IsFiniteSet(Present') /\ Present' \subseteq Key \cup Temp
        BY <1>1, <2>2, FS_AddElement DEF Types
      <3>2. dir' \in [Present' -> File] /\ \A n \in Present' : dir'[n].mtime <= clock'
        BY <1>1, <2>1, <2>2 DEF Types, File
      <3> QED  BY <1>1, <2>3, <3>1, <3>2 DEF Types
    <2>6. \A v \in Worker : Knows(v)'
      <3>1. Knows(w)'
        BY <1>1, <2>4 DEF Knows, Writing
      <3>2. ASSUME NEW v \in Worker \ {w} PROVE Knows(v)'
        <4>1. op[v].temp # t /\ Knows(v)
          BY <1>3 DEF FileInv
        <4> QED  BY <2>1, <2>2, <2>3, <4>1 DEF Knows
      <3> QED  BY <3>1, <3>2
    <2>7. Apart'
      BY <1>3, <2>3, <2>4 DEF FileInv, Apart
    <2>8. EntriesAreWhole'
      <3>1. t \notin Key
        BY CacheAssumption
      <3> QED  BY <2>1, <2>2, <3>1 DEF FileInv, EntriesAreWhole
    <2>9. TempsAreOwned'
      <3> SUFFICES ASSUME NEW u \in Temp, u \in Present'
                   PROVE  u \in orphans' \/ \E v \in Worker : op'[v].temp = u /\ op'[v].pc \in Writing
        BY DEF TempsAreOwned, Writing
      <3>1. CASE u = t
        BY <2>4, <3>1 DEF Writing
      <3>2. CASE u # t
        <4>1. u \in orphans \/ \E v \in Worker : op[v].temp = u /\ op[v].pc \in Writing
          BY <2>2, <3>2 DEF FileInv, TempsAreOwned, Writing
        <4> QED  BY <1>1, <2>3, <4>1 DEF Writing
      <3> QED  BY <3>1, <3>2
    <2>10. Pending'
      BY <1>1, <2>3 DEF FileInv, Pending
    <2> QED  BY <2>5, <2>6, <2>7, <2>8, <2>9, <2>10 DEF FileInv
  <1> QED  BY <1>2, <1>3 DEF SetCreate

LEMMA SetWriteKeeps ==
    ASSUME FileInv, NEW w \in Worker, SetWrite(w)
    PROVE  FileInv'
  <1>1. /\ op[w].pc = "write" /\ UNCHANGED <<clock, cachedSize, reported, orphans>>
        /\ op \in [Worker -> Call] /\ Types /\ Knows(w)
    BY CallFields DEF SetWrite, At, ghosts
  <1> DEFINE t == op[w].temp
  <1>2. CASE Faults /\ SetFails(w)
    <2>1. UNCHANGED <<clock, cachedSize, reported, ghosts>>
      BY DEF SetWrite
    <2> QED  BY <1>1, <1>2, <2>1, SetFailsKeeps DEF Writing
  <1>3. CASE /\ dir' = IF t \in Present THEN WithFile(t, op[w].size) ELSE dir
             /\ Goto(w, "rename")
    <2>1. /\ op' = [op EXCEPT ![w] = [op[w] EXCEPT !.pc = "rename"]]
          /\ op'[w] = [op[w] EXCEPT !.pc = "rename"]
          /\ \A v \in Worker \ {w} : op'[v] = op[v]
          /\ op' \in [Worker -> Call]
      BY <1>1, <1>3 DEF Goto, Call, PC
    <2>2. /\ op'[w].pc = "rename" /\ op'[w].temp = t /\ op'[w].name = op[w].name
          /\ op'[w].size = op[w].size /\ op[w].size \in Nat
      BY <1>1, <2>1 DEF Call
    <2>3. t \in Temp /\ t \notin Key
      BY <1>1, CacheAssumption DEF Knows, Writing
    <2>4. /\ Present' = Present
          /\ \A n \in Present : dir'[n] = IF n = t THEN [size |-> op[w].size, mtime |-> clock]
                                          ELSE dir[n]
          /\ dir' = [n \in Present |-> dir'[n]]
      <3>1. CASE t \in Present
        <4>1. dir' = [m \in Present \cup {t} |->
                        IF m = t THEN [size |-> op[w].size, mtime |-> clock] ELSE dir[m]]
          BY <1>3, <3>1 DEF WithFile
        <4>2. Present \cup {t} = Present
          BY <3>1
        <4>3. Present' = Present
          BY <4>1, <4>2 DEF Present
        <4> QED  BY <4>1, <4>2, <4>3
      <3>2. CASE t \notin Present
        <4>1. Present' = Present /\ dir' = dir
          BY <1>3, <3>2 DEF Present
        <4>2. dir = [n \in Present |-> dir[n]]
          BY <1>1 DEF Types
        <4> QED  BY <3>2, <4>1, <4>2
      <3> QED  BY <3>1, <3>2
    <2> HIDE DEF t
    <2>5. Types'
      <3>1. clock \in Nat
        BY <1>1 DEF Types
      <3>2. dir' \in [Present' -> File] /\ \A n \in Present' : dir'[n].mtime <= clock'
        BY <1>1, <2>2, <2>4, <3>1 DEF Types, File
      <3> QED  BY <1>1, <2>1, <2>4, <3>2 DEF Types
    <2>6. \A v \in Worker : Knows(v)'
      <3>1. Knows(w)'
        BY <1>1, <2>2, <2>3, <2>4 DEF Knows, Writing
      <3>2. ASSUME NEW v \in Worker \ {w} PROVE Knows(v)'
        <4>1. Knows(v) /\ (op[v].pc \in Writing => op[v].temp # t)
          BY <1>1 DEF FileInv, Apart, Writing, t
        <4> QED  BY <2>1, <2>4, <4>1 DEF Knows, Writing
      <3> QED  BY <3>1, <3>2
    <2>7. Apart'
      BY <1>1, <2>1, <2>2 DEF FileInv, Apart, Writing, t
    <2>8. EntriesAreWhole'
      BY <2>3, <2>4 DEF FileInv, EntriesAreWhole
    <2>9. TempsAreOwned'
      <3> SUFFICES ASSUME NEW u \in Temp, u \in Present'
                   PROVE  u \in orphans' \/ \E v \in Worker : op'[v].temp = u /\ op'[v].pc \in Writing
        BY DEF TempsAreOwned, Writing
      <3>1. u \in orphans \/ \E v \in Worker : op[v].temp = u /\ op[v].pc \in Writing
        BY <2>4 DEF FileInv, TempsAreOwned, Writing
      <3> QED  BY <1>1, <2>1, <2>2, <3>1 DEF Writing, t
    <2>10. Pending'
      BY <1>1, <2>1 DEF FileInv, Pending
    <2> QED  BY <2>5, <2>6, <2>7, <2>8, <2>9, <2>10 DEF FileInv
  <1> QED  BY <1>2, <1>3 DEF SetWrite

LEMMA SetRenameKeeps ==
    ASSUME FileInv, NEW w \in Worker, SetRename(w)
    PROVE  FileInv'
  <1>1. /\ op[w].pc = "rename" /\ UNCHANGED <<clock, cachedSize, reported, orphans>>
        /\ op \in [Worker -> Call] /\ Types /\ Knows(w)
    BY CallFields DEF SetRename, At, ghosts
  <1> DEFINE t == op[w].temp
             k == op[w].name
             o == [op[w] EXCEPT !.pc = "adjust", !.total = op[w].size - @]
  <1>2. CASE SetFails(w)
    <2>1. UNCHANGED <<clock, cachedSize, reported, ghosts>>
      BY DEF SetRename
    <2> QED  BY <1>1, <1>2, <2>1, SetFailsKeeps DEF Writing
  <1>3. CASE /\ t \in Present /\ dir' = Renamed(t, k)
             /\ op' = [op EXCEPT ![w].pc = "adjust", ![w].total = op[w].size - @]
    <2>1. o \in Call /\ o.pc = "adjust"
      <3>1. op[w].size \in Nat /\ op[w].total \in Int /\ op[w] \in Call
        BY <1>1 DEF Call
      <3>2. op[w].size - op[w].total \in Int
        BY <3>1
      <3> QED  BY <3>1, <3>2 DEF Call, PC
    <2>2. /\ op'[w] = o /\ \A v \in Worker \ {w} : op'[v] = op[v]
          /\ op' \in [Worker -> Call]
      BY <1>1, <1>3, <2>1
    <2>3. /\ t \in Temp /\ k \in Key /\ t \notin Key /\ k \notin Temp
          /\ op[w].size \in DataSize /\ ~ Oversized(op[w].size)
          /\ dir[t].size = op[w].size
      BY <1>1, <1>3, CacheAssumption DEF Knows, Writing
    <2> HIDE DEF o, t, k
    <2>4. dir' = [m \in (Present \ {t}) \cup {k} |-> IF m = k THEN dir[t] ELSE dir[m]]
      BY <1>3 DEF Renamed
    <2>5. Present' = (Present \ {t}) \cup {k}
      BY <2>4 DEF Present
    <2>6. Types'
      <3>1. IsFiniteSet(Present') /\ Present' \subseteq Key \cup Temp
        BY <1>1, <2>3, <2>5, FS_AddElement, FS_RemoveElement DEF Types
      <3>2. dir' \in [Present' -> File] /\ \A n \in Present' : dir'[n].mtime <= clock'
        BY <1>1, <1>3, <2>4, <2>5 DEF Types
      <3> QED  BY <1>1, <2>2, <3>1, <3>2 DEF Types
    <2>7. \A v \in Worker : Knows(v)'
      <3>1. Knows(w)'
        BY <2>1, <2>2 DEF Knows, Writing
      <3>2. ASSUME NEW v \in Worker \ {w} PROVE Knows(v)'
        BY <2>2, <2>3, <2>4, <2>5 DEF FileInv, Knows, Writing
      <3> QED  BY <3>1, <3>2
    <2>8. Apart'
      BY <2>1, <2>2 DEF FileInv, Apart, Writing
    <2>9. EntriesAreWhole'
      <3>1. op[w].size \in Nat /\ MaxSize \in Nat
        BY <2>3, CacheAssumption
      <3>2. MaxSize > 0 => op[w].size <= MaxSize
        BY <2>3, <3>1 DEF Oversized
      <3> QED  BY <2>3, <2>4, <2>5, <3>1, <3>2 DEF FileInv, EntriesAreWhole
    <2>10. TempsAreOwned'
      <3> SUFFICES ASSUME NEW u \in Temp, u \in Present'
                   PROVE  u \in orphans' \/ \E v \in Worker : op'[v].temp = u /\ op'[v].pc \in Writing
        BY DEF TempsAreOwned, Writing
      <3>1. u # t /\ u \in Present
        BY <2>3, <2>5
      <3>2. u \in orphans \/ \E v \in Worker : op[v].temp = u /\ op[v].pc \in Writing
        BY <3>1 DEF FileInv, TempsAreOwned, Writing
      <3> QED  BY <1>1, <2>2, <3>1, <3>2 DEF t
    <2>11. Pending'
      BY <1>1, <2>2 DEF FileInv, Pending
    <2> QED  BY <2>6, <2>7, <2>8, <2>9, <2>10, <2>11 DEF FileInv
  <1> QED  BY <1>2, <1>3 DEF SetRename

(* A step of a call that has no temporary file and does not get one.        *)
LEMMA OtherStepKeeps ==
    ASSUME FileInv, Fewer, UNCHANGED <<clock, orphans>>,
           NEW w \in Worker, op[w].pc \notin Writing,
           NEW o \in Call, op' = [op EXCEPT ![w] = o],
           o.pc \notin {"create"} \cup Writing, o.pc \in {"report", "scan"} => o.total >= 0,
           cachedSize' \in Int, reported' \in Nat,
           \/ cachedSize' < 0 => o.pc = "clamp"
           \/ cachedSize' = cachedSize /\ op[w].pc # "clamp"
    PROVE  FileInv'
  <1>1. op'[w] = o
    BY CallFields
  <1>2. Knows(w)'
    BY <1>1 DEF Knows, Writing
  <1> QED  BY <1>2, MoveKeeps DEF Writing

LEMMA SizeStepsKeep ==
    ASSUME FileInv, NEW w \in Worker, SizeSteps(w)
    PROVE  FileInv'
  <1>1. /\ op \in [Worker -> Call] /\ op[w] \in Call /\ Knows(w) /\ Types
        /\ UNCHANGED <<dir, clock, orphans>>
    BY CallFields DEF SizeSteps, Adjust, Clamp, Report, ScanEntry, ScanStore, ghosts
  <1>2. /\ Fewer /\ reported \in Nat /\ cachedSize \in Int
        /\ op[w].total \in Int /\ op[w].todo \in SUBSET (Key \cup Temp)
    BY <1>1, RemovalIsFewer DEF Types, Call
  <1>3. CASE Adjust(w)
    <2> DEFINE o == [op[w] EXCEPT !.pc = IF cachedSize' < 0 THEN "clamp" ELSE "report",
                                  !.total = cachedSize']
    <2>1. cachedSize' \in Int
      BY <1>2, <1>3 DEF Adjust
    <2>2. /\ o \in Call /\ o.total = cachedSize'
          /\ o.pc = IF cachedSize' < 0 THEN "clamp" ELSE "report"
      BY <1>1, <2>1 DEF Call, PC
    <2>3. op' = [op EXCEPT ![w] = o]
      BY <1>3 DEF Adjust
    <2>4. op[w].pc = "adjust" /\ reported' = reported
      BY <1>3 DEF Adjust, At
    <2> HIDE DEF o
    <2>5. o.pc \in {"report", "scan"} => o.total >= 0
      BY <2>1, <2>2
    <2>6. o.pc \notin {"create"} \cup Writing /\ (cachedSize' < 0 => o.pc = "clamp")
      BY <2>2 DEF Writing
    <2> QED  BY <1>1, <1>2, <2>1, <2>2, <2>3, <2>4, <2>5, <2>6, OtherStepKeeps DEF Writing
  <1>4. CASE Clamp(w)
    <2> DEFINE o == [op[w] EXCEPT !.pc = "report", !.total = 0]
    <2>1. op' = [op EXCEPT ![w] = o] /\ op[w].pc = "clamp" /\ reported' = reported
          /\ cachedSize' = 0
      BY <1>4 DEF Clamp, At
    <2>2. 0 \in Int /\ 0 >= 0 /\ ~ (0 < 0)
      OBVIOUS
    <2>3. o \in Call
      BY <1>1, <2>2 DEF Call, PC
    <2>4. o.total = 0 /\ o.pc = "report"
      BY <1>1 DEF Call
    <2> HIDE DEF o
    <2>5. o.pc \notin {"create"} \cup Writing /\ op[w].pc \notin Writing
      BY <2>1, <2>4 DEF Writing
    <2>6. cachedSize' \in Int /\ ~ (cachedSize' < 0) /\ reported' \in Nat /\ o.total >= 0
      BY <1>2, <2>1, <2>2, <2>4
    <2> QED  BY <1>1, <2>1, <2>3, <2>5, <2>6, <1>2, OtherStepKeeps
  <1>5. CASE Report(w)
    <2>1. /\ op[w].pc = "report" /\ reported' = op[w].total /\ Return(w)
          /\ cachedSize' = cachedSize
      BY <1>5 DEF Report, At
    <2>2. reported' \in Nat
      BY <1>1, <1>2, <2>1 DEF Knows
    <2> QED  BY <1>1, <1>2, <2>1, <2>2, ReturnKeeps DEF Writing
  <1>6. CASE ScanEntry(w)
    <2>1. PICK n \in op[w].todo, size \in Nat :
              op' = [op EXCEPT ![w].todo = @ \ {n}, ![w].total = @ + size]
      BY <1>6, StatIsNat DEF ScanEntry
    <2>2. op[w].pc = "scan" /\ UNCHANGED <<cachedSize, reported>> /\ op[w].total >= 0
      BY <1>1, <1>6 DEF ScanEntry, At, Knows
    <2> DEFINE o == [op[w] EXCEPT !.todo = @ \ {n}, !.total = @ + size]
    <2>3. op[w].total + size \in Int /\ op[w].total + size >= 0
      BY <1>2, <2>2
    <2>4. op[w].todo \ {n} \in SUBSET (Key \cup Temp)
      BY <1>2
    <2>5. o \in Call
      BY <1>1, <2>3, <2>4 DEF Call
    <2>6. o.pc = "scan" /\ o.total = op[w].total + size
      BY <1>1, <2>2 DEF Call
    <2>7. op' = [op EXCEPT ![w] = o]
      BY <2>1
    <2> HIDE DEF o
    <2>8. o.pc \notin {"create"} \cup Writing /\ op[w].pc \notin Writing
          /\ op[w].pc # "clamp" /\ o.total >= 0
      BY <2>2, <2>3, <2>6 DEF Writing
    <2>9. cachedSize' = cachedSize /\ cachedSize' \in Int /\ reported' \in Nat
      BY <1>2, <2>2
    <2> QED  BY <1>1, <1>2, <2>5, <2>7, <2>8, <2>9, OtherStepKeeps
  <1>7. CASE ScanStore(w)
    <2> DEFINE o == [op[w] EXCEPT !.pc = "report"]
    <2>1. op[w].pc = "scan" /\ op[w].total >= 0 /\ cachedSize' = op[w].total
          /\ reported' = reported
      BY <1>1, <1>7 DEF ScanStore, At, Knows
    <2>2. o \in Call /\ o.pc = "report" /\ o.total >= 0
      BY <1>1, <2>1 DEF Call, PC
    <2>3. op' = [op EXCEPT ![w] = o]
      BY <1>7 DEF ScanStore, Goto
    <2> HIDE DEF o
    <2>4. cachedSize' \in Int /\ ~ (cachedSize' < 0)
      BY <1>2, <2>1
    <2> QED  BY <1>1, <1>2, <2>1, <2>2, <2>3, <2>4, OtherStepKeeps DEF Writing
  <1> QED  BY <1>3, <1>4, <1>5, <1>6, <1>7 DEF SizeSteps

LEMMA ScanKeeps ==
    ASSUME FileInv, NEW w \in Worker, Scan(w), op[w].pc \in {"clear", "clean"},
           UNCHANGED <<dir, clock, cachedSize, reported, ghosts>>
    PROVE  FileInv'
  <1>1. op \in [Worker -> Call] /\ Types /\ Fewer /\ Present' = Present /\ reported' \in Nat
        /\ cachedSize' \in Int
    BY CallFields, RemovalIsFewer DEF Types
  <1>2. CASE Return(w)
    BY <1>1, <1>2, ReturnKeeps DEF Writing, ghosts
  <1>3. CASE op' = [op EXCEPT ![w] = [Idle EXCEPT !.pc = "scan", !.todo = Present]]
    <2> DEFINE o == [Idle EXCEPT !.pc = "scan", !.todo = Present]
    <2>1. o \in Call
      BY <1>1, IdleIsCall DEF Call, PC, Types
    <2>2. o.pc = "scan" /\ o.total = 0
      BY DEF Idle
    <2>3. op' = [op EXCEPT ![w] = o]
      BY <1>3
    <2> HIDE DEF o
    <2>4. o.pc \notin {"create"} \cup Writing /\ op[w].pc \notin Writing /\ op[w].pc # "clamp"
      BY <2>2 DEF Writing
    <2>5. o.total >= 0
      BY <2>2
    <2> QED  BY <1>1, <2>1, <2>3, <2>4, <2>5, OtherStepKeeps DEF ghosts
  <1> QED  BY <1>2, <1>3 DEF Scan

LEMMA RemovingStepsKeep ==
    ASSUME FileInv, NEW w \in Worker,
           \/ GetCheck(w) \/ GetExpire(w) \/ DelRemove(w) \/ ClearEntry(w) \/ ClearEnd(w)
           \/ CleanEntry(w) \/ CleanRemove(w) \/ CleanEnd(w)
    PROVE  FileInv'
  <1>1. /\ op \in [Worker -> Call] /\ op[w] \in Call /\ Types
        /\ op[w].pc \in {"check", "expire", "remove", "clear", "clean", "unlink"}
        /\ UNCHANGED <<clock, cachedSize, reported, ghosts>>
    BY CallFields DEF GetCheck, GetExpire, DelRemove, ClearEntry, ClearEnd, CleanEntry,
                      CleanRemove, CleanEnd, At
  <1>2. /\ op[w].pc \notin Writing \cup {"clamp"} /\ UNCHANGED <<clock, orphans>>
        /\ cachedSize' = cachedSize /\ cachedSize' \in Int /\ reported' \in Nat
        /\ op[w].todo \in SUBSET (Key \cup Temp)
    BY <1>1 DEF Writing, ghosts, Types, Call
  <1>3. ASSUME NEW n, dir' = WithoutFile(n) \/ UNCHANGED dir PROVE Fewer
    BY <1>1, <1>3, RemovalIsFewer
  <1>4. ASSUME Fewer, Return(w) PROVE FileInv'
    BY <1>2, <1>4, ReturnKeeps
  <1>5. ASSUME Fewer, NEW o \in Call, op' = [op EXCEPT ![w] = o],
               o.pc \in {"expire", "adjust", "clear", "clean", "unlink"}
        PROVE  FileInv'
    <2>1. o.pc \notin {"create"} \cup Writing /\ o.pc \notin {"report", "scan"}
      BY <1>5 DEF Writing
    <2> QED  BY <1>2, <1>5, <2>1, OtherStepKeeps
  <1>6. ASSUME Fewer, NEW p \in {"expire", "adjust", "clean"}, Goto(w, p) PROVE FileInv'
    <2> DEFINE o == [op[w] EXCEPT !.pc = p]
    <2>1. o \in Call /\ o.pc = p
      BY <1>1 DEF Call, PC
    <2>2. op' = [op EXCEPT ![w] = o]
      BY <1>6 DEF Goto
    <2> HIDE DEF o
    <2> QED  BY <1>5, <1>6, <2>1, <2>2
  <1>7. CASE GetCheck(w)
    BY <1>3, <1>4, <1>6, <1>7 DEF GetCheck
  <1>8. CASE GetExpire(w)
    BY <1>3, <1>4, <1>8 DEF GetExpire
  <1>9. CASE DelRemove(w)
    BY <1>3, <1>4, <1>6, <1>9 DEF DelRemove
  <1>10. CASE ClearEntry(w)
    <2>1. PICK n \in op[w].todo, fault \in {FALSE, Faults} :
            /\ dir' = IF fault THEN dir ELSE WithoutFile(n)
            /\ op' = [op EXCEPT ![w].todo = @ \ {n},
                                ![w].bad = @ \/ fault \/ n \notin Present]
      BY <1>10 DEF ClearEntry
    <2> DEFINE o == [op[w] EXCEPT !.todo = @ \ {n}, !.bad = @ \/ fault \/ n \notin Present]
    <2>2. op[w].todo \ {n} \in SUBSET (Key \cup Temp)
          /\ (op[w].bad \/ fault \/ n \notin Present) \in BOOLEAN
      BY <1>2
    <2>3. o \in Call /\ o.pc = op[w].pc
      BY <1>1, <2>2 DEF Call
    <2>4. op' = [op EXCEPT ![w] = o] /\ op[w].pc = "clear"
      BY <1>10, <2>1 DEF ClearEntry, At
    <2>5. Fewer
      BY <1>3, <2>1
    <2> HIDE DEF o
    <2> QED  BY <1>5, <2>3, <2>4, <2>5
  <1>11. CASE ClearEnd(w)
    <2>1. Return(w) \/ Scan(w)
      BY <1>11 DEF ClearEnd
    <2>2. UNCHANGED dir /\ op[w].pc = "clear"
      BY <1>11 DEF ClearEnd, At
    <2> QED  BY <1>1, <1>3, <1>4, <2>1, <2>2, ScanKeeps
  <1>12. CASE CleanEntry(w)
    <2>1. PICK n \in op[w].todo :
            \/ op' = [op EXCEPT ![w].todo = @ \ {n}, ![w].pc = "unlink", ![w].name = n]
            \/ op' = [op EXCEPT ![w].todo = @ \ {n}]
      BY <1>12 DEF CleanEntry
    <2>2. op[w].todo \ {n} \in SUBSET (Key \cup Temp) /\ n \in Key \cup Temp
          /\ op[w].pc = "clean" /\ Fewer
      BY <1>2, <1>3, <1>12 DEF CleanEntry, At
    <2>3. CASE op' = [op EXCEPT ![w].todo = @ \ {n}, ![w].pc = "unlink", ![w].name = n]
      <3> DEFINE o == [op[w] EXCEPT !.todo = @ \ {n}, !.pc = "unlink", !.name = n]
      <3>1. o \in Call /\ o.pc = "unlink"
        BY <1>1, <2>2 DEF Call, PC
      <3>2. op' = [op EXCEPT ![w] = o]
        BY <2>3
      <3> HIDE DEF o
      <3> QED  BY <1>5, <2>2, <3>1, <3>2
    <2>4. CASE op' = [op EXCEPT ![w].todo = @ \ {n}]
      <3> DEFINE o == [op[w] EXCEPT !.todo = @ \ {n}]
      <3>1. o \in Call /\ o.pc = "clean"
        BY <1>1, <2>2 DEF Call
      <3>2. op' = [op EXCEPT ![w] = o]
        BY <2>4
      <3> HIDE DEF o
      <3> QED  BY <1>5, <2>2, <3>1, <3>2
    <2> QED  BY <2>1, <2>3, <2>4
  <1>13. CASE CleanRemove(w)
    BY <1>3, <1>6, <1>13 DEF CleanRemove
  <1>14. CASE CleanEnd(w)
    BY <1>14, ScanKeeps DEF CleanEnd, At
  <1> QED  BY <1>7, <1>8, <1>9, <1>10, <1>11, <1>12, <1>13, <1>14

(* The scan of NewFileCache gives a number.                                 *)
LEMMA DirSizeIsNat == Types => DirSize \in Nat
  <1> SUFFICES ASSUME Types PROVE DirSize \in Nat
    OBVIOUS
  <1>1. \A n \in Present : Sizes[n] \in Nat
    BY DEF Types, Sizes, SizeOf, File
  <1>2. IsFiniteSet(Present)
    BY DEF Types
  <1> QED  BY <1>1, <1>2, DirSizeIsTotal, TotalIsNat

LEMMA RestartKeeps == FileInv /\ Restart => FileInv'
  <1> SUFFICES ASSUME FileInv, Restart PROVE FileInv'
    OBVIOUS
  <1>1. /\ dir' = dir /\ Present' = Present /\ clock' = clock
        /\ op' = [w \in Worker |-> Idle] /\ orphans' = Present \cap Temp
    BY DEF Restart, Present
  <1>2. PICK size \in {DirSize, 0} : cachedSize' = size /\ reported' = size
    BY DEF Restart
  <1>3. size \in Nat
    BY DirSizeIsNat DEF FileInv
  <1>4. \A w \in Worker : op'[w] = Idle /\ Idle.pc = "idle"
    BY <1>1 DEF Idle
  <1>5. Types'
    BY <1>1, <1>2, <1>3, IdleIsCall DEF FileInv, Types
  <1>6. \A w \in Worker : Knows(w)'
    BY <1>4 DEF Knows, Writing
  <1>7. Apart' /\ TempsAreOwned' /\ EntriesAreWhole'
    BY <1>1, <1>4 DEF FileInv, Apart, TempsAreOwned, EntriesAreWhole, Writing
  <1>8. Pending'
    BY <1>2, <1>3 DEF Pending
  <1> QED  BY <1>5, <1>6, <1>7, <1>8 DEF FileInv

LEMMA TimeKeeps ==
    ASSUME FileInv, UNCHANGED <<dir, cachedSize, reported, op, orphans>>,
           clock' \in 0 .. MaxClock, clock <= clock'
    PROVE  FileInv'
  <1>1. Present' = Present
    BY DEF Present
  <1>2. Types'
    <2>1. ASSUME NEW n \in Present PROVE dir[n].mtime <= clock'
      <3>1. dir[n].mtime \in Nat /\ dir[n].mtime <= clock /\ clock \in Nat /\ clock' \in Nat
        BY DEF FileInv, Types, File
      <3> QED  BY <3>1
    <2> QED  BY <1>1, <2>1 DEF FileInv, Types
  <1> QED  BY <1>1, <1>2 DEF FileInv, Knows, Apart, EntriesAreWhole, TempsAreOwned, Pending

LEMMA StepKeepsFileInv == FileInv /\ [CacheNext]_cacheVars => FileInv'
  <1> SUFFICES ASSUME FileInv, [CacheNext]_cacheVars PROVE FileInv'
    OBVIOUS
  <1>1. ASSUME NEW w \in Worker,
               \/ SetSteps(w) \/ GetSteps(w) \/ DelSteps(w)
               \/ SizeSteps(w) \/ ClearSteps(w) \/ CleanSteps(w)
        PROVE  FileInv'
    BY <1>1, StatStepsKeep, SetCreateKeeps, SetWriteKeeps, SetRenameKeeps, SizeStepsKeep,
       RemovingStepsKeep DEF SetSteps, GetSteps, DelSteps, ClearSteps, CleanSteps
  <1>2. clock \in 0 .. MaxClock /\ MaxClock \in Nat
    BY CacheAssumption DEF FileInv, Types
  <1>3. CASE Tick
    <2>1. clock' \in 0 .. MaxClock /\ clock <= clock'
      BY <1>2, <1>3 DEF Tick
    <2> QED  BY <1>3, <2>1, TimeKeeps DEF Tick, ghosts
  <1>4. CASE UNCHANGED cacheVars
    BY <1>2, <1>4, TimeKeeps DEF cacheVars
  <1> QED  BY <1>1, <1>3, <1>4, RestartKeeps DEF CacheNext

LEMMA InitIsFileInv == CacheInit => FileInv
  <1> SUFFICES ASSUME CacheInit PROVE FileInv
    OBVIOUS
  <1>1. Present = {} /\ dir = [n \in Present |-> dir[n]]
    BY DEF CacheInit, Present
  <1>2. \A w \in Worker : op[w] = Idle /\ Idle.pc = "idle"
    BY DEF CacheInit, Idle
  <1>3. Types
    BY <1>1, IdleIsCall, FS_EmptySet, CacheAssumption DEF CacheInit, Types
  <1>4. \A w \in Worker : Knows(w)
    BY <1>2 DEF Knows, Writing
  <1>5. Apart
    BY <1>2 DEF Apart, Writing
  <1> QED  BY <1>1, <1>3, <1>4, <1>5
           DEF CacheInit, FileInv, EntriesAreWhole, TempsAreOwned, Pending

(* Every Set writes a file of its own, of a size it was allowed, and a      *)
(* negative counter is always about to be reset (Set, adjustCacheSize).     *)
THEOREM CacheInvariance == CacheSpec => []FileInv
  BY InitIsFileInv, StepKeepsFileInv, PTL DEF CacheSpec

(* The directory holds only names the cache gives out, written no later     *)
(* than now (Set, Clear and CleanExpired walking the same directory).       *)
THEOREM CacheTypes == CacheSpec => []CacheTypeOK
  <1>1. FileInv => CacheTypeOK
    <2> SUFFICES ASSUME FileInv PROVE CacheTypeOK
      OBVIOUS
    <2>1. \A n \in Present : dir[n].size \in Nat /\ dir[n].mtime \in 0 .. clock
      BY DEF FileInv, Types, File
    <2> QED  BY <2>1 DEF FileInv, Types, Call, CacheTypeOK
  <1> QED  BY <1>1, CacheInvariance, PTL

(* Whatever Sets, removals, failures and restarts interleave, what is under *)
(* a key's name is a whole entry within the limit (write-then-rename).      *)
THEOREM EntriesStayWhole == CacheSpec => []EntriesAreWhole
  <1>1. FileInv => EntriesAreWhole
    BY DEF FileInv
  <1> QED  BY <1>1, CacheInvariance, PTL

(* Only a restart leaves a temporary file behind: every error path of Set   *)
(* removes its own.                                                         *)
THEOREM TempsStayOwned == CacheSpec => []TempsAreOwned
  <1>1. FileInv => TempsAreOwned
    BY DEF FileInv
  <1> QED  BY <1>1, CacheInvariance, PTL

(* However many deletes race, the sink is told no negative size (the guard  *)
(* of adjustCacheSize).                                                     *)
THEOREM SizeStaysCounted == CacheSpec => []SizeNeverNegative
  <1>1. FileInv => SizeNeverNegative
    BY DEF FileInv, Types, Pending, SizeNeverNegative
  <1> QED  BY <1>1, CacheInvariance, PTL

----------------------------------------------------------------------------
(* What holds for calls made one at a time: the only worker finds the files *)
(* as it left them, whatever restarts and ticks come between its steps.     *)

\* What the only call knows of the age of the file at hand.
Aged(w) ==
    /\ At(w, "check") /\ op[w].name \in Present => dir[op[w].name].mtime = op[w].mtime
    /\ At(w, "expire") /\ op[w].name \in Present => ExpiredAt(op[w].name, clock)
    /\ At(w, "unlink") /\ op[w].name \in Present => ExpiredAt(op[w].name, op[w].now)
    /\ op[w].pc \in {"clean", "unlink"} => op[w].now <= clock

\* What the only call has still to add to the counter.
Slack(w) == IF At(w, "rename") THEN op[w].size
            ELSE IF At(w, "adjust") THEN op[w].total ELSE 0

\* What the only call knows of the sizes.
Sized(w) ==
    /\ cachedSize + Slack(w) >= DirSize
    /\ op[w].pc \in {"create"} \cup Writing => op[w].total = SizeOf(op[w].name)
    /\ op[w].pc \in Writing => op[w].temp \in Present
    /\ At(w, "remove") => op[w].total = - SizeOf(op[w].name)
    /\ At(w, "scan") => /\ op[w].todo \subseteq Present
                        /\ op[w].total + Total(Sizes, op[w].todo) >= DirSize
    /\ ~ At(w, "clamp")

----------------------------------------------------------------------------
(* How the size of the directory follows its files.                         *)

(* One file and the others.                                                 *)
LEMMA SizeSplits ==
    Types => \A n : DirSize = SizeOf(n) + Total(Sizes, Present \ {n})
  <1> SUFFICES ASSUME Types, NEW n
               PROVE  DirSize = SizeOf(n) + Total(Sizes, Present \ {n})
    OBVIOUS
  <1>1. IsFiniteSet(Present) /\ \A m \in Present : Sizes[m] \in Nat
    BY DEF Types, Sizes, SizeOf, File
  <1>2. DirSize = Total(Sizes, Present)
    BY <1>1, DirSizeIsTotal
  <1>3. CASE n \in Present
    BY <1>1, <1>2, <1>3, TotalTakesAny DEF Sizes
  <1>4. CASE n \notin Present
    <2>1. SizeOf(n) = 0 /\ Present \ {n} = Present
      BY <1>4 DEF SizeOf
    <2>2. Total(Sizes, Present) \in Nat
      BY <1>1, TotalIsNat
    <2> QED  BY <1>2, <2>1, <2>2
  <1> QED  BY <1>3, <1>4

LEMMA SizeSplitsNext ==
    Types' => \A n : DirSize' = SizeOf(n)' + Total(Sizes', Present' \ {n})
  <1>1. (Types => \A n : DirSize = SizeOf(n) + Total(Sizes, Present \ {n}))'
    BY SizeSplits, PTL
  <1> QED  BY <1>1

(* The others count for what they did before.                               *)
LEMMA OthersStay ==
    ASSUME Types, NEW s, s \subseteq Present, s \subseteq Present',
           \A m \in s : dir'[m] = dir[m]
    PROVE  /\ Total(Sizes', s) = Total(Sizes, s) /\ Total(Sizes, s) \in Nat
           /\ \A m \in s : SizeOf(m)' = SizeOf(m)
  <1>1. IsFiniteSet(s) /\ \A m \in s : Sizes[m] \in Nat
    BY FS_Subset DEF Types, Sizes, SizeOf, File
  <1>2. \A m \in s : Sizes'[m] = Sizes[m]
    BY DEF Sizes, SizeOf
  <1> QED  BY <1>1, <1>2, TotalsAgree, TotalIsNat DEF SizeOf

(* A file that is written, removed or created changes the sum by its size.  *)
LEMMA OneFileChanges ==
    ASSUME Types, Types', NEW n, Present' \ {n} = Present \ {n},
           \A m \in Present \ {n} : dir'[m] = dir[m]
    PROVE  /\ DirSize' = DirSize - SizeOf(n) + SizeOf(n)'
           /\ SizeOf(n) \in Nat /\ SizeOf(n)' \in Nat /\ DirSize \in Nat /\ DirSize' \in Nat
  <1> DEFINE s == Present \ {n}
  <1>1. Total(Sizes', s) = Total(Sizes, s) /\ Total(Sizes, s) \in Nat
    BY OthersStay
  <1>2. DirSize = SizeOf(n) + Total(Sizes, s)
    BY SizeSplits
  <1>3. DirSize' = SizeOf(n)' + Total(Sizes', s)
    BY SizeSplitsNext
  <1>4. SizeOf(n) \in Nat /\ SizeOf(n)' \in Nat
    BY DEF Types, SizeOf, File
  <1> HIDE DEF s
  <1> QED  BY <1>1, <1>2, <1>3, <1>4

LEMMA RemovalShrinks ==
    ASSUME Types, Types', NEW n, dir' = WithoutFile(n)
    PROVE  /\ DirSize' = DirSize - SizeOf(n)
           /\ SizeOf(n) \in Nat /\ DirSize \in Nat
  <1>1. Fewer /\ Present' = Present \ {n}
    BY RemovalIsFewer
  <1>2. Present' \ {n} = Present \ {n} /\ SizeOf(n)' = 0
    BY <1>1 DEF SizeOf
  <1>3. \A m \in Present \ {n} : dir'[m] = dir[m]
    BY <1>1 DEF Fewer
  <1> QED  BY <1>2, <1>3, OneFileChanges

(* The sum does not depend on when it is taken.                             *)
LEMMA SameSize ==
    ASSUME Types, UNCHANGED dir
    PROVE  DirSize' = DirSize /\ \A n : SizeOf(n)' = SizeOf(n)
  BY DEF DirSize, SizeOf, Present, MapThenSumSet, MapThenFoldSet

LEMMA RenameReplaces ==
    ASSUME Types, Types', NEW t \in Present, NEW k, k # t, dir' = Renamed(t, k)
    PROVE  DirSize' = DirSize - SizeOf(k) /\ DirSize \in Nat /\ SizeOf(k) \in Nat
  <1> DEFINE s == (Present \ {t}) \ {k}
  <1>1. dir' = [m \in (Present \ {t}) \cup {k} |-> IF m = k THEN dir[t] ELSE dir[m]]
    BY DEF Renamed
  <1>2. Present' = (Present \ {t}) \cup {k} /\ SizeOf(k)' = SizeOf(t)
    BY <1>1 DEF Present, SizeOf
  <1>3. Present' \ {k} = s /\ \A m \in s : dir'[m] = dir[m]
    BY <1>1, <1>2
  <1>4. Total(Sizes', s) = Total(Sizes, s) /\ Total(Sizes, s) \in Nat
    BY <1>2, <1>3, OthersStay
  <1>5. DirSize = SizeOf(t) + Total(Sizes, Present \ {t})
    BY SizeSplits
  <1>6. Total(Sizes, Present \ {t}) = SizeOf(k) + Total(Sizes, s)
    <2>1. IsFiniteSet(Present \ {t}) /\ \A m \in Present \ {t} : Sizes[m] \in Nat
      BY FS_RemoveElement DEF Types, Sizes, SizeOf, File
    <2>2. CASE k \in Present
      <3>1. k \in Present \ {t} /\ Sizes[k] = SizeOf(k)
        BY <2>2 DEF Sizes
      <3> QED  BY <2>1, <3>1, TotalTakesAny
    <2>3. CASE k \notin Present
      <3>1. s = Present \ {t} /\ SizeOf(k) = 0
        BY <2>3 DEF SizeOf
      <3> QED  BY <1>4, <3>1
    <2> QED  BY <2>2, <2>3
  <1>7. DirSize' = SizeOf(k)' + Total(Sizes', s)
    BY <1>3, SizeSplitsNext
  <1>8. SizeOf(k) \in Nat /\ SizeOf(t) \in Nat
    BY DEF Types, SizeOf, File
  <1> HIDE DEF s
  <1> QED  BY <1>2, <1>4, <1>5, <1>6, <1>7, <1>8

(* Where a step of a call takes it.                                         *)
LEMMA NextPoint ==
    ASSUME FileInv, NEW w \in Worker
    PROVE  /\ Return(w) => op'[w].pc = "idle"
           /\ \A p : Goto(w, p) => op'[w].pc = p
           /\ Scan(w) => op'[w].pc \in {"scan", "idle"}
           /\ SetSteps(w) => op'[w].pc \in {"create", "write", "rename", "adjust", "idle"}
           /\ DelSteps(w) => op'[w].pc \in {"remove", "adjust", "idle"}
           /\ SizeSteps(w) => op'[w].pc \in {"clamp", "report", "scan", "idle"}
           /\ ClearSteps(w) => op'[w].pc \in {"clear", "scan", "idle"}
  <1>1. op \in [Worker -> Call] /\ op[w] \in Call
    BY CallFields
  <1>2. ASSUME Return(w) PROVE op'[w].pc = "idle"
    <2>1. op'[w] = Idle
      BY <1>1, <1>2 DEF Return
    <2> QED  BY <2>1 DEF Idle
  <1>3. ASSUME NEW p, Goto(w, p) PROVE op'[w].pc = p
    BY <1>1, <1>3 DEF Goto, Call
  <1>4. ASSUME Scan(w) PROVE op'[w].pc \in {"scan", "idle"}
    <2>1. CASE op' = [op EXCEPT ![w] = [Idle EXCEPT !.pc = "scan", !.todo = Present]]
      <3>1. op'[w] = [Idle EXCEPT !.pc = "scan", !.todo = Present]
        BY <1>1, <2>1
      <3> QED  BY <3>1 DEF Idle
    <2> QED  BY <1>2, <1>4, <2>1 DEF Scan
  <1>5. ASSUME SetSteps(w)
        PROVE  op'[w].pc \in {"create", "write", "rename", "adjust", "idle"}
    <2>1. CASE SetStat(w)
      <3>1. PICK k \in Key, d \in DataSize, old \in Nat :
              op' = [op EXCEPT ![w] = [Idle EXCEPT !.pc = "create", !.name = k,
                                                   !.size = d, !.total = old]]
        BY <2>1, StatIsNat DEF SetStat
      <3>2. op'[w] = [Idle EXCEPT !.pc = "create", !.name = k, !.size = d, !.total = old]
        BY <1>1, <3>1
      <3> QED  BY <3>2 DEF Idle
    <2>2. CASE SetCreate(w)
      BY <1>1, <1>2, <2>2 DEF SetCreate, Call
    <2>3. CASE SetWrite(w)
      BY <1>2, <1>3, <2>3 DEF SetWrite, SetFails
    <2>4. CASE SetRename(w)
      BY <1>1, <1>2, <2>4 DEF SetRename, SetFails, Call
    <2> QED  BY <1>5, <2>1, <2>2, <2>3, <2>4 DEF SetSteps
  <1>6. ASSUME DelSteps(w) PROVE op'[w].pc \in {"remove", "adjust", "idle"}
    <2>1. CASE DelStat(w)
      <3>1. PICK k \in Key, old \in Nat :
              op' = [op EXCEPT ![w] = [Idle EXCEPT !.pc = "remove", !.name = k,
                                                   !.total = - old]]
        BY <2>1, StatIsNat DEF DelStat
      <3>2. op'[w] = [Idle EXCEPT !.pc = "remove", !.name = k, !.total = - old]
        BY <1>1, <3>1
      <3> QED  BY <3>2 DEF Idle
    <2>2. CASE DelRemove(w)
      BY <1>2, <1>3, <2>2 DEF DelRemove
    <2> QED  BY <1>6, <2>1, <2>2 DEF DelSteps
  <1>7. ASSUME SizeSteps(w) PROVE op'[w].pc \in {"clamp", "report", "scan", "idle"}
    <2>1. CASE Adjust(w)
      <3>1. op'[w].pc = IF cachedSize' < 0 THEN "clamp" ELSE "report"
        BY <1>1, <2>1 DEF Adjust, Call
      <3> QED  BY <3>1
    <2>2. CASE Clamp(w)
      BY <1>1, <2>2 DEF Clamp, Call
    <2>3. CASE Report(w)
      BY <1>2, <2>3 DEF Report
    <2>4. CASE ScanEntry(w)
      BY <1>1, <2>4 DEF ScanEntry, Call, At
    <2>5. CASE ScanStore(w)
      BY <1>3, <2>5 DEF ScanStore
    <2> QED  BY <1>7, <2>1, <2>2, <2>3, <2>4, <2>5 DEF SizeSteps
  <1>8. ASSUME ClearSteps(w) PROVE op'[w].pc \in {"clear", "scan", "idle"}
    <2>1. CASE ClearList(w)
      <3>1. op'[w] = [Idle EXCEPT !.pc = "clear", !.todo = Present]
        BY <1>1, <2>1 DEF ClearList
      <3> QED  BY <3>1 DEF Idle
    <2>2. CASE ClearEntry(w)
      BY <1>1, <2>2 DEF ClearEntry, Call, At
    <2>3. CASE ClearEnd(w)
      BY <1>2, <1>4, <2>3 DEF ClearEnd
    <2> QED  BY <1>8, <2>1, <2>2, <2>3 DEF ClearSteps
  <1> QED  BY <1>2, <1>3, <1>4, <1>5, <1>6, <1>7, <1>8

----------------------------------------------------------------------------
(* Calls made one at a time: the age of the file at hand.                   *)
LEMMA StepKeepsAged ==
    ASSUME NEW w, Worker = {w}, FileInv, FileInv', Aged(w), [CacheNext]_cacheVars
    PROVE  Aged(w)'
  <1>1. /\ op \in [Worker -> Call] /\ op[w] \in Call /\ Types /\ w \in Worker
        /\ clock \in Nat /\ op[w].now \in Nat
    BY CallFields DEF Types, Call
  <1>2. ASSUME op'[w].pc \notin {"check", "expire", "clean", "unlink"} PROVE Aged(w)'
    BY <1>2 DEF Aged, At
  <1>3. ASSUME Return(w) PROVE Aged(w)'
    <2>1. op'[w].pc = "idle"
      BY <1>1, <1>3, NextPoint
    <2> QED  BY <1>2, <2>1
  <1>4. ASSUME Scan(w) PROVE Aged(w)'
    <2>1. op'[w].pc \in {"scan", "idle"}
      BY <1>1, <1>4, NextPoint
    <2> QED  BY <1>2, <2>1
  <1>5. CASE SetSteps(w)
    <2>1. op'[w].pc \in {"create", "write", "rename", "adjust", "idle"}
      BY <1>1, <1>5, NextPoint
    <2> QED  BY <1>2, <2>1
  <1>6. CASE GetRead(w)
    <2>1. PICK k \in Key :
              \/ /\ k \in Present
                 /\ op' = [op EXCEPT ![w] = [Idle EXCEPT !.pc = "check", !.name = k,
                                                         !.mtime = dir[k].mtime]]
              \/ UNCHANGED op
      BY <1>6 DEF GetRead
    <2>2. dir' = dir /\ clock' = clock /\ op[w].pc = "idle"
      BY <1>6 DEF GetRead, Begin, At
    <2>3. CASE UNCHANGED op
      BY <1>2, <2>2, <2>3
    <2>4. CASE op' = [op EXCEPT ![w] = [Idle EXCEPT !.pc = "check", !.name = k,
                                                    !.mtime = dir[k].mtime]]
      <3>1. op'[w].pc = "check" /\ op'[w].name = k /\ op'[w].mtime = dir[k].mtime
        BY <1>1, <2>4 DEF Idle
      <3> QED  BY <2>2, <3>1 DEF Aged, At, ExpiredAt
    <2> QED  BY <2>1, <2>3, <2>4
  <1>7. CASE GetCheck(w)
    <2>1. CASE Return(w)
      BY <1>3, <2>1
    <2>2. CASE op[w].name \in Present /\ ~ Hit(w) /\ Goto(w, "expire")
      <3>1. op'[w].pc = "expire" /\ op'[w].name = op[w].name
        BY <1>1, <2>2 DEF Goto, Call
      <3>2. ExpiredAt(op[w].name, clock) /\ dir' = dir /\ clock' = clock
        BY <1>7, <2>2 DEF Hit, GetCheck
      <3> QED  BY <3>1, <3>2 DEF Aged, At, ExpiredAt
    <2> QED  BY <1>7, <2>1, <2>2 DEF GetCheck
  <1>8. CASE GetExpire(w)
    BY <1>3, <1>8 DEF GetExpire
  <1>9. CASE DelSteps(w)
    <2>1. op'[w].pc \in {"remove", "adjust", "idle"}
      BY <1>1, <1>9, NextPoint
    <2> QED  BY <1>2, <2>1
  <1>10. CASE SizeSteps(w)
    <2>1. op'[w].pc \in {"clamp", "report", "scan", "idle"}
      BY <1>1, <1>10, NextPoint
    <2> QED  BY <1>2, <2>1
  <1>11. CASE ClearSteps(w)
    <2>1. op'[w].pc \in {"clear", "scan", "idle"}
      BY <1>1, <1>11, NextPoint
    <2> QED  BY <1>2, <2>1
  <1>12. CASE CleanList(w)
    <2>1. op'[w].pc = "clean" /\ op'[w].now = clock /\ clock' = clock
      BY <1>1, <1>12 DEF CleanList, Idle
    <2> QED  BY <1>1, <2>1 DEF Aged, At
  <1>13. CASE CleanEntry(w)
    <2>1. PICK n \in op[w].todo :
            \/ /\ n \in Present /\ ExpiredAt(n, op[w].now)
               /\ op' = [op EXCEPT ![w].todo = @ \ {n}, ![w].pc = "unlink", ![w].name = n]
            \/ op' = [op EXCEPT ![w].todo = @ \ {n}]
      BY <1>13 DEF CleanEntry
    <2>2. op[w].pc = "clean" /\ dir' = dir /\ clock' = clock /\ op[w].now <= clock
      BY <1>13 DEF CleanEntry, At, Aged
    <2>3. \/ /\ ExpiredAt(n, op[w].now) /\ op'[w].pc = "unlink" /\ op'[w].name = n
             /\ op'[w].now = op[w].now
          \/ op'[w].pc = "clean" /\ op'[w].now = op[w].now
      BY <1>1, <2>1, <2>2 DEF Call
    <2> QED  BY <2>2, <2>3 DEF Aged, At, ExpiredAt
  <1>14. CASE CleanRemove(w)
    <2>1. op[w].pc = "unlink" /\ clock' = clock /\ op[w].now <= clock
      BY <1>14 DEF CleanRemove, At, Aged
    <2>2. op'[w].pc = "clean" /\ op'[w].now = op[w].now
      BY <1>1, <1>14 DEF CleanRemove, Goto, Call
    <2> QED  BY <2>1, <2>2 DEF Aged, At
  <1>15. CASE CleanEnd(w)
    BY <1>4, <1>15 DEF CleanEnd
  <1>16. CASE Restart
    <2>1. op'[w].pc = "idle"
      BY <1>1, <1>16 DEF Restart, Idle
    <2> QED  BY <1>2, <2>1
  <1>17. ASSUME UNCHANGED <<dir, op>>, clock <= clock', clock' \in Nat PROVE Aged(w)'
    <2>1. ASSUME NEW n \in Present, ExpiredAt(n, clock) PROVE ExpiredAt(n, clock')
      <3>1. dir[n].mtime \in Nat /\ TTL \in Nat
        BY <1>1, CacheAssumption DEF Types, File
      <3> QED  BY <1>1, <1>17, <2>1, <3>1 DEF ExpiredAt
    <2>2. Present' = Present /\ \A n, t : ExpiredAt(n, t)' <=> ExpiredAt(n, t')
      BY <1>17 DEF Present, ExpiredAt
    <2>3. op[w].pc \in {"clean", "unlink"} => op[w].now <= clock'
      BY <1>1, <1>17 DEF Aged
    <2> QED  BY <1>17, <2>1, <2>2, <2>3 DEF Aged, At, ExpiredAt
  <1>18. CASE Tick
    <2>1. clock <= clock' /\ clock' \in Nat
      BY <1>1, <1>18 DEF Tick
    <2> QED  BY <1>17, <1>18, <2>1 DEF Tick
  <1>19. CASE UNCHANGED cacheVars
    <2>1. clock <= clock' /\ clock' \in Nat
      BY <1>1, <1>19 DEF cacheVars
    <2> QED  BY <1>17, <1>19, <2>1 DEF cacheVars
  <1> QED  BY <1>5, <1>6, <1>7, <1>8, <1>9, <1>10, <1>11, <1>12, <1>13, <1>14, <1>15, <1>16,
              <1>18, <1>19 DEF CacheNext, GetSteps, CleanSteps

(* Calls made one at a time: the sizes.                                     *)
Plain == {"idle", "check", "expire", "clear", "clean", "unlink", "report"}

LEMMA PlainStep ==
    ASSUME NEW w, cachedSize' \in Int, op'[w].pc \in Plain, cachedSize' >= DirSize'
    PROVE  Sized(w)'
  <1>1. Slack(w)' = 0
    BY DEF Slack, At, Plain
  <1>2. cachedSize' + Slack(w)' >= DirSize'
    BY <1>1
  <1> QED  BY <1>2 DEF Sized, At, Plain, Writing

LEMMA SetStepsKeepSized ==
    ASSUME NEW w, Worker = {w}, Faults = FALSE, FileInv, FileInv', Sized(w), SetSteps(w)
    PROVE  Sized(w)'
  <1>1. /\ op \in [Worker -> Call] /\ op[w] \in Call /\ Types /\ Types' /\ Knows(w)
        /\ w \in Worker /\ cachedSize \in Int /\ cachedSize' = cachedSize
        /\ DirSize \in Nat /\ op[w].size \in Nat /\ op[w].total \in Int
    BY CallFields, DirSizeIsNat
       DEF Types, Call, FileInv, SetSteps, SetStat, SetCreate, SetWrite, SetRename
  <1>2. CASE SetStat(w)
    <2>1. PICK k \in Key, d \in DataSize :
            op' = [op EXCEPT ![w] = [Idle EXCEPT !.pc = "create", !.name = k,
                                                 !.size = d, !.total = SizeOf(k)]]
      BY <1>2 DEF SetStat, StatSizes
    <2>2. op'[w] = [Idle EXCEPT !.pc = "create", !.name = k, !.size = d, !.total = SizeOf(k)]
      BY <1>1, <2>1
    <2>3. op'[w].pc = "create" /\ op'[w].name = k /\ op'[w].total = SizeOf(k)
      BY <2>2 DEF Idle
    <2>4. dir' = dir /\ op[w].pc = "idle"
      BY <1>2 DEF SetStat, Begin, At
    <2>5. DirSize' = DirSize /\ SizeOf(k)' = SizeOf(k)
      BY <1>1, <2>4, SameSize
    <2>6. Slack(w) = 0 /\ Slack(w)' = 0
      BY <2>3, <2>4 DEF Slack, At
    <2>7. cachedSize' + Slack(w)' >= DirSize'
      BY <1>1, <2>5, <2>6 DEF Sized
    <2>8. SizeOf(op[w].name)' = SizeOf(k)
      BY <2>3, <2>5 DEF SizeOf
    <2> QED  BY <2>3, <2>7, <2>8 DEF Sized, At, Writing
  <1>3. CASE SetCreate(w)
    <2>1. PICK t \in Temp \ (Present \cup {op[v].temp : v \in Worker}) :
            dir' = WithFile(t, 0) /\ op' = [op EXCEPT ![w].pc = "write", ![w].temp = t]
      BY <1>3 DEF SetCreate
    <2>2. /\ op'[w].pc = "write" /\ op'[w].temp = t /\ op'[w].name = op[w].name
          /\ op'[w].total = op[w].total /\ op[w].pc = "create"
      BY <1>1, <1>3, <2>1 DEF SetCreate, At, Call
    <2>3. dir' = [m \in Present \cup {t} |->
                    IF m = t THEN [size |-> 0, mtime |-> clock] ELSE dir[m]]
      BY <2>1 DEF WithFile
    <2>4. /\ Present' = Present \cup {t} /\ SizeOf(t) = 0 /\ SizeOf(t)' = 0
          /\ \A m \in Present \ {t} : dir'[m] = dir[m]
      BY <2>1, <2>3 DEF Present, SizeOf
    <2>5. DirSize' = DirSize
      <3>1. Present' \ {t} = Present \ {t}
        BY <2>4
      <3>2. DirSize' = DirSize - SizeOf(t) + SizeOf(t)'
        BY <1>1, <2>4, <3>1, OneFileChanges
      <3> QED  BY <1>1, <2>4, <3>2
    <2>6. SizeOf(op[w].name)' = SizeOf(op[w].name)
      <3>1. op[w].name \in Key /\ op[w].name # t
        BY <1>1, <2>2, CacheAssumption DEF Knows
      <3> QED  BY <2>2, <2>3, <2>4, <3>1 DEF SizeOf
    <2>7. cachedSize' + Slack(w)' >= DirSize'
      <3>1. Slack(w) = 0 /\ Slack(w)' = 0
        BY <2>2 DEF Slack, At
      <3> QED  BY <1>1, <2>5, <3>1 DEF Sized
    <2> QED  BY <2>2, <2>4, <2>6, <2>7 DEF Sized, At, Writing
  <1>4. CASE SetWrite(w)
    <2>1. PICK t \in Temp :
          /\ op[w].pc = "write" /\ t = op[w].temp /\ t \in Present /\ op[w].name \in Key
          /\ dir' = WithFile(t, op[w].size) /\ Goto(w, "rename")
      BY <1>1, <1>4 DEF SetWrite, At, Sized, Knows, Writing
    <2>2. /\ op'[w].pc = "rename" /\ op'[w].temp = t /\ op'[w].name = op[w].name
          /\ op'[w].total = op[w].total /\ op'[w].size = op[w].size
      BY <1>1, <2>1 DEF Goto, Call
    <2>3. dir' = [m \in Present \cup {t} |->
                    IF m = t THEN [size |-> op[w].size, mtime |-> clock] ELSE dir[m]]
      BY <2>1 DEF WithFile
    <2>4. /\ Present' = Present /\ SizeOf(t)' = op[w].size
          /\ \A m \in Present \ {t} : dir'[m] = dir[m]
      <3>1. Present \cup {t} = Present
        BY <2>1
      <3>2. Present' = Present
        BY <2>3, <3>1 DEF Present
      <3>3. dir'[t] = [size |-> op[w].size, mtime |-> clock]
        BY <2>3
      <3>4. \A m \in Present \ {t} : dir'[m] = dir[m]
        BY <2>3
      <3> QED  BY <2>1, <3>2, <3>3, <3>4 DEF SizeOf
    <2>5. DirSize' = DirSize - SizeOf(t) + op[w].size /\ SizeOf(t) \in Nat
      <3>1. Present' \ {t} = Present \ {t}
        BY <2>4
      <3>2. DirSize' = DirSize - SizeOf(t) + SizeOf(t)' /\ SizeOf(t) \in Nat
        BY <1>1, <2>4, <3>1, OneFileChanges
      <3> QED  BY <2>4, <3>2
    <2>6. SizeOf(op[w].name)' = SizeOf(op[w].name)
      <3>1. op[w].name # t
        BY <2>1, CacheAssumption
      <3> QED  BY <2>2, <2>4, <3>1 DEF SizeOf
    <2>7. cachedSize' + Slack(w)' >= DirSize'
      <3>1. Slack(w) = 0 /\ Slack(w)' = op[w].size
        BY <2>1, <2>2 DEF Slack, At
      <3>2. cachedSize >= DirSize
        BY <1>1, <3>1 DEF Sized
      <3> QED  BY <1>1, <2>5, <3>1, <3>2
    <2>8. op[w].total = SizeOf(op[w].name)
      BY <2>1 DEF Sized, Writing
    <2> QED  BY <2>1, <2>2, <2>4, <2>6, <2>7, <2>8 DEF Sized, At, Writing
  <1>5. CASE SetRename(w)
    <2> DEFINE t == op[w].temp
               k == op[w].name
    <2>1. /\ op[w].pc = "rename" /\ t \in Present /\ t \in Temp /\ k \in Key
          /\ dir' = Renamed(t, k)
          /\ op' = [op EXCEPT ![w].pc = "adjust", ![w].total = op[w].size - @]
          /\ op[w].total = SizeOf(k)
      BY <1>1, <1>5 DEF SetRename, At, Sized, Knows, Writing
    <2>2. op'[w].pc = "adjust" /\ op'[w].total = op[w].size - op[w].total
      BY <1>1, <2>1 DEF Call
    <2> HIDE DEF t, k
    <2>3. DirSize' = DirSize - SizeOf(k) /\ SizeOf(k) \in Nat
      <3>1. k # t
        BY <2>1, CacheAssumption
      <3> QED  BY <1>1, <2>1, <3>1, RenameReplaces
    <2>4. cachedSize' + Slack(w)' >= DirSize'
      <3>1. Slack(w) = op[w].size /\ Slack(w)' = op[w].size - SizeOf(k)
        BY <2>1, <2>2 DEF Slack, At
      <3>2. cachedSize + op[w].size >= DirSize
        BY <3>1 DEF Sized
      <3> QED  BY <1>1, <2>3, <3>1, <3>2
    <2> QED  BY <2>2, <2>4 DEF Sized, At, Writing
  <1> QED  BY <1>2, <1>3, <1>4, <1>5 DEF SetSteps

LEMMA DelStepsKeepSized ==
    ASSUME NEW w, Worker = {w}, Faults = FALSE, FileInv, FileInv', Sized(w), DelSteps(w)
    PROVE  Sized(w)'
  <1>1. /\ op \in [Worker -> Call] /\ op[w] \in Call /\ Types /\ Types' /\ w \in Worker
        /\ cachedSize \in Int /\ cachedSize' = cachedSize /\ DirSize \in Nat
    BY CallFields, DirSizeIsNat DEF Types, Call, FileInv, DelSteps, DelStat, DelRemove
  <1>2. CASE DelStat(w)
    <2>1. PICK k \in Key :
            op' = [op EXCEPT ![w] = [Idle EXCEPT !.pc = "remove", !.name = k,
                                                 !.total = - SizeOf(k)]]
      BY <1>2 DEF DelStat, StatSizes
    <2>2. op'[w] = [Idle EXCEPT !.pc = "remove", !.name = k, !.total = - SizeOf(k)]
      BY <1>1, <2>1
    <2>3. op'[w].pc = "remove" /\ op'[w].name = k /\ op'[w].total = - SizeOf(k)
      BY <2>2 DEF Idle
    <2>4. dir' = dir /\ op[w].pc = "idle"
      BY <1>2 DEF DelStat, Begin, At
    <2>5. DirSize' = DirSize /\ SizeOf(k)' = SizeOf(k)
      BY <1>1, <2>4, SameSize
    <2>6. Slack(w) = 0 /\ Slack(w)' = 0
      BY <2>3, <2>4 DEF Slack, At
    <2>7. cachedSize' + Slack(w)' >= DirSize'
      BY <1>1, <2>5, <2>6 DEF Sized
    <2>8. SizeOf(op[w].name)' = SizeOf(k)
      BY <2>3, <2>5 DEF SizeOf
    <2> QED  BY <2>3, <2>7, <2>8 DEF Sized, At, Writing
  <1>3. CASE DelRemove(w)
    <2>1. PICK k : k = op[w].name /\ dir' = WithoutFile(k) /\ op[w].pc = "remove"
                   /\ op[w].total = - SizeOf(k)
                   /\ IF op[w].total < 0 THEN Goto(w, "adjust") ELSE Return(w)
      BY <1>3 DEF DelRemove, At, Sized
    <2>2. DirSize' = DirSize - SizeOf(k) /\ SizeOf(k) \in Nat
      BY <1>1, <2>1, RemovalShrinks
    <2>3. cachedSize >= DirSize
      <3>1. Slack(w) = 0
        BY <2>1 DEF Slack, At
      <3> QED  BY <1>1, <3>1 DEF Sized
    <2>4. CASE op[w].total < 0
      <3>1. op'[w].pc = "adjust" /\ op'[w].total = - SizeOf(k)
        BY <1>1, <2>1, <2>4 DEF Goto, Call
      <3>2. Slack(w)' = - SizeOf(k)
        BY <3>1 DEF Slack, At
      <3>3. cachedSize' + Slack(w)' >= DirSize'
        BY <1>1, <2>2, <2>3, <3>2
      <3> QED  BY <3>1, <3>3 DEF Sized, At, Writing
    <2>5. CASE ~ (op[w].total < 0)
      <3>1. op'[w].pc = "idle"
        BY <1>1, <2>1, <2>5, NextPoint
      <3>2. cachedSize' >= DirSize'
        BY <1>1, <2>1, <2>2, <2>3, <2>5
      <3> QED  BY <1>1, <3>1, <3>2, PlainStep DEF Plain
    <2> QED  BY <2>4, <2>5
  <1> QED  BY <1>2, <1>3 DEF DelSteps

LEMMA SizeStepsKeepSized ==
    ASSUME NEW w, Worker = {w}, Faults = FALSE, FileInv, FileInv', Sized(w), SizeSteps(w)
    PROVE  Sized(w)'
  <1>1. /\ op \in [Worker -> Call] /\ op[w] \in Call /\ Types /\ w \in Worker
        /\ cachedSize \in Int /\ cachedSize' \in Int /\ DirSize \in Nat /\ op[w].total \in Int
        /\ dir' = dir
    BY CallFields, DirSizeIsNat
       DEF Types, Call, FileInv, SizeSteps, Adjust, Clamp, Report, ScanEntry, ScanStore
  <1>2. DirSize' = DirSize
    BY <1>1, SameSize
  <1>3. IsFiniteSet(Present) /\ \A n \in Present : Sizes[n] \in Nat /\ Sizes[n] = SizeOf(n)
    BY <1>1 DEF Types, Sizes, SizeOf, File
  <1>4. CASE Adjust(w)
    <2>1. op[w].pc = "adjust" /\ cachedSize' = cachedSize + op[w].total
      BY <1>4 DEF Adjust, At
    <2>2. Slack(w) = op[w].total
      BY <2>1 DEF Slack, At
    <2>3. cachedSize' >= DirSize /\ ~ (cachedSize' < 0)
      BY <1>1, <2>1, <2>2 DEF Sized
    <2>4. op'[w].pc = "report"
      BY <1>1, <1>4, <2>3 DEF Adjust, Call
    <2> QED  BY <1>1, <1>2, <2>3, <2>4, PlainStep DEF Plain
  <1>5. CASE Clamp(w)
    BY <1>5 DEF Clamp, Sized
  <1>6. CASE Report(w)
    <2>1. op[w].pc = "report" /\ cachedSize' = cachedSize /\ Return(w)
      BY <1>6 DEF Report, At
    <2>2. Slack(w) = 0
      BY <2>1 DEF Slack, At
    <2>3. cachedSize' >= DirSize'
      BY <1>1, <1>2, <2>1, <2>2 DEF Sized
    <2>4. op'[w].pc = "idle"
      BY <1>1, <2>1, NextPoint
    <2> QED  BY <1>1, <2>3, <2>4, PlainStep DEF Plain
  <1>7. CASE ScanEntry(w)
    <2>1. /\ op[w].pc = "scan" /\ cachedSize' = cachedSize /\ op[w].todo \subseteq Present
          /\ op[w].total + Total(Sizes, op[w].todo) >= DirSize
      BY <1>7 DEF ScanEntry, At, Sized
    <2>2. PICK n \in op[w].todo :
            op' = [op EXCEPT ![w].todo = @ \ {n}, ![w].total = @ + SizeOf(n)]
      BY <1>7 DEF ScanEntry, StatSizes
    <2>3. /\ op'[w].pc = "scan" /\ op'[w].todo = op[w].todo \ {n}
          /\ op'[w].total = op[w].total + SizeOf(n)
      BY <1>1, <2>1, <2>2 DEF Call
    <2>4. /\ Total(Sizes, op[w].todo) = SizeOf(n) + Total(Sizes, op[w].todo \ {n})
          /\ Total(Sizes, op[w].todo \ {n}) \in Nat /\ SizeOf(n) \in Nat
      <3>1. IsFiniteSet(op[w].todo) /\ IsFiniteSet(op[w].todo \ {n})
        BY <1>3, <2>1, FS_Subset
      <3>2. \A m \in op[w].todo : Sizes[m] \in Nat
        BY <1>3, <2>1
      <3>3. Sizes[n] = SizeOf(n) /\ Sizes[n] \in Nat
        BY <1>3, <2>1
      <3>4. Total(Sizes, op[w].todo) = Sizes[n] + Total(Sizes, op[w].todo \ {n})
        BY <3>1, <3>2, TotalTakesAny
      <3>5. Total(Sizes, op[w].todo \ {n}) \in Nat
        BY <3>1, <3>2, TotalIsNat
      <3> QED  BY <3>3, <3>4, <3>5
    <2>5. Sizes' = Sizes /\ Present' = Present
      BY <1>1 DEF Sizes, SizeOf, Present
    <2>6. op'[w].total + Total(Sizes', op'[w].todo) >= DirSize'
      BY <1>1, <1>2, <2>1, <2>3, <2>4, <2>5
    <2>7. Slack(w) = 0 /\ Slack(w)' = 0
      BY <2>1, <2>3 DEF Slack, At
    <2>8. cachedSize' + Slack(w)' >= DirSize'
      BY <1>1, <1>2, <2>1, <2>7 DEF Sized
    <2>9. op'[w].todo \subseteq Present'
      BY <2>1, <2>3, <2>5
    <2> QED  BY <2>3, <2>6, <2>8, <2>9 DEF Sized, At, Writing
  <1>8. CASE ScanStore(w)
    <2>1. /\ op[w].pc = "scan" /\ cachedSize' = op[w].total /\ op[w].todo = {}
          /\ op[w].total + Total(Sizes, op[w].todo) >= DirSize
      BY <1>8 DEF ScanStore, At, Sized
    <2>2. cachedSize' >= DirSize'
      <3>1. Total(Sizes, op[w].todo) = 0
        BY <2>1, TotalOfEmpty
      <3> QED  BY <1>1, <1>2, <2>1, <3>1
    <2>3. op'[w].pc = "report"
      BY <1>1, <1>8, NextPoint DEF ScanStore
    <2> QED  BY <1>1, <2>2, <2>3, PlainStep DEF Plain
  <1> QED  BY <1>4, <1>5, <1>6, <1>7, <1>8 DEF SizeSteps

LEMMA ScanKeepsSized ==
    ASSUME NEW w, Worker = {w}, FileInv, dir' = dir, cachedSize' = cachedSize,
           cachedSize >= DirSize, Scan(w)
    PROVE  Sized(w)'
  <1>1. /\ op \in [Worker -> Call] /\ Types /\ w \in Worker
        /\ cachedSize \in Int /\ DirSize \in Nat /\ DirSize' = DirSize
    BY CallFields, DirSizeIsNat, SameSize DEF Types, FileInv
  <1>2. CASE Return(w)
    <2>1. op'[w].pc = "idle"
      BY <1>1, <1>2, NextPoint
    <2> QED  BY <1>1, <2>1, PlainStep DEF Plain
  <1>3. CASE op' = [op EXCEPT ![w] = [Idle EXCEPT !.pc = "scan", !.todo = Present]]
    <2>1. op'[w] = [Idle EXCEPT !.pc = "scan", !.todo = Present]
      BY <1>1, <1>3
    <2>2. op'[w].pc = "scan" /\ op'[w].todo = Present /\ op'[w].total = 0
      BY <2>1 DEF Idle
    <2>3. Sizes' = Sizes /\ Present' = Present /\ DirSize = Total(Sizes, Present)
      BY <1>1, DirSizeIsTotal DEF Sizes, SizeOf, Present, Types
    <2>4. op'[w].total + Total(Sizes', op'[w].todo) >= DirSize'
      BY <1>1, <2>2, <2>3
    <2>5. Slack(w)' = 0
      BY <2>2 DEF Slack, At
    <2>6. cachedSize' + Slack(w)' >= DirSize'
      BY <1>1, <2>5
    <2> QED  BY <2>2, <2>3, <2>4, <2>6 DEF Sized, At, Writing
  <1> QED  BY <1>2, <1>3 DEF Scan

LEMMA WalksKeepSized ==
    ASSUME NEW w, Worker = {w}, Faults = FALSE, FileInv, FileInv', Sized(w),
           GetSteps(w) \/ ClearSteps(w) \/ CleanSteps(w)
    PROVE  Sized(w)'
  <1>1. /\ op \in [Worker -> Call] /\ op[w] \in Call /\ Types /\ Types' /\ w \in Worker
        /\ cachedSize \in Int /\ cachedSize' = cachedSize /\ DirSize \in Nat
        /\ op[w].pc \in {"idle", "check", "expire", "clear", "clean", "unlink"}
    BY CallFields, DirSizeIsNat
       DEF Types, FileInv, GetSteps, GetRead, GetCheck, GetExpire, ClearSteps, ClearList,
           ClearEntry, ClearEnd, CleanSteps, CleanList, CleanEntry, CleanRemove, CleanEnd,
           Begin, At
  <1>2. cachedSize >= DirSize
    <2>1. Slack(w) = 0
      BY <1>1 DEF Slack, At
    <2> QED  BY <1>1, <2>1 DEF Sized
  <1>3. ASSUME op'[w].pc \in Plain, NEW n, dir' = WithoutFile(n) \/ dir' = dir
        PROVE  Sized(w)'
    <2>1. DirSize' <= DirSize /\ DirSize' \in Nat
      <3>1. CASE dir' = WithoutFile(n)
        <4>1. DirSize' = DirSize - SizeOf(n) /\ SizeOf(n) \in Nat
          BY <1>1, <3>1, RemovalShrinks
        <4>2. DirSize' \in Nat
          <5>1. (Types => DirSize \in Nat)'
            BY DirSizeIsNat, PTL
          <5> QED  BY <1>1, <5>1
        <4> QED  BY <1>1, <4>1, <4>2
      <3>2. CASE dir' = dir
        BY <1>1, <3>2, SameSize
      <3> QED  BY <1>3, <3>1, <3>2
    <2>2. cachedSize' >= DirSize'
      BY <1>1, <1>2, <2>1
    <2> QED  BY <1>1, <1>3, <2>2, PlainStep
  <1>4. ASSUME dir' = dir, Scan(w) PROVE Sized(w)'
    BY <1>1, <1>2, <1>4, ScanKeepsSized
  <1>5. CASE GetSteps(w)
    <2>1. \E n : dir' = WithoutFile(n) \/ dir' = dir
      BY <1>5 DEF GetSteps, GetRead, GetCheck, GetExpire
    <2>2. op'[w].pc \in Plain
      <3>1. CASE GetRead(w)
        <4>1. PICK k \in Key :
              \/ op' = [op EXCEPT ![w] = [Idle EXCEPT !.pc = "check", !.name = k,
                                                      !.mtime = dir[k].mtime]]
              \/ UNCHANGED op
          BY <3>1 DEF GetRead
        <4>2. CASE UNCHANGED op
          BY <3>1, <4>2 DEF GetRead, Begin, At, Plain
        <4>3. CASE op' = [op EXCEPT ![w] = [Idle EXCEPT !.pc = "check", !.name = k,
                                                        !.mtime = dir[k].mtime]]
          <5>1. op'[w] = [Idle EXCEPT !.pc = "check", !.name = k, !.mtime = dir[k].mtime]
            BY <1>1, <4>3
          <5> QED  BY <5>1 DEF Idle, Plain
        <4> QED  BY <4>1, <4>2, <4>3
      <3>2. CASE GetCheck(w)
        BY <1>1, <3>2, NextPoint DEF GetCheck, Plain
      <3>3. CASE GetExpire(w)
        BY <1>1, <3>3, NextPoint DEF GetExpire, Plain
      <3> QED  BY <1>5, <3>1, <3>2, <3>3 DEF GetSteps
    <2> QED  BY <1>3, <2>1, <2>2
  <1>6. CASE ClearSteps(w)
    <2>1. CASE ClearList(w)
      <3>1. op'[w] = [Idle EXCEPT !.pc = "clear", !.todo = Present]
        BY <1>1, <2>1 DEF ClearList
      <3>2. op'[w].pc \in Plain
        BY <3>1 DEF Idle, Plain
      <3>3. dir' = dir
        BY <2>1 DEF ClearList
      <3> QED  BY <1>3, <3>2, <3>3
    <2>2. CASE ClearEntry(w)
      <3>1. op'[w].pc \in Plain
        BY <1>1, <2>2 DEF ClearEntry, At, Call, Plain
      <3>2. \E n : dir' = WithoutFile(n) \/ dir' = dir
        BY <2>2 DEF ClearEntry
      <3> QED  BY <1>3, <3>1, <3>2
    <2>3. CASE ClearEnd(w)
      <3>1. dir' = dir /\ (Return(w) \/ Scan(w))
        BY <2>3 DEF ClearEnd
      <3>2. ASSUME Return(w) PROVE op'[w].pc \in Plain
        BY <1>1, <3>2, NextPoint DEF Plain
      <3> QED  BY <1>3, <1>4, <3>1, <3>2
    <2> QED  BY <1>6, <2>1, <2>2, <2>3 DEF ClearSteps
  <1>7. CASE CleanSteps(w)
    <2>1. CASE CleanList(w)
      <3>1. op'[w] = [Idle EXCEPT !.pc = "clean", !.todo = Present, !.now = clock]
        BY <1>1, <2>1 DEF CleanList
      <3>2. op'[w].pc \in Plain
        BY <3>1 DEF Idle, Plain
      <3>3. dir' = dir
        BY <2>1 DEF CleanList
      <3> QED  BY <1>3, <3>2, <3>3
    <2>2. CASE CleanEntry(w)
      <3>1. op'[w].pc \in Plain /\ dir' = dir
        BY <1>1, <2>2 DEF CleanEntry, At, Call, Plain
      <3> QED  BY <1>3, <3>1
    <2>3. CASE CleanRemove(w)
      <3>1. op'[w].pc \in Plain
        BY <1>1, <2>3, NextPoint DEF CleanRemove, Plain
      <3>2. dir' = WithoutFile(op[w].name) \/ dir' = dir
        BY <2>3 DEF CleanRemove
      <3> QED  BY <1>3, <3>1, <3>2
    <2>4. CASE CleanEnd(w)
      BY <1>4, <2>4 DEF CleanEnd
    <2> QED  BY <1>7, <2>1, <2>2, <2>3, <2>4 DEF CleanSteps
  <1> QED  BY <1>5, <1>6, <1>7

LEMMA StepKeepsSized ==
    ASSUME NEW w, Worker = {w}, Faults = FALSE, FileInv, FileInv', Sized(w),
           [CacheNext]_cacheVars
    PROVE  Sized(w)'
  <1>1. /\ Types /\ DirSize \in Nat /\ w \in Worker
    BY DirSizeIsNat DEF FileInv
  <1>2. CASE Restart
    <2>1. dir' = dir /\ op' = [v \in Worker |-> Idle] /\ cachedSize' = DirSize
      BY <1>2 DEF Restart
    <2>2. op'[w].pc \in Plain
      BY <1>1, <2>1 DEF Idle, Plain
    <2>3. cachedSize' \in Int /\ cachedSize' >= DirSize'
      BY <1>1, <2>1, SameSize
    <2> QED  BY <2>2, <2>3, PlainStep
  <1>3. ASSUME UNCHANGED <<dir, op, cachedSize>> PROVE Sized(w)'
    <2>1. DirSize' = DirSize /\ (\A n : SizeOf(n)' = SizeOf(n)) /\ Present' = Present
          /\ Sizes' = Sizes
      BY <1>1, <1>3, SameSize DEF Present, Sizes, SizeOf
    <2>2. SizeOf(op[w].name)' = SizeOf(op[w].name) /\ Slack(w)' = Slack(w)
      BY <1>3, <2>1 DEF Slack, At, SizeOf
    <2> QED  BY <1>3, <2>1, <2>2 DEF Sized, At
  <1>4. CASE Tick
    BY <1>3, <1>4 DEF Tick
  <1>5. CASE UNCHANGED cacheVars
    BY <1>3, <1>5 DEF cacheVars
  <1>6. ASSUME CacheNext, ~ Restart, ~ Tick
        PROVE  \/ SetSteps(w) \/ DelSteps(w) \/ SizeSteps(w)
               \/ GetSteps(w) \/ ClearSteps(w) \/ CleanSteps(w)
    BY <1>6 DEF CacheNext
  <1> QED  BY <1>2, <1>4, <1>5, <1>6, SetStepsKeepSized, DelStepsKeepSized,
              SizeStepsKeepSized, WalksKeepSized

LEMMA InitIsTurn ==
    ASSUME NEW w, Worker = {w}, CacheInit
    PROVE  Aged(w) /\ Sized(w)
  <1>1. op[w].pc = "idle" /\ cachedSize = 0 /\ Present = {}
    BY DEF CacheInit, Idle, Present
  <1>2. DirSize = 0
    BY <1>1, DirSizeIsTotal, TotalOfEmpty, FS_EmptySet
  <1>3. cachedSize + Slack(w) >= DirSize
    BY <1>1, <1>2 DEF Slack, At
  <1> QED  BY <1>1, <1>3 DEF Aged, Sized, At, Writing

(* A lone caller is never served an entry older than the TTL: what the stat *)
(* of Get sees is the file that was read.                                   *)
THEOREM LoneHitsAreFresh ==
    ASSUME NEW w, Worker = {w}
    PROVE  CacheSpec => []HitsAreFresh
  <1>1. CacheInit => Aged(w)
    BY InitIsTurn
  <1>2. FileInv /\ FileInv' /\ Aged(w) /\ [CacheNext]_cacheVars => Aged(w)'
    BY StepKeepsAged
  <1>3. FileInv /\ Aged(w) => HitsAreFresh
    <2> SUFFICES ASSUME FileInv, Aged(w), At(w, "check"), Hit(w)
                 PROVE  clock - op[w].mtime <= TTL
      BY DEF HitsAreFresh
    <2>1. /\ dir[op[w].name].mtime = op[w].mtime /\ ~ (clock - dir[op[w].name].mtime > TTL)
          /\ op[w].mtime \in Nat
      BY CallFields DEF Aged, Hit, ExpiredAt, Call
    <2>2. clock \in Nat /\ TTL \in Nat
      BY CacheAssumption DEF FileInv, Types
    <2> QED  BY <2>1, <2>2
  <1> QED  BY <1>1, <1>2, <1>3, CacheInvariance, PTL DEF CacheSpec

(* A lone caller removes on account of age only what has outlived the TTL   *)
(* (Get and CleanExpired).                                                  *)
THEOREM LoneExpiryIsRight ==
    ASSUME NEW v, Worker = {v}
    PROVE  CacheSpec => ExpiryTakesExpired
  <1> DEFINE A == \A w \in Worker :
                    op[w].pc \in {"expire", "unlink"} /\ op'[w].pc # op[w].pc
                      /\ op[w].name \in (Key \cap Present) \ DOMAIN dir'
                    => ExpiredAt(op[w].name, clock)
  <1>1. CacheInit => Aged(v)
    BY InitIsTurn
  <1>2. FileInv /\ FileInv' /\ Aged(v) /\ [CacheNext]_cacheVars => Aged(v)'
    BY StepKeepsAged
  <1>3. FileInv /\ Aged(v) /\ [CacheNext]_cacheVars
          => [A]_cacheVars
    <2> SUFFICES ASSUME FileInv, Aged(v), op[v].pc \in {"expire", "unlink"},
                        op[v].name \in Present
                 PROVE  ExpiredAt(op[v].name, clock)
      OBVIOUS
    <2>1. CASE op[v].pc = "expire"
      BY <2>1 DEF Aged, At
    <2>2. CASE op[v].pc = "unlink"
      <3>1. op[v].now - dir[op[v].name].mtime > TTL /\ op[v].now <= clock
        BY <2>2 DEF Aged, At, ExpiredAt
      <3>2. /\ op[v].now \in Nat /\ clock \in Nat /\ TTL \in Nat
            /\ dir[op[v].name].mtime \in Nat
        BY CallFields, CacheAssumption DEF FileInv, Types, Call, File
      <3> QED  BY <3>1, <3>2 DEF ExpiredAt
    <2> QED  BY <2>1, <2>2
  <1>4. ExpiryTakesExpired <=> [][A]_cacheVars
    BY DEF ExpiryTakesExpired
  <1> HIDE DEF A
  <1> QED  BY <1>1, <1>2, <1>3, <1>4, CacheInvariance, PTL DEF CacheSpec

(* When no system call fails, a lone caller leaves a reported size that is  *)
(* at least what is there: Set, Get, Del, Clear, CleanExpired and restarts  *)
(* in any order hide no bytes.                                              *)
THEOREM LoneSizeCovers ==
    ASSUME NEW w, Worker = {w}, Faults = FALSE
    PROVE  CacheSpec => []SizeIsNotUnderstated
  <1>1. CacheInit => Sized(w)
    BY InitIsTurn
  <1>2. FileInv /\ FileInv' /\ Sized(w) /\ [CacheNext]_cacheVars => Sized(w)'
    BY StepKeepsSized
  <1>3. FileInv /\ Sized(w) => SizeIsNotUnderstated
    <2> SUFFICES ASSUME FileInv, Sized(w), op[w].pc = "idle" PROVE cachedSize >= DirSize
      BY DEF SizeIsNotUnderstated, Quiet
    <2>1. cachedSize \in Int /\ Slack(w) = 0
      BY DEF FileInv, Types, Slack, At
    <2> QED  BY <2>1 DEF Sized
  <1> QED  BY <1>1, <1>2, <1>3, CacheInvariance, PTL DEF CacheSpec
----------------------------------------------------------------------------
(* The cache implements its contract: each step makes, or gives up, changes *)
(* that the call was asked to make, or is invisible.                        *)

Promise == [Contract!Next]_(Contract!promiseVars)

(* What a step of one call does to the changes it may make.                 *)
LEMMA MayUpdate ==
    ASSUME FileInv, NEW w \in Worker, NEW o, op' = [op EXCEPT ![w] = o]
    PROVE  /\ may[w] = MayOf(op[w])
           /\ may' = [may EXCEPT ![w] = MayOf(o)]
  <1>1. op \in [Worker -> Call]
    BY CallFields
  <1>2. op' = [v \in Worker |-> IF v = w THEN o ELSE op[v]]
    BY <1>1
  <1>3. may' = [v \in Worker |-> MayOf(op'[v])]
    BY DEF may
  <1>4. \A v \in Worker : MayOf(op'[v]) = IF v = w THEN MayOf(o) ELSE may[v]
    BY <1>2 DEF may
  <1>5. may' = [v \in Worker |-> IF v = w THEN MayOf(o) ELSE may[v]]
    BY <1>3, <1>4, Zenon
  <1> QED  BY <1>5 DEF may

(* What is kept changes only with the files under the keys' names.          *)
LEMMA KeptWithout ==
    ASSUME Types, NEW n, dir' = WithoutFile(n)
    PROVE  IF n \in Key THEN kept' = [kept EXCEPT ![n] = 0] ELSE kept' = kept
  <1>1. Present' = Present \ {n} /\ dir' = [m \in Present' |-> dir[m]]
    BY RemovalIsFewer DEF Fewer
  <1>2. \A k \in Key : SizeOf(k)' = IF k = n THEN 0 ELSE SizeOf(k)
    BY <1>1 DEF SizeOf
  <1> QED  BY <1>2 DEF kept

LEMMA KeptStays ==
    ASSUME \A k \in Key : k \in Present' <=> k \in Present,
           \A k \in Key \cap Present : dir'[k].size = dir[k].size
    PROVE  kept' = kept
  <1>1. \A k \in Key : SizeOf(k)' = SizeOf(k)
    BY DEF SizeOf
  <1> QED  BY <1>1 DEF kept

LEMMA SameDir ==
    ASSUME dir' = dir
    PROVE  kept' = kept
  BY DEF kept, SizeOf, Present

(* The steps of the contract.                                               *)
LEMMA Stutters ==
    ASSUME kept' = kept, may' = may
    PROVE  Promise
  BY DEF Promise, Contract!promiseVars

LEMMA Renounces ==
    ASSUME FileInv, NEW w \in Worker, NEW o, op' = [op EXCEPT ![w] = o],
           kept' = kept, MayOf(o) \subseteq MayOf(op[w])
    PROVE  Promise
  <1>1. may[w] = MayOf(op[w]) /\ may' = [may EXCEPT ![w] = MayOf(o)]
    BY MayUpdate
  <1>2. Contract!Renounce(w)
    BY <1>1 DEF Contract!Renounce
  <1> QED  BY <1>2 DEF Promise, Contract!Next

LEMMA Changes ==
    ASSUME FileInv, NEW w \in Worker, NEW o, op' = [op EXCEPT ![w] = o],
           NEW k, NEW d, <<k, d>> \in MayOf(op[w]), kept' = [kept EXCEPT ![k] = d],
           MayOf(o) = MayOf(op[w]) \ {<<k, d>>}
    PROVE  Promise
  <1>1. may[w] = MayOf(op[w]) /\ may' = [may EXCEPT ![w] = MayOf(o)]
    BY MayUpdate
  <1>2. may' = [may EXCEPT ![w] = may[w] \ {<<k, d>>}]
    BY <1>1
  <1>3. Contract!Change(w)
    BY <1>1, <1>2 DEF Contract!Change
  <1> QED  BY <1>3 DEF Promise, Contract!Next

(* A call starts with nothing left from the one before.                     *)
LEMMA AsksNothingYet ==
    ASSUME FileInv, NEW w \in Worker, op[w].pc = "idle"
    PROVE  MayOf(op[w]) = {}
  <1>1. op[w].pc \notin Storing /\ Drops(op[w]) = {}
    BY DEF Storing, Drops
  <1> QED  BY <1>1 DEF MayOf

LEMMA Asks ==
    ASSUME FileInv, NEW w \in Worker, op[w].pc = "idle", NEW o, op' = [op EXCEPT ![w] = o],
           dir' = dir,
           \/ \E k \in Key, d \in DataSize : ~ Oversized(d) /\ MayOf(o) = {<<k, d>>}
           \/ o.pc \notin Storing
    PROVE  Promise
  <1>1. may[w] = {} /\ may' = [may EXCEPT ![w] = MayOf(o)] /\ kept' = kept
    BY MayUpdate, AsksNothingYet, SameDir
  <1>2. CASE \E k \in Key, d \in DataSize : ~ Oversized(d) /\ MayOf(o) = {<<k, d>>}
    <2>1. Contract!Store(w)
      BY <1>1, <1>2 DEF Contract!Store, Contract!Ask
    <2> QED  BY <2>1 DEF Promise, Contract!Next
  <1>3. CASE o.pc \notin Storing
    <2>1. MayOf(o) = Drops(o) \X {0} /\ Drops(o) \in SUBSET Key
      BY <1>3 DEF MayOf, Drops
    <2>2. Contract!Drop(w)
      BY <1>1, <2>1 DEF Contract!Drop, Contract!Ask
    <2> QED  BY <2>2 DEF Promise, Contract!Next
  <1> QED  BY <1>2, <1>3

(* A call that removes something makes one of its removals.                 *)
LEMMA Removes ==
    ASSUME FileInv, NEW w \in Worker, NEW o, op' = [op EXCEPT ![w] = o],
           op[w].pc \notin Storing, o.pc \notin Storing,
           NEW n, dir' = WithoutFile(n), n \in Key => n \in Drops(op[w]),
           Drops(o) = Drops(op[w]) \ {n}
    PROVE  Promise
  <1>1. MayOf(op[w]) = Drops(op[w]) \X {0} /\ MayOf(o) = Drops(o) \X {0}
    BY DEF MayOf
  <1>2. IF n \in Key THEN kept' = [kept EXCEPT ![n] = 0] ELSE kept' = kept
    BY KeptWithout DEF FileInv
  <1>3. CASE n \in Key
    <2>1. <<n, 0>> \in MayOf(op[w]) /\ MayOf(o) = MayOf(op[w]) \ {<<n, 0>>}
      BY <1>1, <1>3
    <2> QED  BY <1>2, <1>3, <2>1, Changes
  <1>4. CASE n \notin Key
    <2>1. MayOf(o) \subseteq MayOf(op[w])
      BY <1>1
    <2> QED  BY <1>2, <1>4, <2>1, Renounces
  <1> QED  BY <1>3, <1>4

(* A call that ends, changing nothing.                                      *)
LEMMA ReturnRenounces ==
    ASSUME FileInv, NEW w \in Worker, Return(w), kept' = kept
    PROVE  Promise
  <1>1. op' = [op EXCEPT ![w] = Idle] /\ MayOf(Idle) = {}
    BY DEF Return, MayOf, Drops, Idle, Storing
  <1> QED  BY <1>1, Renounces

(* Set: only the rename changes what is kept, and a failure changes nothing.*)
LEMMA SetFailsRefines ==
    ASSUME FileInv, NEW w \in Worker, SetFails(w), op[w].pc \in Writing
    PROVE  Promise
  <1>1. op[w].temp \notin Key /\ Types
    BY CallFields, CacheAssumption DEF Knows
  <1>2. kept' = kept
    BY <1>1, KeptWithout DEF SetFails
  <1> QED  BY <1>2, ReturnRenounces DEF SetFails

LEMMA SetStepsRefine ==
    ASSUME FileInv, NEW w \in Worker, SetSteps(w)
    PROVE  Promise
  <1>1. op[w] \in Call /\ Types /\ Knows(w)
    BY CallFields
  <1>2. CASE SetStat(w)
    <2>0. PICK k \in Key, d \in DataSize :
              /\ ~ Oversized(d)
              /\ \E size : op' = [op EXCEPT ![w] = [Idle EXCEPT !.pc = "create",
                                             !.name = k, !.size = d, !.total = size]]
      BY <1>2 DEF SetStat
    <2>1. PICK old : op' = [op EXCEPT ![w] = [Idle EXCEPT !.pc = "create", !.name = k,
                                                          !.size = d, !.total = old]]
      BY <2>0
    <2> DEFINE o == [Idle EXCEPT !.pc = "create", !.name = k, !.size = d, !.total = old]
    <2>2. MayOf(o) = {<<k, d>>}
      <3>1. o.pc = "create" /\ o.name = k /\ o.size = d
        BY DEF Idle
      <3> HIDE DEF o
      <3> QED  BY <3>1 DEF MayOf, Storing
    <2>3. op[w].pc = "idle" /\ dir' = dir
      BY <1>2 DEF SetStat, Begin, At
    <2> HIDE DEF o
    <2>4. op' = [op EXCEPT ![w] = o]
      BY <2>1 DEF o
    <2> QED  BY <2>0, <2>2, <2>3, <2>4, Asks
  <1>3. CASE SetCreate(w)
    <2>1. CASE Faults /\ Return(w) /\ UNCHANGED dir
      BY <2>1, SameDir, ReturnRenounces
    <2>2. ASSUME NEW t \in Temp \ (Present \cup {op[v].temp : v \in Worker}),
                 dir' = WithFile(t, 0),
                 op' = [op EXCEPT ![w].pc = "write", ![w].temp = t]
          PROVE  Promise
      <3> DEFINE o == [op[w] EXCEPT !.pc = "write", !.temp = t]
      <3>1. op[w].pc = "create" /\ t \notin Key
        BY <1>3, CacheAssumption DEF SetCreate, At
      <3>2. dir' = [m \in Present \cup {t} |->
                      IF m = t THEN [size |-> 0, mtime |-> clock] ELSE dir[m]]
        BY <2>2 DEF WithFile
      <3>3. Present' = Present \cup {t}
        BY <3>2 DEF Present
      <3>4. kept' = kept
        BY <3>1, <3>2, <3>3, KeptStays
      <3>5. MayOf(o) = MayOf(op[w])
        BY <1>1, <3>1 DEF MayOf, Storing, Call
      <3>6. op' = [op EXCEPT ![w] = o]
        BY <2>2
      <3> HIDE DEF o
      <3> QED  BY <3>4, <3>5, <3>6, Renounces
    <2> QED  BY <1>3, <2>1, <2>2 DEF SetCreate
  <1>4. CASE SetWrite(w)
    <2>1. op[w].pc = "write"
      BY <1>4 DEF SetWrite, At
    <2>2. CASE Faults /\ SetFails(w)
      BY <2>1, <2>2, SetFailsRefines DEF Writing
    <2>3. CASE /\ dir' = IF op[w].temp \in Present
                         THEN WithFile(op[w].temp, op[w].size) ELSE dir
               /\ Goto(w, "rename")
      <3> DEFINE o == [op[w] EXCEPT !.pc = "rename"]
      <3>1. MayOf(o) = MayOf(op[w])
        BY <1>1, <2>1 DEF MayOf, Storing, Call
      <3>2. op' = [op EXCEPT ![w] = o]
        BY <2>3 DEF Goto
      <3>3. op[w].temp \notin Key
        BY <1>1, <2>1, CacheAssumption DEF Knows, Writing
      <3>4. kept' = kept
        <4>1. CASE op[w].temp \in Present
          <5> DEFINE t == op[w].temp
          <5>1. dir' = [m \in Present \cup {t} |->
                          IF m = t THEN [size |-> op[w].size, mtime |-> clock] ELSE dir[m]]
            BY <2>3, <4>1 DEF WithFile
          <5>2. Present' = Present \cup {t}
            BY <5>1 DEF Present
          <5> HIDE DEF t
          <5>3. t \notin Key
            BY <3>3 DEF t
          <5> QED  BY <5>1, <5>2, <5>3, KeptStays
        <4>2. CASE op[w].temp \notin Present
          BY <2>3, <4>2, SameDir
        <4> QED  BY <4>1, <4>2
      <3> HIDE DEF o
      <3> QED  BY <3>1, <3>2, <3>4, Renounces
    <2> QED  BY <1>4, <2>2, <2>3 DEF SetWrite
  <1>5. CASE SetRename(w)
    <2>1. op[w].pc = "rename"
      BY <1>5 DEF SetRename, At
    <2>2. CASE SetFails(w)
      BY <2>1, <2>2, SetFailsRefines DEF Writing
    <2>3. CASE /\ op[w].temp \in Present /\ dir' = Renamed(op[w].temp, op[w].name)
               /\ op' = [op EXCEPT ![w].pc = "adjust", ![w].total = op[w].size - @]
      <3> DEFINE o == [op[w] EXCEPT !.pc = "adjust", !.total = op[w].size - @]
                 t == op[w].temp
                 k == op[w].name
                 d == op[w].size
      <3>1. /\ k \in Key /\ k # t /\ t \in Present /\ t \notin Key
            /\ dir[t].size = d
        BY <1>1, <2>1, <2>3, CacheAssumption DEF Knows, Writing
      <3>2. MayOf(op[w]) = {<<k, d>>}
        BY <2>1 DEF MayOf, Storing
      <3>3. o.pc = "adjust"
        BY <1>1 DEF Call
      <3>4. op' = [op EXCEPT ![w] = o]
        BY <2>3
      <3>5. dir' = [m \in (Present \ {t}) \cup {k} |-> IF m = k THEN dir[t] ELSE dir[m]]
        BY <2>3 DEF Renamed
      <3> HIDE DEF o, t, k, d
      <3>6. Present' = (Present \ {t}) \cup {k}
        BY <3>5 DEF Present
      <3>7. \A j \in Key : SizeOf(j)' = IF j = k THEN d ELSE SizeOf(j)
        BY <3>1, <3>5, <3>6 DEF SizeOf
      <3>8. kept' = [kept EXCEPT ![k] = d]
        BY <3>1, <3>7 DEF kept
      <3>9. MayOf(o) = {}
        BY <3>3 DEF MayOf, Storing, Drops
      <3>10. <<k, d>> \in MayOf(op[w]) /\ MayOf(o) = MayOf(op[w]) \ {<<k, d>>}
        BY <3>2, <3>9
      <3> QED  BY <3>4, <3>8, <3>10, Changes
    <2> QED  BY <1>5, <2>2, <2>3 DEF SetRename
  <1> QED  BY <1>2, <1>3, <1>4, <1>5 DEF SetSteps

(* The bookkeeping of sizes is invisible.                                   *)
LEMMA SizeStepsRefine ==
    ASSUME FileInv, NEW w \in Worker, SizeSteps(w)
    PROVE  Promise
  <1>1. op[w] \in Call /\ kept' = kept
    BY CallFields, SameDir DEF SizeSteps, Adjust, Clamp, Report, ScanEntry, ScanStore
  <1>2. ASSUME NEW o, op' = [op EXCEPT ![w] = o], o.pc \in {"clamp", "report", "scan"}
        PROVE  Promise
    <2>1. MayOf(o) = {}
      BY <1>2 DEF MayOf, Drops, Storing
    <2> QED  BY <1>1, <1>2, <2>1, Renounces
  <1>3. CASE Adjust(w)
    <2> DEFINE o == [op[w] EXCEPT !.pc = IF cachedSize' < 0 THEN "clamp" ELSE "report",
                                  !.total = cachedSize']
    <2>1. o.pc \in {"clamp", "report"} /\ op' = [op EXCEPT ![w] = o]
      BY <1>1, <1>3 DEF Adjust, Call
    <2> HIDE DEF o
    <2> QED  BY <1>2, <2>1
  <1>4. CASE Clamp(w)
    <2> DEFINE o == [op[w] EXCEPT !.pc = "report", !.total = 0]
    <2>1. o.pc = "report" /\ op' = [op EXCEPT ![w] = o]
      BY <1>1, <1>4 DEF Clamp, Call
    <2> HIDE DEF o
    <2> QED  BY <1>2, <2>1
  <1>5. CASE Report(w)
    BY <1>1, <1>5, ReturnRenounces DEF Report
  <1>6. CASE ScanEntry(w)
    <2>1. PICK n, size : op' = [op EXCEPT ![w].todo = @ \ {n}, ![w].total = @ + size]
      BY <1>6 DEF ScanEntry
    <2> DEFINE o == [op[w] EXCEPT !.todo = @ \ {n}, !.total = @ + size]
    <2>2. o.pc = "scan" /\ op' = [op EXCEPT ![w] = o]
      BY <1>1, <1>6, <2>1 DEF ScanEntry, At, Call
    <2> HIDE DEF o
    <2> QED  BY <1>2, <2>2
  <1>7. CASE ScanStore(w)
    <2> DEFINE o == [op[w] EXCEPT !.pc = "report"]
    <2>1. o.pc = "report" /\ op' = [op EXCEPT ![w] = o]
      BY <1>1, <1>7 DEF ScanStore, Goto, Call
    <2> HIDE DEF o
    <2> QED  BY <1>2, <2>1
  <1> QED  BY <1>3, <1>4, <1>5, <1>6, <1>7 DEF SizeSteps

(* What a call that is not storing may still remove.                        *)
LEMMA DropsOf ==
    ASSUME NEW c
    PROVE  /\ c.pc \in {"check", "expire", "remove"} => Drops(c) = Key \cap {c.name}
           /\ c.pc \in {"clear", "clean"} => Drops(c) = Key \cap c.todo
           /\ c.pc = "unlink" => Drops(c) = Key \cap (c.todo \cup {c.name})
           /\ c.pc \in {"idle", "adjust", "scan"} => Drops(c) = {}
  BY DEF Drops

(* Get and Del remove the file of the key, or leave it.                     *)
LEMMA KeyStepsRefine ==
    ASSUME FileInv, NEW w \in Worker, GetSteps(w) \/ DelSteps(w)
    PROVE  Promise
  <1>1. op \in [Worker -> Call] /\ op[w] \in Call /\ Types
    BY CallFields
  <1>2. Idle.pc = "idle"
    BY DEF Idle
  <1>3. CASE GetRead(w)
    <2>1. PICK k : \/ op' = [op EXCEPT ![w] = [Idle EXCEPT !.pc = "check", !.name = k,
                                                           !.mtime = dir[k].mtime]]
                   \/ UNCHANGED op
      BY <1>3 DEF GetRead
    <2>2. op[w].pc = "idle" /\ dir' = dir
      BY <1>3 DEF GetRead, Begin, At
    <2>3. CASE UNCHANGED op
      BY <2>2, <2>3, SameDir, Stutters DEF may
    <2>4. CASE op' = [op EXCEPT ![w] = [Idle EXCEPT !.pc = "check", !.name = k,
                                                    !.mtime = dir[k].mtime]]
      <3> DEFINE o == [Idle EXCEPT !.pc = "check", !.name = k, !.mtime = dir[k].mtime]
      <3>1. o.pc \notin Storing
        BY DEF Idle, Storing
      <3>2. op' = [op EXCEPT ![w] = o]
        BY <2>4
      <3> HIDE DEF o
      <3> QED  BY <2>2, <3>1, <3>2, Asks
    <2> QED  BY <2>1, <2>3, <2>4
  <1>4. CASE GetCheck(w)
    <2>1. kept' = kept /\ op[w].pc = "check"
      BY <1>4, SameDir DEF GetCheck, At
    <2>2. ASSUME Goto(w, "expire") PROVE Promise
      <3> DEFINE o == [op[w] EXCEPT !.pc = "expire"]
      <3>1. o.pc = "expire" /\ o.name = op[w].name /\ op' = [op EXCEPT ![w] = o]
        BY <1>1, <2>2 DEF Goto, Call
      <3> HIDE DEF o
      <3>2. MayOf(o) = MayOf(op[w])
        BY <2>1, <3>1, DropsOf DEF MayOf, Storing
      <3> QED  BY <2>1, <3>1, <3>2, Renounces
    <2> QED  BY <1>4, <2>1, <2>2, ReturnRenounces DEF GetCheck
  <1>5. ASSUME NEW o, op' = [op EXCEPT ![w] = o], o.pc \in {"idle", "adjust"},
               op[w].pc \in {"expire", "remove"}, dir' = WithoutFile(op[w].name)
        PROVE  Promise
    <2>1. /\ op[w].pc \notin Storing /\ o.pc \notin Storing
          /\ Drops(op[w]) = Key \cap {op[w].name} /\ Drops(o) = {}
      BY <1>5, DropsOf DEF Storing
    <2> QED  BY <1>5, <2>1, Removes
  <1>6. CASE GetExpire(w)
    <2>1. op[w].pc = "expire" /\ Return(w) /\ op' = [op EXCEPT ![w] = Idle]
      BY <1>6 DEF GetExpire, At, Return
    <2>2. CASE dir' = WithoutFile(op[w].name)
      BY <1>2, <1>5, <2>1, <2>2
    <2>3. CASE UNCHANGED dir
      BY <2>1, <2>3, SameDir, ReturnRenounces
    <2> QED  BY <1>6, <2>2, <2>3 DEF GetExpire
  <1>7. CASE DelStat(w)
    <2>1. PICK k, old : op' = [op EXCEPT ![w] = [Idle EXCEPT !.pc = "remove", !.name = k,
                                                             !.total = - old]]
      BY <1>7 DEF DelStat
    <2>2. op[w].pc = "idle" /\ dir' = dir
      BY <1>7 DEF DelStat, Begin, At
    <2> DEFINE o == [Idle EXCEPT !.pc = "remove", !.name = k, !.total = - old]
    <2>3. o.pc \notin Storing
      BY DEF Idle, Storing
    <2>4. op' = [op EXCEPT ![w] = o]
      BY <2>1
    <2> HIDE DEF o
    <2> QED  BY <2>2, <2>3, <2>4, Asks
  <1>8. CASE DelRemove(w)
    <2>1. op[w].pc = "remove"
      BY <1>8 DEF DelRemove, At
    <2>2. CASE dir' = WithoutFile(op[w].name) /\ Return(w)
      <3>1. op' = [op EXCEPT ![w] = Idle]
        BY <2>2 DEF Return
      <3> QED  BY <1>2, <1>5, <2>1, <2>2, <3>1
    <2>3. CASE dir' = WithoutFile(op[w].name) /\ Goto(w, "adjust")
      <3> DEFINE o == [op[w] EXCEPT !.pc = "adjust"]
      <3>1. o.pc = "adjust" /\ op' = [op EXCEPT ![w] = o]
        BY <1>1, <2>3 DEF Goto, Call
      <3> HIDE DEF o
      <3> QED  BY <1>5, <2>1, <2>3, <3>1
    <2>4. CASE Return(w) /\ UNCHANGED dir
      BY <2>4, SameDir, ReturnRenounces
    <2> QED  BY <1>8, <2>2, <2>3, <2>4 DEF DelRemove
  <1> QED  BY <1>3, <1>4, <1>6, <1>7, <1>8 DEF GetSteps, DelSteps

(* The scan at the end of Clear and CleanExpired asks for no change.        *)
LEMMA ScanRefines ==
    ASSUME FileInv, NEW w \in Worker, Scan(w), dir' = dir
    PROVE  Promise
  <1>1. CASE Return(w)
    BY <1>1, SameDir, ReturnRenounces
  <1>2. CASE op' = [op EXCEPT ![w] = [Idle EXCEPT !.pc = "scan", !.todo = Present]]
    <2> DEFINE o == [Idle EXCEPT !.pc = "scan", !.todo = Present]
    <2>1. o.pc = "scan"
      BY DEF Idle
    <2>2. op' = [op EXCEPT ![w] = o]
      BY <1>2
    <2> HIDE DEF o
    <2>3. MayOf(o) = {}
      BY <2>1, DropsOf DEF MayOf, Storing
    <2> QED  BY <2>2, <2>3, SameDir, Renounces
  <1> QED  BY <1>1, <1>2 DEF Scan

\* The entry CleanExpired has at hand is no longer among those it listed.
Once == \A w \in Worker : op[w].pc = "unlink" => op[w].name \notin op[w].todo

(* Clear and CleanExpired remove what they listed, an entry at a time.      *)
LEMMA WalksRefine ==
    ASSUME FileInv, Once, NEW w \in Worker, ClearSteps(w) \/ CleanSteps(w)
    PROVE  Promise
  <1>1. op \in [Worker -> Call] /\ op[w] \in Call /\ Types
    BY CallFields
  <1>2. ASSUME NEW o, op' = [op EXCEPT ![w] = o], op[w].pc = "idle", dir' = dir,
               o.pc \in {"clear", "clean"}
        PROVE  Promise
    BY <1>2, Asks DEF Storing
  <1>3. CASE ClearList(w)
    <2> DEFINE o == [Idle EXCEPT !.pc = "clear", !.todo = Present]
    <2>1. o.pc = "clear"
      BY DEF Idle
    <2>2. op[w].pc = "idle" /\ dir' = dir /\ op' = [op EXCEPT ![w] = o]
      BY <1>3 DEF ClearList, Begin, At
    <2> HIDE DEF o
    <2> QED  BY <1>2, <2>1, <2>2
  <1>4. CASE ClearEntry(w)
    <2>1. PICK n \in op[w].todo, fault \in {FALSE, Faults} :
            /\ dir' = IF fault THEN dir ELSE WithoutFile(n)
            /\ op' = [op EXCEPT ![w].todo = @ \ {n},
                                ![w].bad = @ \/ fault \/ n \notin Present]
      BY <1>4 DEF ClearEntry
    <2> DEFINE o == [op[w] EXCEPT !.todo = @ \ {n},
                                  !.bad = @ \/ fault \/ n \notin Present]
    <2>2. op[w].pc = "clear"
      BY <1>4 DEF ClearEntry, At
    <2>3. o.pc = "clear" /\ o.todo = op[w].todo \ {n} /\ op' = [op EXCEPT ![w] = o]
      BY <1>1, <2>1, <2>2 DEF Call
    <2> HIDE DEF o
    <2>4. /\ Drops(op[w]) = Key \cap op[w].todo /\ Drops(o) = Drops(op[w]) \ {n}
          /\ op[w].pc \notin Storing /\ o.pc \notin Storing
      BY <2>2, <2>3, DropsOf DEF Storing
    <2>5. CASE fault
      <3>1. kept' = kept
        BY <2>1, <2>5, SameDir
      <3>2. MayOf(o) \subseteq MayOf(op[w])
        BY <2>4 DEF MayOf
      <3> QED  BY <2>3, <3>1, <3>2, Renounces
    <2>6. CASE ~ fault
      BY <2>1, <2>3, <2>4, <2>6, Removes
    <2> QED  BY <2>5, <2>6
  <1>5. CASE ClearEnd(w)
    BY <1>5, SameDir, ReturnRenounces, ScanRefines DEF ClearEnd
  <1>6. CASE CleanList(w)
    <2> DEFINE o == [Idle EXCEPT !.pc = "clean", !.todo = Present, !.now = clock]
    <2>1. o.pc = "clean"
      BY DEF Idle
    <2>2. op[w].pc = "idle" /\ dir' = dir /\ op' = [op EXCEPT ![w] = o]
      BY <1>6 DEF CleanList, Begin, At
    <2> HIDE DEF o
    <2> QED  BY <1>2, <2>1, <2>2
  <1>7. CASE CleanEntry(w)
    <2>1. PICK n \in op[w].todo :
            \/ op' = [op EXCEPT ![w].todo = @ \ {n}, ![w].pc = "unlink", ![w].name = n]
            \/ op' = [op EXCEPT ![w].todo = @ \ {n}]
      BY <1>7 DEF CleanEntry
    <2>2. op[w].pc = "clean" /\ kept' = kept
      BY <1>7, SameDir DEF CleanEntry, At
    <2>3. ASSUME NEW o, op' = [op EXCEPT ![w] = o], Drops(o) \subseteq Key \cap op[w].todo,
                 o.pc \notin Storing
          PROVE  Promise
      <3>1. MayOf(o) \subseteq MayOf(op[w])
        BY <2>2, <2>3, DropsOf DEF MayOf, Storing
      <3> QED  BY <2>2, <2>3, <3>1, Renounces
    <2>4. CASE op' = [op EXCEPT ![w].todo = @ \ {n}, ![w].pc = "unlink", ![w].name = n]
      <3> DEFINE o == [op[w] EXCEPT !.todo = @ \ {n}, !.pc = "unlink", !.name = n]
      <3>1. /\ o.pc = "unlink" /\ o.name = n /\ o.todo = op[w].todo \ {n}
            /\ op' = [op EXCEPT ![w] = o]
        BY <1>1, <2>4 DEF Call
      <3> HIDE DEF o
      <3>2. Drops(o) \subseteq Key \cap op[w].todo /\ o.pc \notin Storing
        BY <2>1, <3>1, DropsOf DEF Storing
      <3> QED  BY <2>3, <3>1, <3>2
    <2>5. CASE op' = [op EXCEPT ![w].todo = @ \ {n}]
      <3> DEFINE o == [op[w] EXCEPT !.todo = @ \ {n}]
      <3>1. o.pc = "clean" /\ o.todo = op[w].todo \ {n} /\ op' = [op EXCEPT ![w] = o]
        BY <1>1, <2>2, <2>5 DEF Call
      <3> HIDE DEF o
      <3>2. Drops(o) \subseteq Key \cap op[w].todo /\ o.pc \notin Storing
        BY <3>1, DropsOf DEF Storing
      <3> QED  BY <2>3, <3>1, <3>2
    <2> QED  BY <2>1, <2>4, <2>5
  <1>8. CASE CleanRemove(w)
    <2> DEFINE o == [op[w] EXCEPT !.pc = "clean"]
    <2>1. /\ op[w].pc = "unlink" /\ o.pc = "clean" /\ o.todo = op[w].todo
          /\ op' = [op EXCEPT ![w] = o]
      BY <1>1, <1>8 DEF CleanRemove, At, Goto, Call
    <2> HIDE DEF o
    <2>2. op[w].name \notin op[w].todo
      BY <2>1 DEF Once
    <2>3. /\ Drops(op[w]) = Key \cap (op[w].todo \cup {op[w].name})
          /\ Drops(o) = Key \cap op[w].todo
          /\ op[w].pc \notin Storing /\ o.pc \notin Storing
      BY <2>1, DropsOf DEF Storing
    <2>4. CASE dir' = WithoutFile(op[w].name)
      <3>1. /\ Drops(o) = Drops(op[w]) \ {op[w].name}
            /\ op[w].name \in Key => op[w].name \in Drops(op[w])
        BY <2>2, <2>3
      <3> QED  BY <2>1, <2>3, <2>4, <3>1, Removes
    <2>5. CASE UNCHANGED dir
      <3>1. MayOf(o) \subseteq MayOf(op[w])
        BY <2>3 DEF MayOf
      <3> QED  BY <2>1, <2>5, <3>1, SameDir, Renounces
    <2> QED  BY <1>8, <2>4, <2>5 DEF CleanRemove
  <1>9. CASE CleanEnd(w)
    BY <1>9, ScanRefines DEF CleanEnd
  <1> QED  BY <1>3, <1>4, <1>5, <1>6, <1>7, <1>8, <1>9 DEF ClearSteps, CleanSteps

(* A step of one call leaves the others where they are.                     *)
LEMMA StepIsLocal ==
    ASSUME op \in [Worker -> Call], NEW w \in Worker, NEW v \in Worker \ {w},
           \/ SetSteps(w) \/ GetSteps(w) \/ DelSteps(w)
           \/ SizeSteps(w) \/ ClearSteps(w) \/ CleanSteps(w)
    PROVE  op'[v] = op[v]
  <1>1. ASSUME Return(w) \/ Scan(w) \/ \E p : Goto(w, p) PROVE op'[v] = op[v]
    BY <1>1 DEF Return, Scan, Goto
  <1>2. CASE SetSteps(w)
    <2>1. CASE SetStat(w)
      BY <2>1 DEF SetStat
    <2>2. CASE SetCreate(w)
      BY <1>1, <2>2 DEF SetCreate
    <2>3. CASE SetWrite(w)
      BY <1>1, <2>3 DEF SetWrite, SetFails
    <2>4. CASE SetRename(w)
      BY <1>1, <2>4 DEF SetRename, SetFails
    <2> QED  BY <1>2, <2>1, <2>2, <2>3, <2>4 DEF SetSteps
  <1>3. CASE GetSteps(w)
    BY <1>1, <1>3 DEF GetSteps, GetRead, GetCheck, GetExpire
  <1>4. CASE DelSteps(w)
    BY <1>1, <1>4 DEF DelSteps, DelStat, DelRemove
  <1>5. CASE SizeSteps(w)
    BY <1>1, <1>5 DEF SizeSteps, Adjust, Clamp, Report, ScanEntry, ScanStore
  <1>6. CASE ClearSteps(w)
    BY <1>1, <1>6 DEF ClearSteps, ClearList, ClearEntry, ClearEnd
  <1>7. CASE CleanSteps(w)
    BY <1>1, <1>7 DEF CleanSteps, CleanList, CleanEntry, CleanRemove, CleanEnd
  <1> QED  BY <1>2, <1>3, <1>4, <1>5, <1>6, <1>7

(* CleanExpired takes each entry off its list.                              *)
LEMMA StepKeepsOnce ==
    ASSUME FileInv, Once, [CacheNext]_cacheVars
    PROVE  Once'
  <1>1. op \in [Worker -> Call] /\ \A v \in Worker : op[v] \in Call
    BY DEF FileInv, Types
  <1>2. CASE Restart
    <2>1. Idle.pc = "idle"
      BY DEF Idle
    <2> QED  BY <1>2, <2>1 DEF Restart, Once
  <1>3. CASE Tick \/ UNCHANGED cacheVars
    BY <1>3 DEF Tick, cacheVars, Once
  <1>4. ASSUME NEW w \in Worker,
               \/ SetSteps(w) \/ GetSteps(w) \/ DelSteps(w)
               \/ SizeSteps(w) \/ ClearSteps(w) \/ CleanSteps(w)
        PROVE  Once'
    <2>1. \A v \in Worker \ {w} : op'[v] = op[v]
      BY <1>1, <1>4, StepIsLocal
    <2>2. SUFFICES ASSUME op'[w].pc = "unlink" PROVE op'[w].name \notin op'[w].todo
      BY <2>1 DEF Once
    <2>3. ~ SetSteps(w) /\ ~ DelSteps(w) /\ ~ SizeSteps(w) /\ ~ ClearSteps(w)
      BY <2>2, NextPoint
    <2>4. ~ Return(w) /\ ~ Scan(w) /\ \A p : Goto(w, p) => p = "unlink"
      BY <2>2, NextPoint
    <2>5. CASE GetSteps(w)
      <3>1. GetRead(w)
        BY <2>4, <2>5 DEF GetSteps, GetCheck, GetExpire
      <3>2. op[w].pc = "idle" /\ op'[w] # op[w]
        BY <2>2, <3>1 DEF GetRead, Begin, At
      <3>3. PICK k : op' = [op EXCEPT ![w] = [Idle EXCEPT !.pc = "check", !.name = k,
                                                          !.mtime = dir[k].mtime]]
        BY <3>1, <3>2 DEF GetRead
      <3>4. op'[w] = [Idle EXCEPT !.pc = "check", !.name = k, !.mtime = dir[k].mtime]
        BY <1>1, <3>3
      <3> QED  BY <2>2, <3>4 DEF Idle
    <2>6. CASE CleanSteps(w)
      <3>1. CASE CleanList(w)
        <4>1. op'[w] = [Idle EXCEPT !.pc = "clean", !.todo = Present, !.now = clock]
          BY <1>1, <3>1 DEF CleanList
        <4> QED  BY <2>2, <4>1 DEF Idle
      <3>2. CASE CleanEntry(w)
        <4>1. op[w].pc = "clean"
          BY <3>2 DEF CleanEntry, At
        <4>2. PICK n \in op[w].todo :
                \/ op' = [op EXCEPT ![w].todo = @ \ {n}, ![w].pc = "unlink", ![w].name = n]
                \/ op' = [op EXCEPT ![w].todo = @ \ {n}]
          BY <3>2 DEF CleanEntry
        <4> QED  BY <1>1, <2>2, <4>1, <4>2 DEF Call
      <3> QED  BY <2>4, <2>6, <3>1, <3>2 DEF CleanSteps, CleanRemove, CleanEnd
    <2> QED  BY <1>4, <2>3, <2>5, <2>6
  <1> QED  BY <1>2, <1>3, <1>4 DEF CacheNext

LEMMA StepRefines ==
    ASSUME FileInv, Once, [CacheNext]_cacheVars
    PROVE  Promise
  <1>1. ASSUME NEW w \in Worker,
               \/ SetSteps(w) \/ GetSteps(w) \/ DelSteps(w)
               \/ SizeSteps(w) \/ ClearSteps(w) \/ CleanSteps(w)
        PROVE  Promise
    BY <1>1, SetStepsRefine, KeyStepsRefine, SizeStepsRefine, WalksRefine
  <1>2. CASE Restart
    <2>1. kept' = kept
      BY <1>2, SameDir DEF Restart
    <2>2. MayOf(Idle) = {}
      BY DEF MayOf, Drops, Idle, Storing
    <2>3. may' = [w \in Worker |-> {}]
      <3>1. op' = [w \in Worker |-> Idle]
        BY <1>2 DEF Restart
      <3> QED  BY <2>2, <3>1 DEF may
    <2>4. Contract!Crash
      BY <2>1, <2>3 DEF Contract!Crash
    <2> QED  BY <2>4 DEF Promise, Contract!Next
  <1>3. CASE Tick \/ UNCHANGED cacheVars
    <2>1. dir' = dir /\ op' = op
      BY <1>3 DEF Tick, cacheVars
    <2> QED  BY <2>1, SameDir, Stutters DEF may
  <1> QED  BY <1>1, <1>2, <1>3 DEF CacheNext

(* Whatever calls interleave, fail or are cut short by a restart, an entry  *)
(* changes only as a call was asked to change it, whole and once (Set, Get, *)
(* Del, Clear and CleanExpired on one directory).                           *)
THEOREM ImplementsCacheContract == CacheSpec => CacheContractSpec
  <1>1. CacheInit => Contract!Init /\ Once
    <2> SUFFICES ASSUME CacheInit PROVE Contract!Init /\ Once
      OBVIOUS
    <2>1. \A w \in Worker : op[w] = Idle
      BY DEF CacheInit
    <2>2. MayOf(Idle) = {} /\ Idle.pc = "idle"
      BY DEF MayOf, Drops, Idle, Storing
    <2>3. may = [w \in Worker |-> {}]
      BY <2>1, <2>2 DEF may
    <2>4. kept = [k \in Key |-> 0]
      BY DEF CacheInit, kept, SizeOf, Present
    <2> QED  BY <2>1, <2>2, <2>3, <2>4 DEF Contract!Init, Once
  <1>2. FileInv /\ Once /\ [CacheNext]_cacheVars => Once'
    BY StepKeepsOnce
  <1>3. FileInv /\ Once /\ [CacheNext]_cacheVars
          => [Contract!Next]_(Contract!promiseVars)
    BY StepRefines DEF Promise
  <1> QED  BY <1>1, <1>2, <1>3, CacheInvariance, PTL
           DEF CacheSpec, CacheContractSpec, Contract!Spec
=============================================================================

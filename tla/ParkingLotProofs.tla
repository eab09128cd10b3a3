-------------------------- MODULE ParkingLotProofs --------------------------
(***************************************************************************)
(* Proofs about ParkingLot: types, the size of the table and the order of  *)
(* the bucket locks, for any threads, addresses, hash and factors.         *)
(*                                                                         *)
(* The inductive invariant LInv says what a thread has loaded at each of   *)
(* its labels, that lockHashtable takes the locks of its table from the    *)
(* lowest bucket up, and that the table is large enough or a thread on its *)
(* way to make it so.  Most steps are Quiet: they have nothing to do with  *)
(* growing, and one lemma (QuietStep) covers them.                         *)
(*                                                                         *)
(* The library's theorems come in at the end only, as SetFacts and Counts: *)
(* the lemmas before take the two as assumptions.                          *)
(***************************************************************************)
EXTENDS ParkingLot, TLAPS

\* An element of a sequence over T is in T.
LEMMA ElementOf == ASSUME NEW T, NEW s \in Seq(T), NEW i \in 1 .. Len(s) PROVE s[i] \in T
OBVIOUS

\* The labels of a thread in ensureHashtableSize, on its first park.
Growing == {"grow", "lockTable", "fill", "lockBuckets"}

\* The table, the tables and their buckets: no table is without slots, and buckets have a number.
SpineOK ==
    /\ hashtable \in 0 .. Len(tables)
    /\ tables \in Seq(Seq(0 .. Len(queue))) /\ \A i \in 1 .. Len(tables) : Len(tables[i]) >= 1
    /\ queue \in Seq(Seq(Threads))
    /\ lockedBy \in Seq(Threads \cup {Null}) /\ Len(lockedBy) = Len(queue)

\* The words that several threads write, and the count of the ThreadDatas.
SharedOK ==
    /\ numThreads = Cardinality({t \in Threads : local[t].hasData})
    /\ address \in [Threads -> Addresses \cup {Null}]
    /\ m_hasWaiters \in [Addresses -> BOOLEAN]

\* What a thread has loaded by the time it is at its label.
Loaded(me) ==
    /\ me.pc \in {"fill", "lockBuckets", "bucket", "lock"} => me.table # 0
    /\ me.pc = "lock" => me.bucket # 0
    /\ me.pc \notin {"idle", "giveUp", "wake"} => me.arg \in Addresses
    /\ me.pc = "wake" => me.toWake # <<>>
    /\ me.threads # 0 <=> me.pc \in Growing

\* Every thread's locals.
LocalOK == local \in [Threads -> Locals] /\ \A t \in Threads : Loaded(local[t])

\* The buckets whose locks lockHashtable has collected for t.
HeldBy(t) == {b \in 1 .. Len(lockedBy) : lockedBy[b] = t}

\* lockHashtable has taken the locks of the buckets with the lowest addresses, and of its table only;
\* nobody else has any over a step.
Collects(t) ==
    IF At(t, "lockBuckets")
    THEN /\ 0 \notin Range(tables[local[t].table])
         /\ HeldBy(t) \subseteq Range(tables[local[t].table])
         /\ \A b \in HeldBy(t), c \in Unlocked(t) : b < c
    ELSE HeldBy(t) = {}

\* Every thread does so.
Collecting == \A t \in Threads : Collects(t)

\* The inductive invariant.  LoadFactorKept is part of it: it says how far growing has come.
LInv == SpineOK /\ SharedOK /\ LocalOK /\ Collecting /\ LoadFactorKept

\* What the proofs need to know about the number of threads: Cardinality on sets of threads
Counts ==
    /\ Cardinality(Threads) \in Nat
    /\ \A S \in SUBSET Threads : Cardinality(S) \in 0 .. Cardinality(Threads)
    /\ \A S \in SUBSET Threads, t \in Threads :
          /\ Cardinality(S \cup {t}) = IF t \in S THEN Cardinality(S) ELSE Cardinality(S) + 1
          /\ Cardinality(S \ {t}) = IF t \in S THEN Cardinality(S) - 1 ELSE Cardinality(S)

\* What a thread takes from the queue of its bucket, and what it leaves there, are threads in order
TakesThreads(t) ==
    /\ Matching(t) \in Seq(Threads) /\ FirstMatching(t) \in Seq(Threads)
    /\ \A some : Without(myQueue(t), some) \in Seq(Threads)

\* What the proofs use of the library's theorems on numbers and finite sets, which come in at the end
SetFacts ==
    /\ \A S \in SUBSET Nat : S # {} => \E x \in S : \A y \in S : x <= y
    /\ IsFiniteSet({}) /\ Cardinality({}) = 0 /\ \A n \in Nat : IsFiniteSet(1 .. n)
    /\ \A S : IsFiniteSet(S) => Cardinality(S) \in Nat /\ (Cardinality(S) = 0 <=> S = {})
    /\ \A S : IsFiniteSet(S) => \A T \in SUBSET S : IsFiniteSet(T) /\ Cardinality(T) <= Cardinality(S)
    /\ \A S : IsFiniteSet(S) => \A x \in S :
          IsFiniteSet(S \ {x}) /\ Cardinality(S \ {x}) = Cardinality(S) - 1

\* A step that takes no table or bucket away and leaves the full tables as they are.
Grown ==
    /\ SpineOK' /\ Len(tables) <= Len(tables') /\ Len(queue) <= Len(queue')
    /\ \A i \in 1 .. Len(tables) :
          Len(tables'[i]) = Len(tables[i]) /\ (0 \notin Range(tables[i]) => tables'[i] = tables[i])

\* A step that leaves the locks alone; a new bucket is not locked.
LocksKept ==
    /\ \A b \in 1 .. Len(lockedBy) : lockedBy'[b] = lockedBy[b]
    /\ \A b \in 1 .. Len(lockedBy') : b > Len(lockedBy) => lockedBy'[b] = Null

\* A step in which t gives back all its locks.
LocksDropped(t) ==
    /\ \A b \in 1 .. Len(lockedBy) : lockedBy'[b] = IF lockedBy[b] = t THEN Null ELSE lockedBy[b]
    /\ \A b \in 1 .. Len(lockedBy') : b > Len(lockedBy) => lockedBy'[b] = Null

\* A step that changes no locals but t's.
OnlyLocal(t) == local' = [local EXCEPT ![t] = local'[t]]

\* A step of t that keeps the types and the number of threads.
Plain(t) ==
    /\ OnlyLocal(t) /\ local'[t] \in Locals' /\ Loaded(local'[t])
    /\ local'[t].hasData = local[t].hasData /\ numThreads' = numThreads
    /\ address' \in [Threads -> Addresses \cup {Null}]
    /\ m_hasWaiters' \in [Addresses -> BOOLEAN]

\* u holds the same locks after the step,
HoldsSame(u) ==
    \A b \in 1 .. Len(lockedBy') : lockedBy'[b] = u <=> b <= Len(lockedBy) /\ lockedBy[b] = u

\* or none at all.
HoldsNone(u) == \A b \in 1 .. Len(lockedBy') : lockedBy'[b] # u

\* The steps that have nothing to do with growing the table: most of them are.
Quiet(t) ==
    /\ Grown /\ LocksKept /\ Plain(t) /\ (hashtable' = hashtable \/ hashtable = 0)
    /\ local'[t].threads = local[t].threads
    /\ ~At(t, "lockBuckets") /\ local'[t].pc # "lockBuckets"

\* The threads that numThreads counts.
WithData == {u \in Threads : local[u].hasData}

-----------------------------------------------------------------------------
(* What a step does to the locals of its thread.                           *)

\* Locals stay in their types when there are more tables and buckets.
LEMMA Widened == ASSUME LInv, Grown, NEW t \in Threads PROVE local[t] \in Locals /\ local[t] \in Locals'
<1>1. local[t] \in Locals
  BY Zenon DEF LInv, LocalOK
<1>2. Len(tables) \in Nat /\ Len(tables') \in Nat /\ Len(queue) \in Nat /\ Len(queue') \in Nat
  BY DEF LInv, SpineOK, Grown
<1>3. 0 .. Len(tables) \subseteq 0 .. Len(tables') /\ 0 .. Len(queue) \subseteq 0 .. Len(queue')
  BY <1>2 DEF Grown
<1>4. local[t] \in Locals'
  BY <1>1, <1>3, Zenon DEF Locals
<1> QED BY <1>1, <1>4, Zenon

\* It is enough to look at the locals of the thread that makes the step.
LEMMA LocalStep ==
    ASSUME LInv, Grown, NEW t \in Threads, OnlyLocal(t), local'[t] \in Locals', Loaded(local'[t])
    PROVE  LocalOK'
<1>1. local \in [Threads -> Locals] /\ \A u \in Threads : Loaded(local[u])
  BY Zenon DEF LInv, LocalOK
<1>2. \A u \in Threads : local'[u] = IF u = t THEN local'[t] ELSE local[u]
  BY <1>1, Zenon DEF OnlyLocal
<1>3. \A u \in Threads : local'[u] \in Locals' /\ Loaded(local'[u])
  BY <1>1, <1>2, Widened, Zenon
<1>4. local' = [u \in Threads |-> local'[u]]
  BY <1>1, Zenon DEF OnlyLocal
<1>5. local' \in [Threads -> Locals']
  BY <1>3, <1>4, Zenon
<1> QED BY <1>3, <1>5, Zenon DEF LocalOK

\* A Plain step keeps the types of the words and of the locals.
LEMMA PlainStep == ASSUME LInv, Grown, NEW t \in Threads, Plain(t) PROVE SharedOK' /\ LocalOK'
<1>1. LocalOK'
  BY LocalStep, Zenon DEF Plain
<1>2. \A u \in Threads : local'[u].hasData = local[u].hasData
  <2>1. local \in [Threads -> Locals]
    BY Zenon DEF LInv, LocalOK
  <2>2. \A u \in Threads : local'[u] = IF u = t THEN local'[t] ELSE local[u]
    BY <2>1, Zenon DEF Plain, OnlyLocal
  <2> QED BY <2>2, Zenon DEF Plain
<1>3. {u \in Threads : local'[u].hasData} = {u \in Threads : local[u].hasData}
  BY <1>2, Zenon
<1>4. SharedOK'
  BY <1>3, Zenon DEF LInv, SharedOK, Plain
<1> QED BY <1>1, <1>4, Zenon

\* The locals of a thread that returns have their types.
LEMMA DoneFacts ==
    ASSUME LInv, Grown, NEW t \in Threads, local[t].pc \notin Growing
    PROVE  Done(local[t]) \in Locals' /\ Loaded(Done(local[t]))
       /\ Done(local[t]).hasData = local[t].hasData
<1>1. local[t] \in Locals' /\ local[t] \in Locals
  BY Widened, Zenon
<1>2. local[t].threads = 0
  BY Zenon DEF LInv, LocalOK, Loaded
<1>3. Len(tables') \in Nat /\ Len(queue') \in Nat
  BY DEF Grown, SpineOK
<1>z. 0 \in 0 .. Len(tables') /\ 0 \in 0 .. Len(queue')
  BY <1>3
<1>4. Done(local[t]) \in Locals'
  BY <1>1, <1>z, Zenon DEF Locals, Labels, Done
<1>5. Loaded(Done(local[t])) /\ Done(local[t]).hasData = local[t].hasData
  BY <1>1, <1>2, Zenon DEF Done, Loaded, Growing, Locals
<1> QED BY <1>4, <1>5, Zenon

\* What Return does.
LEMMA ReturnFacts ==
    ASSUME LInv, Grown, NEW t \in Threads, local[t].pc \notin Growing, Return(t)
    PROVE  /\ OnlyLocal(t) /\ local'[t] = Done(local[t]) /\ local'[t] \in Locals' /\ Loaded(local'[t])
           /\ local'[t].hasData = local[t].hasData
<1>1. local \in [Threads -> Locals]
  BY Zenon DEF LInv, LocalOK
<1>2. local'[t] = Done(local[t]) /\ OnlyLocal(t)
  BY <1>1, Zenon DEF Return, OnlyLocal
<1> QED BY <1>2, DoneFacts, Zenon

\* What Leave does.
LEMMA LeaveFacts ==
    ASSUME Counts, LInv, Grown, NEW t \in Threads, NEW l \in {"load", "sleep", "giveUp"}, Leave(t, l),
           l = "giveUp" \/ local[t].arg \in Addresses
    PROVE  /\ OnlyLocal(t) /\ local'[t] \in Locals' /\ Loaded(local'[t])
           /\ local'[t].hasData = local[t].hasData /\ local'[t].pc = l /\ local'[t].threads = 0
<1> DEFINE me == [local[t] EXCEPT !.pc = l, !.table = 0, !.bucket = 0, !.threads = 0]
<1>1. local \in [Threads -> Locals] /\ local[t] \in Locals /\ local[t] \in Locals'
  BY Widened, Zenon DEF LInv, LocalOK
<1>2. local'[t] = me /\ OnlyLocal(t)
  BY <1>1, Zenon DEF Leave, OnlyLocal, Locals
<1>3. Len(tables') \in Nat /\ Len(queue') \in Nat /\ Cardinality(Threads) \in Nat
  BY DEF Counts, Grown, SpineOK
<1>z. 0 \in 0 .. Len(tables') /\ 0 \in 0 .. Len(queue') /\ 0 \in 0 .. Cardinality(Threads)
  BY <1>3
<1>4. me \in Locals'
  BY <1>1, <1>z, Zenon DEF Locals, Labels
<1>5. Loaded(me) /\ me.hasData = local[t].hasData /\ me.pc = l /\ me.threads = 0
  BY <1>1, Zenon DEF Loaded, Growing, Locals
<1> QED BY <1>2, <1>4, <1>5, Zenon

\* What Goto does.
LEMMA GotoFacts ==
    ASSUME LInv, Grown, NEW t \in Threads, NEW l \in Labels, Goto(t, l),
           Loaded([local[t] EXCEPT !.pc = l])
    PROVE  /\ OnlyLocal(t) /\ local'[t] \in Locals' /\ Loaded(local'[t])
           /\ local'[t].hasData = local[t].hasData /\ local'[t].pc = l
           /\ local'[t].threads = local[t].threads /\ local'[t].table = local[t].table
<1> DEFINE me == [local[t] EXCEPT !.pc = l]
<1>1. local \in [Threads -> Locals] /\ local[t] \in Locals /\ local[t] \in Locals'
  BY Widened, Zenon DEF LInv, LocalOK
<1>2. local'[t] = me /\ OnlyLocal(t)
  BY <1>1, Zenon DEF Goto, OnlyLocal, Locals
<1>4. me \in Locals'
  BY <1>1, Zenon DEF Locals
<1>5. me.hasData = local[t].hasData /\ me.pc = l /\ me.threads = local[t].threads
      /\ me.table = local[t].table
  BY <1>1, Zenon DEF Locals
<1> QED BY <1>2, <1>4, <1>5, Zenon

-----------------------------------------------------------------------------
(* Locks and tables that a step leaves alone.                              *)

\* What the changes of the locks mean for each thread.
LEMMA HoldFacts ==
    ASSUME LInv, Grown, NEW t \in Threads
    PROVE  /\ LocksKept => \A u \in Threads : HoldsSame(u)
           /\ LocksKept /\ ~At(t, "lockBuckets") => HoldsNone(t)
           /\ LocksDropped(t) => HoldsNone(t) /\ \A u \in Threads \ {t} : HoldsSame(u)
<1>1. Len(lockedBy) \in Nat /\ Len(lockedBy') \in Nat /\ Len(lockedBy) <= Len(lockedBy')
  BY DEF LInv, SpineOK, Grown
<1>2. Null \notin Threads
  BY NullAssumption, Zenon
<1>3. \A b \in 1 .. Len(lockedBy') : b \in 1 .. Len(lockedBy) <=> b <= Len(lockedBy)
  BY <1>1
<1>4. \A b \in 1 .. Len(lockedBy') : b <= Len(lockedBy) \/ b > Len(lockedBy)
  BY <1>1
<1>5. LocksKept => \A u \in Threads : HoldsSame(u)
  BY <1>2, <1>3, <1>4, Zenon DEF LocksKept, HoldsSame
<1>6. LocksDropped(t) => HoldsNone(t) /\ \A u \in Threads \ {t} : HoldsSame(u)
  BY <1>2, <1>3, <1>4, Zenon DEF LocksDropped, HoldsSame, HoldsNone
<1>7. LocksKept /\ ~At(t, "lockBuckets") => HoldsNone(t)
  <2>1. ~At(t, "lockBuckets") => HeldBy(t) = {}
    BY Zenon DEF LInv, Collecting, Collects
  <2> QED BY <1>3, <1>5, <2>1, Zenon DEF HoldsSame, HoldsNone, HeldBy
<1> QED BY <1>5, <1>6, <1>7, Zenon

\* The collecting of a thread is not disturbed by the steps of others: its table has all its buckets,
\* so nobody changes it.
LEMMA OtherCollects ==
    ASSUME LInv, Grown, NEW u \in Threads, local'[u] = local[u], HoldsSame(u)
    PROVE  Collects(u)'
<1>1. Len(lockedBy) \in Nat /\ Len(lockedBy') \in Nat /\ Len(lockedBy) <= Len(lockedBy')
      /\ Len(lockedBy) = Len(queue)
  BY DEF LInv, SpineOK, Grown
<1>2. HeldBy(u)' = HeldBy(u)
  BY <1>1 DEF HoldsSame, HeldBy
<1>3. CASE ~At(u, "lockBuckets")
  BY <1>2, <1>3, Zenon DEF Collects, At, LInv, Collecting
<1>4. CASE At(u, "lockBuckets")
  <2>1. local[u] \in Locals /\ Loaded(local[u]) /\ local[u].pc = "lockBuckets"
    BY <1>4, Zenon DEF LInv, LocalOK, At
  <2>2. local[u].table \in 1 .. Len(tables)
    BY <2>1 DEF Locals, Loaded
  <2>3. 0 \notin Range(tables[local[u].table])
    BY <1>4, Zenon DEF LInv, Collecting, Collects
  <2>4. tables'[local[u].table] = tables[local[u].table]
    BY <2>2, <2>3, Zenon DEF Grown
  <2>5. tables[local[u].table] \in Seq(0 .. Len(queue))
    BY <2>2, ElementOf, Zenon DEF LInv, SpineOK
  <2>6. Range(tables[local[u].table]) \subseteq 1 .. Len(lockedBy)
    BY <1>1, <2>3, <2>5 DEF Range
  <2>7. Unlocked(u)' = Unlocked(u)
    BY <1>1, <2>4, <2>6 DEF Unlocked, HoldsSame
  <2> QED BY <1>2, <1>4, <2>4, <2>7, Zenon DEF Collects, At, LInv, Collecting
<1> QED BY <1>3, <1>4, Zenon

\* A step that leaves its thread with no locks keeps the order of collecting.
LEMMA CollectStep ==
    ASSUME LInv, Grown, NEW t \in Threads, OnlyLocal(t), \A u \in Threads \ {t} : HoldsSame(u),
           HoldsNone(t), local'[t].pc # "lockBuckets" \/ 0 \notin Range(tables'[local'[t].table])
    PROVE  Collecting'
<1>1. \A u \in Threads \ {t} : local'[u] = local[u]
  BY Zenon DEF OnlyLocal, LInv, LocalOK
<1>2. \A u \in Threads \ {t} : Collects(u)'
  BY <1>1, OtherCollects, Zenon
<1>3. HeldBy(t)' = {}
  BY Zenon DEF HoldsNone, HeldBy
<1>4. Collects(t)'
  BY <1>3, Zenon DEF Collects, At
<1> QED BY <1>2, <1>4, Zenon DEF Collecting

\* maxLoadFactor times a number grows with it.
LEMMA Times ==
    ASSUME NEW m \in Nat, NEW n \in Nat, m <= n
    PROVE  /\ maxLoadFactor * m \in Nat /\ maxLoadFactor * n \in Nat
           /\ maxLoadFactor * m <= maxLoadFactor * n
<1>1. maxLoadFactor \in Nat
  BY FactorAssumption, Zenon
<1> QED BY <1>1

\* A step that does not grow the table, nor count threads, keeps the load factor.
LEMMA LoadStep ==
    ASSUME LInv, Grown, NEW t \in Threads, OnlyLocal(t), numThreads' = numThreads,
           hashtable' = hashtable \/ hashtable = 0, local'[t].threads = local[t].threads
    PROVE  LoadFactorKept'
<1>1. \A u \in Threads : local'[u].threads = local[u].threads
  BY Zenon DEF OnlyLocal, LInv, LocalOK
<1>2. CASE hashtable # 0 /\ Len(tables[hashtable]) >= maxLoadFactor * numThreads
  <2>1. hashtable \in 1 .. Len(tables) /\ hashtable' = hashtable
    BY <1>2 DEF LInv, SpineOK
  <2>2. Len(tables'[hashtable]) = Len(tables[hashtable])
    BY <2>1, Zenon DEF Grown
  <2> QED BY <1>2, <2>1, <2>2, Zenon DEF LoadFactorKept
<1>3. CASE numThreads = 0 \/ \E u \in Threads : local[u].threads >= numThreads
  BY <1>1, <1>3, Zenon DEF LoadFactorKept
<1> QED BY <1>2, <1>3, Zenon DEF LInv, LoadFactorKept

\* A Quiet step keeps the invariant.
LEMMA QuietStep == ASSUME LInv, NEW t \in Threads, Quiet(t) PROVE LInv'
<1>1. Grown /\ LocksKept /\ OnlyLocal(t) /\ numThreads' = numThreads
  BY Zenon DEF Quiet, Plain
<1>2. SharedOK' /\ LocalOK'
  BY <1>1, PlainStep, Zenon DEF Quiet
<1>3. Collecting'
  <2>1. HoldsNone(t) /\ \A u \in Threads : HoldsSame(u)
    BY <1>1, HoldFacts, Zenon DEF Quiet
  <2> QED BY <1>1, <2>1, CollectStep, Zenon DEF Quiet
<1>4. LoadFactorKept'
  BY <1>1, LoadStep, Zenon DEF Quiet
<1> QED BY <1>1, <1>2, <1>3, <1>4, Zenon DEF LInv, Grown

-----------------------------------------------------------------------------
(* The steps that only change locals and shared words.                     *)

\* A step that changes no table and no bucket.
LEMMA SpineKept == ASSUME LInv, UNCHANGED <<spine, buckets>> PROVE Grown /\ LocksKept
<1>1. SpineOK' /\ Len(tables) \in Nat /\ Len(queue) \in Nat /\ Len(lockedBy) \in Nat
  BY DEF LInv, SpineOK, spine, buckets
<1> QED BY <1>1 DEF Grown, LocksKept, spine, buckets

\* The same, with the current table.
LEMMA SpineQuiet ==
    ASSUME LInv, NEW t \in Threads, UNCHANGED <<spine, buckets>>
    PROVE  Grown /\ LocksKept /\ hashtable' = hashtable
BY SpineKept, Zenon DEF spine

\* A step that changes no shared word keeps their types.
LEMMA SharedTypes ==
    ASSUME LInv, UNCHANGED shared
    PROVE  /\ numThreads' = numThreads /\ address' \in [Threads -> Addresses \cup {Null}]
           /\ m_hasWaiters' \in [Addresses -> BOOLEAN]
BY Zenon DEF LInv, SharedOK, shared

\* Returning is Quiet.
LEMMA ReturnQuiet ==
    ASSUME LInv, NEW t \in Threads, UNCHANGED <<spine, buckets>>, Return(t), local[t].pc \notin Growing,
           numThreads' = numThreads, address' \in [Threads -> Addresses \cup {Null}],
           m_hasWaiters' \in [Addresses -> BOOLEAN]
    PROVE  Quiet(t)
<1>1. Grown /\ LocksKept /\ hashtable' = hashtable
  BY SpineQuiet, Zenon
<1>2. Plain(t) /\ local'[t] = Done(local[t])
  BY <1>1, ReturnFacts, Zenon DEF Plain
<1>3. local[t] \in Locals
  BY Zenon DEF LInv, LocalOK
<1>4. local'[t].threads = local[t].threads /\ local'[t].pc = "idle"
  BY <1>2, <1>3, Zenon DEF Done, Locals
<1> QED BY <1>1, <1>2, <1>4, Zenon DEF Quiet, At, Growing

\* Beginning an operation is Quiet.
LEMMA BeginQuiet ==
    ASSUME LInv, NEW t \in Threads, UNCHANGED <<spine, buckets, shared>>, local[t].pc \in {"idle", "sleep"},
           NEW l \in {"load", "clear"}, NEW k \in {"wait", "compare", "timedOut", "one", "all"},
           NEW a \in Addresses, Begin(t, l, k, a)
    PROVE  Quiet(t)
<1> DEFINE me == [local[t] EXCEPT !.pc = l, !.kind = k, !.arg = a]
<1>1. Grown /\ LocksKept /\ hashtable' = hashtable
  BY SpineQuiet, Zenon
<1>2. local \in [Threads -> Locals] /\ local[t] \in Locals /\ local[t] \in Locals' /\ Loaded(local[t])
  BY <1>1, Widened, Zenon DEF LInv, LocalOK
<1>3. local'[t] = me /\ OnlyLocal(t)
  BY <1>2, Zenon DEF Begin, OnlyLocal, Locals
<1>4. me \in Locals'
  BY <1>2, Zenon DEF Locals, Labels
<1>5. Loaded(me) /\ me.hasData = local[t].hasData /\ me.threads = local[t].threads
      /\ me.pc # "lockBuckets"
  BY <1>2, Zenon DEF Loaded, Growing, Locals
<1>6. Plain(t)
  BY <1>3, <1>4, <1>5, SharedTypes, Zenon DEF Plain
<1> QED BY <1>1, <1>3, <1>5, <1>6, Zenon DEF Quiet, At

\* notifyOne, notifyAll and the timeout begin operations.
LEMMA CallSteps ==
    ASSUME LInv, NEW t \in Threads, NEW a \in Addresses
    PROVE  /\ notifyOne(t, a) => Quiet(t)
           /\ notifyAll(t, a) => Quiet(t)
           /\ TimeOut(t) => Quiet(t)
<1>1. notifyOne(t, a) => Quiet(t)
  BY BeginQuiet, Zenon DEF notifyOne, At
<1>2. notifyAll(t, a) => Quiet(t)
  BY BeginQuiet, Zenon DEF notifyAll, At
<1>3. ASSUME TimeOut(t) PROVE Quiet(t)
  <2>1. local[t].arg \in Addresses
    BY <1>3, Zenon DEF TimeOut, At, LInv, LocalOK, Loaded
  <2> QED BY <1>3, <2>1, BeginQuiet, Zenon DEF TimeOut, At
<1> QED BY <1>1, <1>2, <1>3, Zenon

\* The steps that end parkConditionally.
LEMMA ReturnSteps ==
    ASSUME LInv, NEW t \in Threads
    PROVE  /\ DontPark(t) => Quiet(t)
           /\ Awake(t) => Quiet(t)
           /\ GiveUp(t) => Quiet(t)
<1>1. ASSUME DontPark(t) PROVE Quiet(t)
  <2>1. local[t].pc \notin Growing
    BY <1>1, Zenon DEF DontPark, InBucket, LockFree, At, Growing
  <2> QED BY <1>1, <2>1, SharedTypes, ReturnQuiet, Zenon DEF DontPark
<1>2. ASSUME Awake(t) PROVE Quiet(t)
  <2>1. local[t].pc \notin Growing
    BY <1>2, Zenon DEF Awake, At, Growing
  <2> QED BY <1>2, <2>1, SharedTypes, ReturnQuiet, Zenon DEF Awake
<1>3. ASSUME GiveUp(t) PROVE Quiet(t)
  <2>1. local[t].pc \notin Growing
    BY <1>3, Zenon DEF GiveUp, At, Growing
  <2>2. numThreads' = numThreads /\ address' \in [Threads -> Addresses \cup {Null}]
        /\ m_hasWaiters' \in [Addresses -> BOOLEAN]
    BY <1>3, Zenon DEF GiveUp, LInv, SharedOK
  <2> QED BY <1>3, <2>1, <2>2, ReturnQuiet, Zenon DEF GiveUp
<1> QED BY <1>1, <1>2, <1>3, Zenon

\* notifyAll clears m_hasWaiters.
LEMMA ClearStep == ASSUME LInv, NEW t \in Threads, ClearHasWaiters(t) PROVE Quiet(t)
<1>1. Grown /\ LocksKept /\ hashtable' = hashtable
  BY SpineQuiet, Zenon DEF ClearHasWaiters
<1>2. local[t] \in Locals /\ Loaded(local[t]) /\ local[t].pc = "clear"
  BY Zenon DEF LInv, LocalOK, ClearHasWaiters, At
<1>3. Loaded([local[t] EXCEPT !.pc = "load"])
  BY <1>2, Zenon DEF Loaded, Growing, Locals
<1>4. Goto(t, "load") /\ "load" \in Labels
  BY Zenon DEF ClearHasWaiters, Labels
<1>5. /\ OnlyLocal(t) /\ local'[t] \in Locals' /\ Loaded(local'[t]) /\ local'[t].pc = "load"
      /\ local'[t].hasData = local[t].hasData /\ local'[t].threads = local[t].threads
  BY <1>1, <1>3, <1>4, GotoFacts, Zenon
<1>6. numThreads' = numThreads /\ address' \in [Threads -> Addresses \cup {Null}]
      /\ m_hasWaiters' \in [Addresses -> BOOLEAN]
  BY Zenon DEF ClearHasWaiters, LInv, SharedOK
<1> QED BY <1>1, <1>2, <1>5, <1>6, Zenon DEF Quiet, Plain, At

\* Leaving a bucket is Quiet.
LEMMA LeaveQuiet ==
    ASSUME Counts, LInv, NEW t \in Threads, Grown, LocksKept, hashtable' = hashtable,
           NEW l \in {"load", "sleep", "giveUp"}, Leave(t, l), local[t].pc \in {"bucket", "lock"},
           numThreads' = numThreads, address' \in [Threads -> Addresses \cup {Null}],
           m_hasWaiters' \in [Addresses -> BOOLEAN]
    PROVE  Quiet(t)
<1>1. local[t].arg \in Addresses /\ local[t].threads = 0
  BY Zenon DEF LInv, LocalOK, Loaded, Growing
<1>2. /\ OnlyLocal(t) /\ local'[t] \in Locals' /\ Loaded(local'[t])
      /\ local'[t].hasData = local[t].hasData /\ local'[t].pc = l /\ local'[t].threads = 0
  BY <1>1, LeaveFacts, Zenon
<1>3. Plain(t)
  BY <1>2, Zenon DEF Plain
<1> QED BY <1>1, <1>2, <1>3, Zenon DEF Quiet, At

\* dequeue finds no bucket, and enqueue or dequeue find the table rehashed.
LEMMA NoBucketSteps ==
    ASSUME Counts, LInv, NEW t \in Threads
    PROVE  /\ NoBucket(t) => Quiet(t)
           /\ Rehashed(t) => Quiet(t)
<1>1. ASSUME NoBucket(t) PROVE Quiet(t)
  <2>1. UNCHANGED <<spine, buckets>> /\ UNCHANGED shared /\ local[t].pc = "bucket"
    BY <1>1, Zenon DEF NoBucket, At
  <2>2. CASE local[t].kind = "all"
    <3>1. Return(t) /\ local[t].pc \notin Growing
      BY <1>1, <2>1, <2>2, Zenon DEF NoBucket, Growing
    <3> QED BY <2>1, <3>1, SharedTypes, ReturnQuiet, Zenon
  <2>3. CASE local[t].kind # "all"
    <3>1. Leave(t, "giveUp")
      BY <1>1, <2>3, Zenon DEF NoBucket
    <3> QED BY <2>1, <3>1, SharedTypes, SpineQuiet, LeaveQuiet, Zenon
  <2> QED BY <2>2, <2>3, Zenon
<1>2. ASSUME Rehashed(t) PROVE Quiet(t)
  <2>1. UNCHANGED <<spine, buckets>> /\ UNCHANGED shared /\ local[t].pc = "lock" /\ Leave(t, "load")
    BY <1>2, Zenon DEF Rehashed, LockFree, At
  <2> QED BY <2>1, SharedTypes, SpineQuiet, LeaveQuiet, Zenon
<1> QED BY <1>1, <1>2, Zenon

\* Going on to wake the threads dequeued, or returning when there are none.
LEMMA WakeQuiet ==
    ASSUME LInv, NEW t \in Threads, Grown, LocksKept, hashtable' = hashtable,
           local[t].pc \in {"lock", "wake"}, NEW some \in Seq(Threads), WakeThem(t, some),
           numThreads' = numThreads, address' \in [Threads -> Addresses \cup {Null}],
           m_hasWaiters' \in [Addresses -> BOOLEAN]
    PROVE  Quiet(t)
<1> DEFINE done == [Done(local[t]) EXCEPT !.toWake = <<>>]
           more == [local[t] EXCEPT !.pc = "wake", !.table = 0, !.bucket = 0, !.toWake = some]
<1>1. local \in [Threads -> Locals] /\ local[t] \in Locals /\ local[t] \in Locals' /\ Loaded(local[t])
  BY Widened, Zenon DEF LInv, LocalOK
<1>2. local'[t] = (IF some = <<>> THEN done ELSE more) /\ OnlyLocal(t)
  BY <1>1, Zenon DEF WakeThem, OnlyLocal
<1>3. 0 \in 0 .. Len(tables') /\ 0 \in 0 .. Len(queue') /\ <<>> \in Seq(Threads)
  BY DEF Grown, SpineOK
<1>4. Done(local[t]) \in Locals' /\ Loaded(Done(local[t])) /\ Done(local[t]).hasData = local[t].hasData
  BY DoneFacts, Zenon DEF Growing
<1>5. done \in Locals'
  BY <1>3, <1>4, Zenon DEF Locals
<1>6. Loaded(done) /\ done.hasData = local[t].hasData /\ done.threads = local[t].threads
      /\ done.pc # "lockBuckets"
  BY <1>1, <1>4 DEF Loaded, Growing, Locals, Done
<1>7. more \in Locals'
  BY <1>1, <1>3, Zenon DEF Locals, Labels
<1>8. more.hasData = local[t].hasData /\ more.threads = local[t].threads /\ more.pc # "lockBuckets"
  BY <1>1, Zenon DEF Locals
<1>9. some # <<>> => Loaded(more)
  BY <1>1, Zenon DEF Loaded, Growing, Locals
<1> HIDE DEF done, more
<1>10. Plain(t)
  BY <1>2, <1>5, <1>6, <1>7, <1>8, <1>9, Zenon DEF Plain
<1> QED BY <1>2, <1>6, <1>8, <1>10, Zenon DEF Quiet, At

-----------------------------------------------------------------------------
(* The steps that count threads or grow the table.                         *)

\* What numThreads is, and becomes with one thread more or less.
LEMMA CountFacts ==
    ASSUME Counts, LInv, NEW t \in Threads
    PROVE  /\ numThreads = Cardinality(WithData) /\ numThreads \in Nat
           /\ Cardinality(WithData \cup {t}) = IF local[t].hasData THEN numThreads ELSE numThreads + 1
           /\ Cardinality(WithData \ {t}) = IF local[t].hasData THEN numThreads - 1 ELSE numThreads
           /\ Cardinality(WithData \cup {t}) <= Cardinality(Threads) /\ Cardinality(Threads) \in Nat
           /\ local[t].hasData => numThreads >= 1
<1>1. /\ WithData \in SUBSET Threads /\ WithData \cup {t} \in SUBSET Threads
      /\ WithData \ {t} \in SUBSET Threads /\ (t \in WithData <=> local[t].hasData)
  BY Zenon DEF WithData
<1>2. numThreads = Cardinality(WithData)
  BY Zenon DEF LInv, SharedOK, WithData
<1>3. /\ Cardinality(Threads) \in Nat /\ Cardinality(WithData) \in 0 .. Cardinality(Threads)
      /\ Cardinality(WithData \cup {t}) \in 0 .. Cardinality(Threads)
      /\ Cardinality(WithData \ {t}) \in 0 .. Cardinality(Threads)
  BY <1>1, Zenon DEF Counts
<1>4. /\ Cardinality(WithData \cup {t}) = IF t \in WithData THEN Cardinality(WithData) ELSE Cardinality(WithData) + 1
      /\ Cardinality(WithData \ {t}) = IF t \in WithData THEN Cardinality(WithData) - 1 ELSE Cardinality(WithData)
  BY <1>1, Zenon DEF Counts
<1> QED BY <1>1, <1>2, <1>3, <1>4

\* ~ThreadData counts the thread out: the table is only the larger for it.
LEMMA EndsStep == ASSUME Counts, LInv, NEW t \in Threads, ThreadEnds(t) PROVE LInv'
<1>1. Grown /\ LocksKept /\ hashtable' = hashtable
  BY SpineQuiet, Zenon DEF ThreadEnds
<1>2. local \in [Threads -> Locals] /\ local[t] \in Locals /\ local[t] \in Locals' /\ Loaded(local[t])
  BY <1>1, Widened, Zenon DEF LInv, LocalOK
<1> DEFINE me == [local[t] EXCEPT !.hasData = FALSE]
<1>3. local'[t] = me /\ OnlyLocal(t)
  BY <1>2, Zenon DEF ThreadEnds, OnlyLocal, Locals
<1>4. me \in Locals' /\ me.pc = local[t].pc /\ me.threads = local[t].threads /\ ~me.hasData
  BY <1>2, Zenon DEF Locals
<1>5. Loaded(me)
  BY <1>2, Zenon DEF Loaded, Locals
<1>6. LocalOK'
  BY <1>1, <1>3, <1>4, <1>5, LocalStep, Zenon
<1>7. local[t].pc = "idle" /\ local[t].hasData /\ numThreads' = numThreads - 1
      /\ UNCHANGED <<address, m_hasWaiters>>
  BY Zenon DEF ThreadEnds, At
<1>8. \A u \in Threads : local'[u] = IF u = t THEN me ELSE local[u]
  BY <1>2, <1>3, Zenon DEF OnlyLocal
<1>9. SharedOK'
  <2>1. {u \in Threads : local'[u].hasData} = WithData \ {t}
    BY <1>4, <1>8, Zenon DEF WithData
  <2>2. numThreads' = Cardinality({u \in Threads : local'[u].hasData})
    BY <1>7, <2>1, CountFacts, Zenon
  <2> QED BY <1>7, <2>2, Zenon DEF SharedOK, LInv
<1>10. Collecting'
  <2>1. HoldsNone(t) /\ \A u \in Threads : HoldsSame(u)
    BY <1>1, <1>7, HoldFacts, Zenon DEF At
  <2> QED BY <1>1, <1>3, <1>4, <1>7, <2>1, CollectStep, Zenon
<1>11. LoadFactorKept'
  <2>1. numThreads \in Nat /\ numThreads' \in Nat /\ numThreads' <= numThreads /\ numThreads # 0
    <3>1. numThreads \in Nat /\ numThreads >= 1
      BY <1>7, CountFacts, Zenon
    <3> QED BY <1>7, <3>1
  <2>2. \A u \in Threads : local'[u].threads = local[u].threads /\ local[u].threads \in Nat
    <3>1. \A u \in Threads : local[u].threads \in 0 .. Cardinality(Threads)
      BY <1>2, Zenon DEF Locals
    <3>2. \A u \in Threads : local[u].threads \in Nat
      BY <3>1, CountFacts
    <3> QED BY <1>4, <1>8, <3>2, Zenon
  <2>3. CASE hashtable # 0 /\ Len(tables[hashtable]) >= maxLoadFactor * numThreads
    <3>1. hashtable \in 1 .. Len(tables) /\ Len(tables[hashtable]) \in Nat
      BY <2>3 DEF LInv, SpineOK
    <3>2. Len(tables'[hashtable]) = Len(tables[hashtable])
      BY <1>1, <3>1, Zenon DEF Grown
    <3>3. Len(tables'[hashtable]) >= maxLoadFactor * numThreads'
      <4>1. /\ maxLoadFactor * numThreads \in Nat /\ maxLoadFactor * numThreads' \in Nat
            /\ maxLoadFactor * numThreads' <= maxLoadFactor * numThreads
        BY <2>1, Times, Zenon
      <4> QED BY <2>3, <3>1, <3>2, <4>1
    <3> QED BY <1>1, <2>3, <3>3, Zenon DEF LoadFactorKept
  <2>4. CASE \E u \in Threads : local[u].threads >= numThreads
    <3>1. \E u \in Threads : local'[u].threads >= numThreads'
      BY <2>1, <2>2, <2>4
    <3> QED BY <3>1, Zenon DEF LoadFactorKept
  <2> QED BY <2>1, <2>3, <2>4, Zenon DEF LInv, LoadFactorKept
<1> QED BY <1>1, <1>6, <1>9, <1>10, <1>11, Zenon DEF LInv, Grown

\* The first call of parkConditionally counts its thread in; until it has left ensureHashtableSize the
\* load factor is its business.
LEMMA CallParkStep ==
    ASSUME Counts, LInv, NEW t \in Threads, NEW a \in Addresses, NEW k \in {"wait", "compare"},
           parkConditionally(t, a, k)
    PROVE  LInv'
<1>0. local[t].pc = "idle" /\ UNCHANGED <<spine, buckets>> /\ UNCHANGED <<address, m_hasWaiters>>
  BY Zenon DEF parkConditionally, At
<1>1. CASE local[t].hasData
  <2>1. Begin(t, "load", k, a) /\ UNCHANGED <<spine, buckets, shared>>
    BY <1>0, <1>1, Zenon DEF parkConditionally, shared
  <2>2. Quiet(t)
    BY <1>0, <2>1, BeginQuiet, Zenon
  <2> QED BY <2>2, QuietStep, Zenon
<1>2. CASE ~local[t].hasData
  <2> DEFINE n == numThreads + 1
             me == [local[t] EXCEPT !.pc = "grow", !.kind = k, !.arg = a, !.hasData = TRUE, !.threads = n]
  <2>1. Grown /\ LocksKept /\ hashtable' = hashtable
    BY <1>0, SpineQuiet, Zenon
  <2>2. local \in [Threads -> Locals] /\ local[t] \in Locals /\ local[t] \in Locals' /\ Loaded(local[t])
    BY <2>1, Widened, Zenon DEF LInv, LocalOK
  <2>3. n \in Nat \ {0} /\ n \in 0 .. Cardinality(Threads) /\ Cardinality(WithData \cup {t}) = n
    <3>1. /\ numThreads \in Nat /\ Cardinality(WithData \cup {t}) = numThreads + 1
          /\ Cardinality(WithData \cup {t}) <= Cardinality(Threads) /\ Cardinality(Threads) \in Nat
      BY <1>2, CountFacts, Zenon
    <3> QED BY <3>1
  <2>4. numThreads' = n
    BY <1>2, Zenon DEF parkConditionally
  <2>5. local' = [local EXCEPT ![t].pc = "grow", ![t].kind = k, ![t].arg = a, ![t].hasData = TRUE, ![t].threads = n]
    BY <1>2, <2>4, Zenon DEF parkConditionally
  <2> HIDE DEF n
  <2>6. local'[t] = me /\ OnlyLocal(t)
    BY <2>2, <2>5, Zenon DEF OnlyLocal, Locals
  <2>7. me \in Locals'
    BY <2>2, <2>3, Zenon DEF Locals, Labels
  <2>8. Loaded(me) /\ me.hasData /\ me.threads = n /\ me.pc = "grow"
    BY <2>2, <2>3, Zenon DEF Loaded, Growing, Locals
  <2>9. LocalOK'
    BY <2>1, <2>6, <2>7, <2>8, LocalStep, Zenon
  <2>10. SharedOK'
    <3>1. \A u \in Threads : local'[u] = IF u = t THEN me ELSE local[u]
      BY <2>2, <2>6, Zenon DEF OnlyLocal
    <3>2. {u \in Threads : local'[u].hasData} = WithData \cup {t}
      BY <2>8, <3>1, Zenon DEF WithData
    <3> QED BY <1>0, <2>3, <2>4, <3>2, Zenon DEF SharedOK, LInv
  <2>11. Collecting'
    <3>1. HoldsNone(t) /\ \A u \in Threads : HoldsSame(u)
      BY <1>0, <2>1, HoldFacts, Zenon DEF At
    <3> QED BY <2>1, <2>6, <2>8, <3>1, CollectStep, Zenon
  <2>12. LoadFactorKept'
    <3>1. local'[t].threads = numThreads' /\ numThreads' \in Nat
      BY <2>3, <2>4, <2>6, <2>8, Zenon
    <3>2. local'[t].threads >= numThreads'
      BY <3>1
    <3> QED BY <3>2, Zenon DEF LoadFactorKept
  <2> QED BY <2>1, <2>9, <2>10, <2>11, <2>12, Zenon DEF LInv, Grown
<1> QED BY <1>1, <1>2, Zenon

\* A thread leaves ensureHashtableSize with a table large enough for the threads it has counted.  If
\* numThreads is larger, a thread that was counted later is still in there.
LEMMA LeavesGrowing ==
    ASSUME Counts, LInv, NEW t \in Threads, Grown, OnlyLocal(t), numThreads' = numThreads,
           hashtable' \in 1 .. Len(tables'),
           Len(tables'[hashtable']) >= maxLoadFactor * local[t].threads,
           hashtable # 0 => Len(tables'[hashtable']) >= Len(tables[hashtable])
    PROVE  LoadFactorKept'
<1>1. numThreads \in Nat /\ local[t].threads \in Nat
  <2>1. local[t].threads \in 0 .. Cardinality(Threads)
    BY Zenon DEF LInv, LocalOK, Locals
  <2>2. numThreads \in Nat /\ Cardinality(Threads) \in Nat
    BY CountFacts, Zenon
  <2> QED BY <2>1, <2>2
<1>2. \A u \in Threads \ {t} : local'[u] = local[u]
  BY Zenon DEF OnlyLocal, LInv, LocalOK
<1>3. Len(tables'[hashtable']) \in Nat /\ hashtable' # 0
  BY DEF Grown, SpineOK
<1>4. CASE numThreads = 0
  BY <1>4, Zenon DEF LoadFactorKept
<1>5. CASE hashtable # 0 /\ Len(tables[hashtable]) >= maxLoadFactor * numThreads
  <2>1. Len(tables[hashtable]) \in Nat
    BY <1>5 DEF LInv, SpineOK
  <2>2. maxLoadFactor * numThreads \in Nat
    <3>1. numThreads <= numThreads
      BY <1>1
    <3> QED BY <1>1, <3>1, Times, Zenon
  <2>3. Len(tables'[hashtable']) >= maxLoadFactor * numThreads
    BY <1>3, <1>5, <2>1, <2>2
  <2> QED BY <1>3, <2>3, Zenon DEF LoadFactorKept
<1>6. CASE \E u \in Threads : local[u].threads >= numThreads
  <2>1. CASE local[t].threads >= numThreads
    <3>1. /\ maxLoadFactor * numThreads \in Nat /\ maxLoadFactor * local[t].threads \in Nat
          /\ maxLoadFactor * numThreads <= maxLoadFactor * local[t].threads
      BY <1>1, <2>1, Times, Zenon
    <3>2. Len(tables'[hashtable']) >= maxLoadFactor * numThreads
      BY <1>3, <3>1
    <3> QED BY <1>3, <3>2, Zenon DEF LoadFactorKept
  <2>2. CASE \E u \in Threads \ {t} : local[u].threads >= numThreads
    BY <1>2, <2>2, Zenon DEF LoadFactorKept
  <2> QED BY <1>6, <2>1, <2>2, Zenon
<1> QED BY <1>4, <1>5, <1>6, Zenon DEF LInv, LoadFactorKept

\* ensureHashtableSize, before any lock.
LEMMA FastCheckStep == ASSUME Counts, LInv, NEW t \in Threads, FastCheck(t) PROVE LInv'
<1>0. local[t].pc = "grow" /\ UNCHANGED <<spine, buckets>> /\ UNCHANGED shared
  BY Zenon DEF FastCheck, At
<1>1. Grown /\ LocksKept /\ hashtable' = hashtable
  BY <1>0, SpineQuiet, Zenon
<1>2. local[t] \in Locals /\ Loaded(local[t]) /\ local[t].arg \in Addresses
  BY <1>0, Zenon DEF LInv, LocalOK, Loaded
<1>3. CASE hashtable # 0 /\ largeEnough(Len(tables[hashtable]), local[t].threads)
  <2>1. Leave(t, "load")
    BY <1>3, Zenon DEF FastCheck
  <2>2. /\ OnlyLocal(t) /\ local'[t] \in Locals' /\ Loaded(local'[t]) /\ local'[t].pc = "load"
        /\ local'[t].hasData = local[t].hasData
    BY <1>1, <1>2, <2>1, LeaveFacts, Zenon
  <2>3. SharedOK' /\ LocalOK'
    BY <1>0, <1>1, <2>2, SharedTypes, PlainStep, Zenon DEF Plain
  <2>4. Collecting'
    <3>1. HoldsNone(t) /\ \A u \in Threads : HoldsSame(u)
      BY <1>0, <1>1, HoldFacts, Zenon DEF At
    <3> QED BY <1>1, <2>2, <3>1, CollectStep, Zenon
  <2>5. LoadFactorKept'
    <3>1. hashtable \in 1 .. Len(tables) /\ tables' = tables /\ Len(tables[hashtable]) \in Nat
      BY <1>0, <1>3 DEF LInv, SpineOK, spine
    <3>2. Len(tables[hashtable]) >= maxLoadFactor * local[t].threads
      BY <1>3, Zenon DEF largeEnough
    <3> QED BY <1>0, <1>1, <2>2, <3>1, <3>2, LeavesGrowing DEF shared
  <2> QED BY <1>1, <2>3, <2>4, <2>5, Zenon DEF LInv, Grown
<1>4. CASE ~(hashtable # 0 /\ largeEnough(Len(tables[hashtable]), local[t].threads))
  <2>1. Goto(t, "lockTable") /\ "lockTable" \in Labels
    BY <1>4, Zenon DEF FastCheck, Labels
  <2>2. Loaded([local[t] EXCEPT !.pc = "lockTable"])
    BY <1>0, <1>2, Zenon DEF Loaded, Growing, Locals
  <2>3. /\ OnlyLocal(t) /\ local'[t] \in Locals' /\ Loaded(local'[t]) /\ local'[t].pc = "lockTable"
        /\ local'[t].hasData = local[t].hasData /\ local'[t].threads = local[t].threads
    BY <1>1, <2>1, <2>2, GotoFacts, Zenon
  <2>4. Quiet(t)
    BY <1>0, <1>1, <2>3, SharedTypes, Zenon DEF Quiet, Plain, At
  <2> QED BY <2>4, QuietStep, Zenon
<1> QED BY <1>3, <1>4, Zenon

\* lockHashtable has given every slot a bucket.
LEMMA FillStep ==
    ASSUME LInv, NEW t \in Threads, FillBuckets(t), Grown, LocksKept,
           0 \notin Range(tables'[local[t].table])
    PROVE  LInv'
<1>0. local[t].pc = "fill" /\ UNCHANGED <<hashtable, shared>>
  BY Zenon DEF FillBuckets, At
<1>2. local[t] \in Locals /\ Loaded(local[t])
  BY Zenon DEF LInv, LocalOK
<1>3. Goto(t, "lockBuckets") /\ "lockBuckets" \in Labels
  BY Zenon DEF FillBuckets, Labels
<1>4. Loaded([local[t] EXCEPT !.pc = "lockBuckets"])
  BY <1>0, <1>2, Zenon DEF Loaded, Growing, Locals
<1>5. /\ OnlyLocal(t) /\ local'[t] \in Locals' /\ Loaded(local'[t])
      /\ local'[t].hasData = local[t].hasData
      /\ local'[t].threads = local[t].threads /\ local'[t].table = local[t].table
  BY <1>3, <1>4, GotoFacts, Zenon
<1>6. SharedOK' /\ LocalOK'
  BY <1>0, <1>5, SharedTypes, PlainStep, Zenon DEF Plain
<1>7. Collecting'
  <2>1. HoldsNone(t) /\ \A u \in Threads : HoldsSame(u)
    BY <1>0, HoldFacts, Zenon DEF At
  <2> QED BY <1>5, <2>1, CollectStep, Zenon
<1>8. LoadFactorKept'
  BY <1>0, <1>5, LoadStep, Zenon DEF shared
<1> QED BY <1>6, <1>7, <1>8, Zenon DEF LInv, Grown

\* What unlockHashtable makes of the locks.
LEMMA UnlockFacts ==
    ASSUME LInv, NEW t
    PROVE  /\ unlockHashtable(t) \in Seq(Threads \cup {Null}) /\ Len(unlockHashtable(t)) = Len(lockedBy)
           /\ \A b \in 1 .. Len(lockedBy) :
                unlockHashtable(t)[b] = IF lockedBy[b] = t THEN Null ELSE lockedBy[b]
<1>1. lockedBy \in Seq(Threads \cup {Null}) /\ Len(lockedBy) \in Nat
      /\ DOMAIN lockedBy = 1 .. Len(lockedBy)
  BY DEF LInv, SpineOK
<1>2. unlockHashtable(t) = [b \in 1 .. Len(lockedBy) |-> IF lockedBy[b] = t THEN Null ELSE lockedBy[b]]
  BY <1>1, Zenon DEF unlockHashtable
<1>3. \A b \in 1 .. Len(lockedBy) : lockedBy[b] \in Threads \cup {Null}
  BY <1>1
<1> QED BY <1>1, <1>2, <1>3

\* unlockHashtable drops the locks of its thread only.
LEMMA UnlockSpine ==
    ASSUME LInv, NEW t, lockedBy' = unlockHashtable(t), UNCHANGED <<spine, queue>>
    PROVE  Grown /\ LocksDropped(t)
<1>1. SpineOK /\ Len(queue) \in Nat /\ Len(tables) \in Nat /\ Len(lockedBy) \in Nat
  BY DEF LInv, SpineOK
<1>2. lockedBy' \in Seq(Threads \cup {Null}) /\ Len(lockedBy') = Len(lockedBy)
  BY UnlockFacts, Zenon
<1>3. SpineOK'
  BY <1>1, <1>2, Zenon DEF SpineOK, spine
<1>4. LocksDropped(t)
  BY <1>1, <1>2, UnlockFacts DEF LocksDropped
<1> QED BY <1>1, <1>3, <1>4 DEF Grown, spine

\* The locks that lockHashtable still has to take are those of buckets of its table.
LEMMA UnlockedFacts ==
    ASSUME LInv, NEW t \in Threads, At(t, "lockBuckets")
    PROVE  /\ local[t].table \in 1 .. Len(tables)
           /\ Range(tables[local[t].table]) \in SUBSET (1 .. Len(queue))
           /\ Unlocked(t) \in SUBSET Nat /\ Unlocked(t) \subseteq Range(tables[local[t].table])
<1>0. SpineOK /\ LocalOK /\ Collects(t) /\ Len(queue) \in Nat
  BY DEF LInv, SpineOK, Collecting
<1>1. local[t].table \in 1 .. Len(tables)
  BY <1>0 DEF LocalOK, Locals, Loaded, At
<1>2. tables[local[t].table] \in Seq(0 .. Len(queue))
  BY <1>0, <1>1 DEF SpineOK
<1>3. 0 \notin Range(tables[local[t].table])
  BY <1>0, Zenon DEF Collects
<1>4. Range(tables[local[t].table]) \in SUBSET (1 .. Len(queue))
  BY <1>0, <1>2, <1>3 DEF Range
<1>5. Unlocked(t) \in SUBSET Nat /\ Unlocked(t) \subseteq Range(tables[local[t].table])
  BY <1>0, <1>4 DEF Unlocked
<1> QED BY <1>1, <1>4, <1>5, Zenon

\* The two ways out of lockHashtable without a rehash.
LEMMA UnlockSteps ==
    ASSUME Counts, LInv, NEW t \in Threads, LockedStaleTable(t) \/ NoNeedToRehash(t)
    PROVE  LInv'
<1>0. local[t].pc = "lockBuckets" /\ lockedBy' = unlockHashtable(t) /\ UNCHANGED <<spine, queue>>
      /\ UNCHANGED shared
  BY Zenon DEF LockedStaleTable, NoNeedToRehash, Locked, At
<1>1. Grown /\ LocksDropped(t) /\ hashtable' = hashtable /\ tables' = tables
  BY <1>0, UnlockSpine, Zenon DEF spine
<1>2. local[t] \in Locals /\ Loaded(local[t]) /\ local[t].arg \in Addresses
  BY <1>0, Zenon DEF LInv, LocalOK, Loaded
<1>3. HoldsNone(t) /\ \A u \in Threads \ {t} : HoldsSame(u)
  BY <1>1, HoldFacts, Zenon
<1>4. CASE LockedStaleTable(t)
  <2>1. Goto(t, "lockTable") /\ "lockTable" \in Labels
    BY <1>4, Zenon DEF LockedStaleTable, Labels
  <2>2. Loaded([local[t] EXCEPT !.pc = "lockTable"])
    BY <1>0, <1>2, Zenon DEF Loaded, Growing, Locals
  <2>3. /\ OnlyLocal(t) /\ local'[t] \in Locals' /\ Loaded(local'[t]) /\ local'[t].pc = "lockTable"
        /\ local'[t].hasData = local[t].hasData /\ local'[t].threads = local[t].threads
    BY <1>1, <2>1, <2>2, GotoFacts, Zenon
  <2>4. SharedOK' /\ LocalOK'
    BY <1>0, <1>1, <2>3, SharedTypes, PlainStep, Zenon DEF Plain
  <2>5. Collecting'
    BY <1>1, <1>3, <2>3, CollectStep, Zenon
  <2>6. LoadFactorKept'
    BY <1>0, <1>1, <2>3, LoadStep, Zenon DEF shared
  <2> QED BY <1>1, <2>4, <2>5, <2>6, Zenon DEF LInv, Grown
<1>5. CASE NoNeedToRehash(t)
  <2>1. Leave(t, "load") /\ largeEnough(Len(tables[hashtable]), local[t].threads)
        /\ hashtable = local[t].table
    BY <1>5, Zenon DEF NoNeedToRehash, Locked
  <2>2. /\ OnlyLocal(t) /\ local'[t] \in Locals' /\ Loaded(local'[t]) /\ local'[t].pc = "load"
        /\ local'[t].hasData = local[t].hasData
    BY <1>1, <1>2, <2>1, LeaveFacts, Zenon
  <2>3. SharedOK' /\ LocalOK'
    BY <1>0, <1>1, <2>2, SharedTypes, PlainStep, Zenon DEF Plain
  <2>4. Collecting'
    BY <1>1, <1>3, <2>2, CollectStep, Zenon
  <2>5. LoadFactorKept'
    <3>1. hashtable \in 1 .. Len(tables) /\ Len(tables[hashtable]) \in Nat
      BY <1>0, <2>1, UnlockedFacts DEF At, LInv, SpineOK
    <3>2. Len(tables[hashtable]) >= maxLoadFactor * local[t].threads
      BY <2>1, Zenon DEF largeEnough
    <3> QED BY <1>0, <1>1, <2>2, <3>1, <3>2, LeavesGrowing DEF shared
  <2> QED BY <1>1, <2>3, <2>4, <2>5, Zenon DEF LInv, Grown
<1> QED BY <1>4, <1>5, Zenon

\* The rehash keeps the invariant: its table is large enough for the threads it has counted, and larger
\* than the one before.
LEMMA RehashStep ==
    ASSUME Counts, LInv, NEW t \in Threads, Rehash(t),
           Grown, LocksDropped(t), hashtable' \in 1 .. Len(tables'),
           Len(tables'[hashtable']) = local[t].threads * growthFactor * maxLoadFactor
    PROVE  LInv'
<1>0. /\ local[t].pc = "lockBuckets" /\ UNCHANGED shared /\ Leave(t, "load")
      /\ hashtable = local[t].table
      /\ ~largeEnough(Len(tables[hashtable]), local[t].threads)
  BY Zenon DEF Rehash, Locked, At
<1>2. local[t] \in Locals /\ Loaded(local[t]) /\ local[t].arg \in Addresses
  BY <1>0, Zenon DEF LInv, LocalOK, Loaded
<1>3. HoldsNone(t) /\ \A u \in Threads \ {t} : HoldsSame(u)
  BY HoldFacts, Zenon
<1>4. /\ OnlyLocal(t) /\ local'[t] \in Locals' /\ Loaded(local'[t]) /\ local'[t].pc = "load"
      /\ local'[t].hasData = local[t].hasData
  BY <1>0, <1>2, LeaveFacts, Zenon
<1>5. SharedOK' /\ LocalOK'
  BY <1>0, <1>4, SharedTypes, PlainStep, Zenon DEF Plain
<1>6. Collecting'
  BY <1>3, <1>4, CollectStep, Zenon
<1>7. LoadFactorKept'
  <2> DEFINE n == local[t].threads
  <2>1. n \in Nat
    <3>1. n \in 0 .. Cardinality(Threads)
      BY <1>2, Zenon DEF Locals
    <3> QED BY <3>1, CountFacts
  <2>2. hashtable \in 1 .. Len(tables) /\ Len(tables[hashtable]) \in Nat
    BY <1>0, UnlockedFacts DEF At, LInv, SpineOK
  <2> HIDE DEF n
  <2>3. maxLoadFactor * n \in Nat /\ n * growthFactor * maxLoadFactor \in Nat
        /\ n * growthFactor * maxLoadFactor >= maxLoadFactor * n
    <3>1. growthFactor \in Nat /\ growthFactor >= 1 /\ maxLoadFactor \in Nat
      BY FactorAssumption
    <3>2. n * growthFactor \in Nat /\ n <= n * growthFactor
      BY <2>1, <3>1
    <3>3. maxLoadFactor * n <= maxLoadFactor * (n * growthFactor) /\ maxLoadFactor * n \in Nat
          /\ maxLoadFactor * (n * growthFactor) \in Nat
      BY <2>1, <3>2, Times, Zenon
    <3>4. n * growthFactor * maxLoadFactor = maxLoadFactor * (n * growthFactor)
      BY <2>1, <3>1
    <3> QED BY <3>3, <3>4, Zenon
  <2>4. Len(tables'[hashtable']) >= maxLoadFactor * n
    BY <2>3, Zenon DEF n
  <2>5. ~(Len(tables[hashtable]) >= maxLoadFactor * n)
    BY <1>0, Zenon DEF largeEnough, n
  <2>6. Len(tables'[hashtable']) >= Len(tables[hashtable])
    BY <2>2, <2>3, <2>5 DEF n
  <2> QED BY <1>0, <1>4, <2>4, <2>6, LeavesGrowing, Zenon DEF shared, n
<1> QED BY <1>5, <1>6, <1>7, Zenon DEF LInv, Grown

-----------------------------------------------------------------------------
(* Sequences, and the steps that change tables and queues.                 *)

\* Sequences over a larger set.
LEMMA SeqWider == ASSUME NEW S, NEW T, S \subseteq T PROVE Seq(S) \subseteq Seq(T)
OBVIOUS

\* Append.
LEMMA AppendedFacts ==
    ASSUME NEW T, NEW s \in Seq(T), NEW x \in T
    PROVE  /\ Append(s, x) \in Seq(T) /\ Len(Append(s, x)) = Len(s) + 1
           /\ Append(s, x)[Len(s) + 1] = x
           /\ \A i \in 1 .. Len(s) : Append(s, x)[i] = s[i]
OBVIOUS

\* Concatenation.
LEMMA ConcatFacts ==
    ASSUME NEW T, NEW s \in Seq(T), NEW r \in Seq(T)
    PROVE  /\ s \o r \in Seq(T) /\ Len(s \o r) = Len(s) + Len(r)
           /\ \A i \in 1 .. Len(s) + Len(r) : (s \o r)[i] = IF i <= Len(s) THEN s[i] ELSE r[i - Len(s)]
OBVIOUS

\* EXCEPT on a sequence.
LEMMA ChangedFacts ==
    ASSUME NEW T, NEW s \in Seq(T), NEW i \in 1 .. Len(s), NEW x \in T
    PROVE  /\ [s EXCEPT ![i] = x] \in Seq(T) /\ Len([s EXCEPT ![i] = x]) = Len(s)
           /\ \A j \in 1 .. Len(s) : [s EXCEPT ![i] = x][j] = IF j = i THEN x ELSE s[j]
<1>1. Len(s) \in Nat /\ [s EXCEPT ![i] = x] = [j \in 1 .. Len(s) |-> IF j = i THEN x ELSE s[j]]
  OBVIOUS
<1>2. \A j \in 1 .. Len(s) : (IF j = i THEN x ELSE s[j]) \in T
  OBVIOUS
<1> QED BY <1>1, <1>2

\* Head and Tail.
LEMMA TailFacts == ASSUME NEW T, NEW s \in Seq(T), s # <<>> PROVE Head(s) \in T /\ Tail(s) \in Seq(T)
OBVIOUS

\* A beginning of a sequence.
LEMMA FirstFacts ==
    ASSUME NEW T, NEW s \in Seq(T), NEW k \in Int, k <= Len(s) PROVE SubSeq(s, 1, k) \in Seq(T)
<1>1. \A i \in 1 .. k : s[i] \in T
  OBVIOUS
<1> QED BY <1>1

\* Tables stay tables when there are more buckets.
LEMMA Wider ==
    ASSUME NEW m \in Nat, NEW n \in Nat, m <= n
    PROVE  /\ Seq(0 .. m) \subseteq Seq(0 .. n)
           /\ Seq(Seq(0 .. m)) \subseteq Seq(Seq(0 .. n))
<1>1. 0 .. m \subseteq 0 .. n
  OBVIOUS
<1>2. Seq(0 .. m) \subseteq Seq(0 .. n)
  BY <1>1, SeqWider, Zenon
<1> QED BY <1>2, SeqWider, Zenon

\* A table is added to the others and becomes the current one.
LEMMA TableAppended ==
    ASSUME LInv, NEW k \in Nat, k >= Len(queue), NEW tb \in Seq(0 .. k), Len(tb) >= 1,
           tables' = Append(tables, tb), hashtable' = Len(tables'),
           queue' \in Seq(Seq(Threads)), Len(queue') = k,
           lockedBy' \in Seq(Threads \cup {Null}), Len(lockedBy') = k
    PROVE  /\ SpineOK' /\ Len(tables') = Len(tables) + 1 /\ tables'[Len(tables')] = tb
           /\ \A i \in 1 .. Len(tables) : tables'[i] = tables[i]
<1>1. SpineOK /\ Len(queue) \in Nat /\ Len(tables) \in Nat
  BY DEF LInv, SpineOK
<1>2. tables \in Seq(Seq(0 .. k))
  BY <1>1, Wider, Zenon DEF SpineOK
<1>3. /\ tables' \in Seq(Seq(0 .. k)) /\ Len(tables') = Len(tables) + 1 /\ tables'[Len(tables')] = tb
      /\ \A i \in 1 .. Len(tables) : tables'[i] = tables[i]
  BY <1>2, AppendedFacts
<1>4. \A i \in 1 .. Len(tables') : Len(tables'[i]) >= 1
  <2>1. \A i \in 1 .. Len(tables') : i \in 1 .. Len(tables) \/ i = Len(tables')
    BY <1>1, <1>3
  <2>2. \A i \in 1 .. Len(tables) : Len(tables[i]) >= 1
    BY <1>1, Zenon DEF SpineOK
  <2> QED BY <1>3, <2>1, <2>2, Zenon
<1>5. hashtable' \in 0 .. Len(tables') /\ tables' \in Seq(Seq(0 .. Len(queue')))
  BY <1>1, <1>3
<1> QED BY <1>3, <1>4, <1>5, Zenon DEF SpineOK

\* A table gets buckets.
LEMMA TableFilled ==
    ASSUME LInv, NEW k \in Nat, k >= Len(queue), NEW n \in 1 .. Len(tables), NEW tb \in Seq(0 .. k),
           Len(tb) = Len(tables[n]), tables' = [tables EXCEPT ![n] = tb], hashtable' = hashtable,
           queue' \in Seq(Seq(Threads)), Len(queue') = k,
           lockedBy' \in Seq(Threads \cup {Null}), Len(lockedBy') = k
    PROVE  /\ SpineOK' /\ Len(tables') = Len(tables)
           /\ \A i \in 1 .. Len(tables) : tables'[i] = IF i = n THEN tb ELSE tables[i]
<1>1. SpineOK /\ Len(queue) \in Nat /\ Len(tables) \in Nat
  BY DEF LInv, SpineOK
<1>2. tables \in Seq(Seq(0 .. k))
  BY <1>1, Wider, Zenon DEF SpineOK
<1>3. /\ tables' \in Seq(Seq(0 .. k)) /\ Len(tables') = Len(tables)
      /\ \A i \in 1 .. Len(tables) : tables'[i] = IF i = n THEN tb ELSE tables[i]
  BY <1>2, ChangedFacts
<1>4. \A i \in 1 .. Len(tables') : Len(tables'[i]) >= 1
  BY <1>1, <1>3, Zenon DEF SpineOK
<1> QED BY <1>1, <1>3, <1>4, Zenon DEF SpineOK

\* New buckets come unlocked.
LEMMA BucketsAppended ==
    ASSUME LInv, NEW m \in Nat, NEW l \in Seq(Threads \cup {Null}), Len(l) = Len(lockedBy),
           lockedBy' = l \o [i \in 1 .. m |-> Null]
    PROVE  /\ lockedBy' \in Seq(Threads \cup {Null}) /\ Len(lockedBy') = Len(queue) + m
           /\ \A b \in 1 .. Len(lockedBy) : lockedBy'[b] = l[b]
           /\ \A b \in 1 .. Len(lockedBy') : b > Len(lockedBy) => lockedBy'[b] = Null
<1>1. Len(lockedBy) = Len(queue) /\ Len(queue) \in Nat
  BY DEF LInv, SpineOK
<1>2. /\ [i \in 1 .. m |-> Null] \in Seq(Threads \cup {Null}) /\ Len([i \in 1 .. m |-> Null]) = m
      /\ \A i \in 1 .. m : [j \in 1 .. m |-> Null][i] = Null
  OBVIOUS
<1> DEFINE r == [i \in 1 .. m |-> Null]
<1> HIDE DEF r
<1>4. r \in Seq(Threads \cup {Null}) /\ Len(r) = m /\ \A i \in 1 .. m : r[i] = Null
  BY <1>2, Zenon DEF r
<1>5. /\ l \o r \in Seq(Threads \cup {Null}) /\ Len(l \o r) = Len(l) + Len(r)
      /\ \A i \in 1 .. Len(l) + Len(r) : (l \o r)[i] = IF i <= Len(l) THEN l[i] ELSE r[i - Len(l)]
  BY <1>4, ConcatFacts, Zenon
<1>6. lockedBy' = l \o r
  BY Zenon DEF r
<1>7. \A b \in 1 .. Len(lockedBy) : lockedBy'[b] = l[b]
  BY <1>1, <1>4, <1>5, <1>6
<1>8. ASSUME NEW b \in 1 .. Len(lockedBy'), b > Len(lockedBy) PROVE lockedBy'[b] = Null
  <2>1. b - Len(l) \in 1 .. m /\ b \in 1 .. Len(l) + Len(r) /\ ~(b <= Len(l))
    BY <1>1, <1>4, <1>5, <1>6, <1>8
  <2> QED BY <2>1, <1>4, <1>5, <1>6, Zenon
<1> QED BY <1>1, <1>4, <1>5, <1>6, <1>7, <1>8, Zenon

\* ensureHashtable adds the first table, if there is none.
LEMMA EnsureSpine ==
    ASSUME LInv, NEW t, NEW l, ensureHashtable(t, l)
    PROVE  Grown /\ LocksKept /\ hashtable' \in 1 .. Len(tables')
<1>1. CASE hashtable # 0
  <2>1. UNCHANGED <<spine, buckets>>
    BY <1>1, Zenon DEF ensureHashtable
  <2>2. hashtable' \in 1 .. Len(tables')
    BY <1>1, <2>1 DEF LInv, SpineOK, spine
  <2> QED BY <2>1, <2>2, SpineKept, Zenon
<1>2. CASE hashtable = 0
  <2> DEFINE tb == [i \in 1 .. maxLoadFactor |-> 0]
  <2>1. SpineOK /\ Len(queue) \in Nat /\ Len(tables) \in Nat
    BY DEF LInv, SpineOK
  <2>2. tb \in Seq(0 .. Len(queue)) /\ Len(tb) >= 1
    BY <2>1, FactorAssumption
  <2>3. tables' = Append(tables, tb) /\ hashtable' = Len(tables') /\ UNCHANGED buckets
    BY <1>2, Zenon DEF ensureHashtable
  <2>4. queue' = queue /\ lockedBy' = lockedBy
    BY <2>3, Zenon DEF buckets
  <2> HIDE DEF tb
  <2>5. queue' \in Seq(Seq(Threads)) /\ Len(queue') = Len(queue)
        /\ lockedBy' \in Seq(Threads \cup {Null}) /\ Len(lockedBy') = Len(queue)
    BY <2>1, <2>4, Zenon DEF SpineOK
  <2>6. /\ SpineOK' /\ Len(tables') = Len(tables) + 1
        /\ \A i \in 1 .. Len(tables) : tables'[i] = tables[i]
    BY <2>1, <2>2, <2>3, <2>5, TableAppended
  <2>7. LocksKept
    BY <2>1, <2>4 DEF LocksKept, SpineOK
  <2>8. hashtable' \in 1 .. Len(tables') /\ Len(tables) <= Len(tables') /\ Len(queue) <= Len(queue')
    BY <2>1, <2>3, <2>5, <2>6
  <2> QED BY <2>6, <2>7, <2>8, Zenon DEF Grown
<1> QED BY <1>1, <1>2, Zenon

\* Loading the table, for lockHashtable and for enqueue and dequeue.
LEMMA LoadTableStep ==
    ASSUME LInv, NEW t \in Threads, lockHashtable(t) \/ LoadTable(t)
    PROVE  Quiet(t)
<1>0. PICK l \in {"fill", "bucket"} : ensureHashtable(t, l)
      /\ (l = "fill" <=> local[t].pc = "lockTable") /\ local[t].pc \in {"lockTable", "load"}
  BY Zenon DEF lockHashtable, LoadTable, At
<1>1. Grown /\ LocksKept /\ hashtable' \in 1 .. Len(tables') /\ (hashtable' = hashtable \/ hashtable = 0)
  BY <1>0, EnsureSpine, Zenon DEF ensureHashtable, spine
<1> DEFINE me == [local[t] EXCEPT !.pc = l, !.table = hashtable']
<1>2. local \in [Threads -> Locals] /\ local[t] \in Locals /\ local[t] \in Locals' /\ Loaded(local[t])
  BY <1>1, Widened, Zenon DEF LInv, LocalOK
<1>3. local'[t] = me /\ OnlyLocal(t)
  BY <1>0, <1>2, Zenon DEF ensureHashtable, OnlyLocal, Locals
<1>z. hashtable' \in 0 .. Len(tables') /\ hashtable' # 0
  BY <1>1 DEF Grown, SpineOK
<1>4. me \in Locals'
  BY <1>2, <1>z, Zenon DEF Locals, Labels
<1>5. Loaded(me) /\ me.hasData = local[t].hasData /\ me.threads = local[t].threads
      /\ me.pc # "lockBuckets"
  BY <1>0, <1>2, <1>z, Zenon DEF Loaded, Growing, Locals
<1>6. Plain(t)
  BY <1>0, <1>3, <1>4, <1>5, SharedTypes, Zenon DEF Plain, ensureHashtable
<1> QED BY <1>0, <1>1, <1>3, <1>5, <1>6, Zenon DEF Quiet, At

\* hashAddress modulo the size is a slot.
LEMMA SlotFacts ==
    ASSUME NEW a \in Addresses, NEW n \in Nat, n >= 1 PROVE indexIn(a, n) \in 1 .. n
<1>1. Hash[a] \in Nat
  BY HashAssumption, Zenon
<1>2. Hash[a] % n \in 0 .. n - 1
  BY <1>1
<1> QED BY <1>2 DEF indexIn

\* The slot of a thread that has loaded a table.
LEMMA MySlotFacts ==
    ASSUME LInv, NEW t \in Threads, At(t, "bucket")
    PROVE  /\ local[t].table \in 1 .. Len(tables)
           /\ mySlot(t) \in 1 .. Len(tables[local[t].table])
           /\ tables[local[t].table][mySlot(t)] \in 0 .. Len(queue)
<1>1. local[t].table \in 1 .. Len(tables) /\ local[t].arg \in Addresses
  <2>1. local[t] \in Locals /\ Loaded(local[t]) /\ local[t].pc = "bucket"
    BY Zenon DEF LInv, LocalOK, At
  <2> QED BY <2>1 DEF Locals, Loaded
<1>2. tables[local[t].table] \in Seq(0 .. Len(queue)) /\ Len(tables[local[t].table]) >= 1
  BY <1>1 DEF LInv, SpineOK
<1>3. mySlot(t) \in 1 .. Len(tables[local[t].table])
  BY <1>1, <1>2, SlotFacts DEF mySlot
<1> QED BY <1>1, <1>2, <1>3

\* enqueue or dequeue gives a slot its bucket.
LEMMA LoadSpine ==
    ASSUME LInv, NEW t \in Threads, LoadBucket(t)
    PROVE  Grown /\ LocksKept
<1> DEFINE n == local[t].table
           tb == tables[n]
           k == Len(queue) + 1
<1>0. SpineOK /\ Len(queue) \in Nat /\ Len(tables) \in Nat /\ At(t, "bucket")
  BY DEF LInv, SpineOK, LoadBucket
<1>1. n \in 1 .. Len(tables) /\ mySlot(t) \in 1 .. Len(tb) /\ tb[mySlot(t)] \in 0 .. Len(queue)
  BY <1>0, MySlotFacts, Zenon
<1>2. CASE tb[mySlot(t)] # 0
  <2>1. UNCHANGED <<spine, buckets>>
    BY <1>2, Zenon DEF LoadBucket
  <2> QED BY <2>1, SpineKept, Zenon
<1>3. CASE tb[mySlot(t)] = 0
  <2> DEFINE nt == [tb EXCEPT ![mySlot(t)] = k]
  <2>1. queue' = Append(queue, <<>>) /\ lockedBy' = Append(lockedBy, Null) /\ hashtable' = hashtable
    BY <1>3, Zenon DEF LoadBucket
  <2>2. queue' \in Seq(Seq(Threads)) /\ Len(queue') = k
    BY <1>0, <2>1, AppendedFacts DEF SpineOK
  <2>3. /\ lockedBy' \in Seq(Threads \cup {Null}) /\ Len(lockedBy') = k
        /\ \A b \in 1 .. Len(lockedBy) : lockedBy'[b] = lockedBy[b]
        /\ lockedBy'[Len(lockedBy) + 1] = Null
    BY <1>0, <2>1, AppendedFacts DEF SpineOK
  <2>4. tables' = [tables EXCEPT ![n] = nt]
    <3>1. tables' = [tables EXCEPT ![n][mySlot(t)] = Len(queue')]
      BY <1>3, Zenon DEF LoadBucket
    <3> QED BY <2>2, <3>1, Zenon
  <2>5. tb \in Seq(0 .. k)
    BY <1>0, <1>1, Wider DEF SpineOK
  <2>6. nt \in Seq(0 .. k) /\ Len(nt) = Len(tb)
    <3>1. k \in 0 .. k
      BY <1>0
    <3> HIDE DEF k, tb
    <3> QED BY <1>1, <2>5, <3>1, ChangedFacts
  <2> HIDE DEF nt
  <2>7. /\ SpineOK' /\ Len(tables') = Len(tables)
        /\ \A i \in 1 .. Len(tables) : tables'[i] = IF i = n THEN nt ELSE tables[i]
    <3>1. k \in Nat /\ k >= Len(queue) /\ Len(nt) = Len(tables[n])
      BY <1>0, <2>6
    <3> HIDE DEF k, tb, n
    <3>2. k \in Nat /\ k >= Len(queue) /\ n \in 1 .. Len(tables) /\ nt \in Seq(0 .. k)
      BY <1>1, <2>6, <3>1, Zenon
    <3>3. Len(nt) = Len(tables[n]) /\ tables' = [tables EXCEPT ![n] = nt] /\ hashtable' = hashtable
      BY <2>1, <2>4, <3>1, Zenon
    <3>4. /\ queue' \in Seq(Seq(Threads)) /\ Len(queue') = k
          /\ lockedBy' \in Seq(Threads \cup {Null}) /\ Len(lockedBy') = k
      BY <2>2, <2>3, Zenon
    <3> QED BY <3>2, <3>3, <3>4, TableFilled, Zenon
  <2>8. 0 \in Range(tb)
    BY <1>1, <1>3, <2>5 DEF Range
  <2>9. LocksKept
    <3>1. \A b \in 1 .. Len(lockedBy') : b > Len(lockedBy) => b = Len(lockedBy) + 1
      BY <1>0, <2>3 DEF SpineOK
    <3> QED BY <2>3, <3>1, Zenon DEF LocksKept
  <2>10. Len(tables) <= Len(tables') /\ Len(queue) <= Len(queue')
    BY <1>0, <2>2, <2>7
  <2>11. \A i \in 1 .. Len(tables) :
            Len(tables'[i]) = Len(tables[i]) /\ (0 \notin Range(tables[i]) => tables'[i] = tables[i])
    BY <2>6, <2>7, <2>8, Zenon
  <2> QED BY <2>7, <2>9, <2>10, <2>11, Zenon DEF Grown
<1> QED BY <1>2, <1>3, Zenon

\* Loading the bucket is Quiet.
LEMMA LoadBucketStep == ASSUME LInv, NEW t \in Threads, LoadBucket(t) PROVE Quiet(t)
<1>0. local[t].pc = "bucket" /\ UNCHANGED <<hashtable, shared>>
  BY Zenon DEF LoadBucket, At, spine
<1>1. Grown /\ LocksKept
  BY LoadSpine, Zenon
<1>2. local \in [Threads -> Locals] /\ local[t] \in Locals /\ local[t] \in Locals' /\ Loaded(local[t])
  BY <1>1, Widened, Zenon DEF LInv, LocalOK
<1>3. PICK b \in 1 .. Len(queue') : local' = [local EXCEPT ![t].pc = "lock", ![t].bucket = b]
  <2>1. Len(queue) \in Nat /\ Len(queue') \in Nat /\ Len(queue) <= Len(queue')
        /\ queue \in Seq(Seq(Threads))
    BY <1>1 DEF LInv, SpineOK, Grown
  <2>2. tables[local[t].table][mySlot(t)] \in 0 .. Len(queue)
    BY MySlotFacts, Zenon DEF LoadBucket
  <2>3. CASE tables[local[t].table][mySlot(t)] # 0
    <3>1. tables[local[t].table][mySlot(t)] \in 1 .. Len(queue')
      BY <2>1, <2>2, <2>3
    <3>2. local' = [local EXCEPT ![t].pc = "lock", ![t].bucket = tables[local[t].table][mySlot(t)]]
      BY <2>3, Zenon DEF LoadBucket
    <3> QED BY <3>1, <3>2, Zenon
  <2>4. CASE tables[local[t].table][mySlot(t)] = 0
    <3>1. queue' = Append(queue, <<>>)
          /\ local' = [local EXCEPT ![t].pc = "lock", ![t].bucket = Len(queue')]
      BY <2>4, Zenon DEF LoadBucket
    <3>2. Len(queue') = Len(queue) + 1
      BY <2>1, <3>1
    <3>3. Len(queue') \in 1 .. Len(queue')
      BY <2>1, <3>2
    <3> QED BY <3>1, <3>3, Zenon
  <2> QED BY <2>3, <2>4, Zenon
<1> DEFINE me == [local[t] EXCEPT !.pc = "lock", !.bucket = b]
<1>4. local'[t] = me /\ OnlyLocal(t)
  BY <1>2, <1>3, Zenon DEF OnlyLocal, Locals
<1>5. b \in 0 .. Len(queue') /\ b # 0
  BY <1>1 DEF Grown, SpineOK
<1>6. me \in Locals'
  BY <1>2, <1>5, Zenon DEF Locals, Labels
<1>7. Loaded(me) /\ me.hasData = local[t].hasData /\ me.threads = local[t].threads
      /\ me.pc # "lockBuckets"
  BY <1>0, <1>2, <1>5, Zenon DEF Loaded, Growing, Locals
<1>8. Plain(t)
  BY <1>0, <1>4, <1>6, <1>7, SharedTypes, Zenon DEF Plain
<1> QED BY <1>0, <1>1, <1>4, <1>7, <1>8, Zenon DEF Quiet, At

\* A changed queue.
LEMMA QueueSpine ==
    ASSUME LInv, NEW t \in Threads, local[t].bucket # 0, NEW q \in Seq(Threads), SetQueue(t, q)
    PROVE  Grown /\ LocksKept
<1>1. SpineOK /\ Len(queue) \in Nat /\ Len(tables) \in Nat /\ Len(lockedBy) \in Nat
  BY DEF LInv, SpineOK
<1>2. local[t].bucket \in 1 .. Len(queue)
  BY DEF LInv, LocalOK, Locals
<1>3. /\ queue' = [queue EXCEPT ![local[t].bucket] = q] /\ hashtable' = hashtable
      /\ tables' = tables /\ lockedBy' = lockedBy
  BY Zenon DEF SetQueue, spine
<1>4. queue' \in Seq(Seq(Threads)) /\ Len(queue') = Len(queue)
  <2>1. queue \in Seq(Seq(Threads))
    BY <1>1, Zenon DEF SpineOK
  <2> QED BY <1>2, <1>3, <2>1, ChangedFacts
<1>5. SpineOK'
  BY <1>1, <1>3, <1>4, Zenon DEF SpineOK
<1> QED BY <1>1, <1>3, <1>4, <1>5 DEF Grown, LocksKept

\* The bucket of a thread that has loaded one.
LEMMA MyBucketFacts ==
    ASSUME LInv, NEW t \in Threads, At(t, "lock")
    PROVE  /\ local[t].bucket # 0 /\ local[t].arg \in Addresses /\ myQueue(t) \in Seq(Threads)
           /\ Append(myQueue(t), t) \in Seq(Threads)
<1>1. local[t] \in Locals /\ Loaded(local[t]) /\ local[t].pc = "lock"
  BY Zenon DEF LInv, LocalOK, At
<1>2. local[t].bucket \in 1 .. Len(queue) /\ local[t].bucket # 0 /\ local[t].arg \in Addresses
  BY <1>1 DEF Locals, Loaded
<1>3. queue \in Seq(Seq(Threads))
  BY Zenon DEF LInv, SpineOK
<1>4. myQueue(t) \in Seq(Threads)
  BY <1>2, <1>3, ElementOf, Zenon DEF myQueue
<1> QED BY <1>2, <1>4, AppendedFacts, Zenon

\* Enqueuing is Quiet.
LEMMA EnqueueQuiet ==
    ASSUME Counts, LInv, NEW t \in Threads, At(t, "lock"), Enqueue(t), m_hasWaiters' \in [Addresses -> BOOLEAN]
    PROVE  Quiet(t)
<1>1. local[t].bucket # 0 /\ local[t].arg \in Addresses /\ Append(myQueue(t), t) \in Seq(Threads)
  BY MyBucketFacts, Zenon
<1>2. SetQueue(t, Append(myQueue(t), t)) /\ Leave(t, "sleep")
  BY Zenon DEF Enqueue
<1>3. Grown /\ LocksKept /\ hashtable' = hashtable /\ numThreads' = numThreads
  BY <1>1, <1>2, QueueSpine, Zenon DEF SetQueue, spine
<1>4. address' \in [Threads -> Addresses \cup {Null}]
  BY <1>1, Zenon DEF Enqueue, LInv, SharedOK
<1> QED BY <1>2, <1>3, <1>4, LeaveQuiet, Zenon DEF At

\* The two clients enqueue after their validation.
LEMMA ParkSteps ==
    ASSUME Counts, LInv, NEW t \in Threads
    PROVE  /\ WaitInBucket(t) => Quiet(t)
           /\ CompareInBucket(t) => Quiet(t)
<1>1. ASSUME WaitInBucket(t) PROVE Quiet(t)
  <2>1. At(t, "lock") /\ Enqueue(t) /\ m_hasWaiters' \in [Addresses -> BOOLEAN]
    BY <1>1, Zenon DEF WaitInBucket, InBucket, LockFree, LInv, SharedOK
  <2> QED BY <2>1, EnqueueQuiet, Zenon
<1>2. ASSUME CompareInBucket(t) PROVE Quiet(t)
  <2>1. At(t, "lock") /\ Enqueue(t) /\ m_hasWaiters' \in [Addresses -> BOOLEAN]
    BY <1>2, Zenon DEF CompareInBucket, InBucket, LockFree, LInv, SharedOK
  <2> QED BY <2>1, EnqueueQuiet, Zenon
<1> QED BY <1>1, <1>2, Zenon

\* A thread that has timed out dequeues itself.
LEMMA DequeueStep == ASSUME LInv, NEW t \in Threads, DequeueMyself(t), TakesThreads(t) PROVE Quiet(t)
<1>0. local[t].pc = "lock" /\ At(t, "lock") /\ UNCHANGED <<address, m_hasWaiters>>
  BY Zenon DEF DequeueMyself, InBucket, LockFree, At
<1>1. local[t].bucket # 0 /\ Without(myQueue(t), <<t>>) \in Seq(Threads)
  BY <1>0, MyBucketFacts, Zenon DEF TakesThreads
<1>2. Grown /\ LocksKept /\ hashtable' = hashtable /\ numThreads' = numThreads
  BY <1>1, QueueSpine, Zenon DEF DequeueMyself, SetQueue, spine
<1>3. local \in [Threads -> Locals] /\ local[t] \in Locals /\ local[t] \in Locals' /\ Loaded(local[t])
  BY <1>2, Widened, Zenon DEF LInv, LocalOK
<1> DEFINE found == (t \in Range(myQueue(t)))
           me == [local[t] EXCEPT !.pc = "giveUp", !.table = 0, !.bucket = 0, !.didDequeue = found]
<1>4. found \in BOOLEAN
  OBVIOUS
<1> HIDE DEF found
<1>5. local'[t] = me /\ OnlyLocal(t)
  BY <1>3, Zenon DEF DequeueMyself, OnlyLocal, Locals, found
<1>6. 0 \in 0 .. Len(tables') /\ 0 \in 0 .. Len(queue')
  BY <1>2 DEF Grown, SpineOK
<1>7. me \in Locals'
  BY <1>3, <1>4, <1>6, Zenon DEF Locals, Labels
<1>8. Loaded(me) /\ me.hasData = local[t].hasData /\ me.threads = local[t].threads
      /\ me.pc # "lockBuckets"
  BY <1>0, <1>3, Zenon DEF Loaded, Growing, Locals
<1>9. address' \in [Threads -> Addresses \cup {Null}] /\ m_hasWaiters' \in [Addresses -> BOOLEAN]
  BY <1>0, Zenon DEF LInv, SharedOK
<1>10. Plain(t)
  BY <1>2, <1>5, <1>7, <1>8, <1>9, Zenon DEF Plain
<1> QED BY <1>0, <1>2, <1>5, <1>8, <1>10, Zenon DEF Quiet, At

\* unparkOne, unparkCount and the waking of the threads they dequeued.
LEMMA UnparkSteps ==
    ASSUME LInv, NEW t \in Threads, At(t, "lock") => TakesThreads(t)
    PROVE  /\ UnparkOne(t) => Quiet(t)
           /\ UnparkAll(t) => Quiet(t)
           /\ WakeOne(t) => Quiet(t)
<1>1. ASSUME UnparkOne(t) PROVE Quiet(t)
  <2>1. At(t, "lock") /\ local[t].pc = "lock"
    BY <1>1, Zenon DEF UnparkOne, InBucket, LockFree, At
  <2>2. local[t].bucket # 0 /\ FirstMatching(t) \in Seq(Threads)
        /\ Without(myQueue(t), FirstMatching(t)) \in Seq(Threads)
    BY <2>1, MyBucketFacts, Zenon DEF TakesThreads
  <2>3. Grown /\ LocksKept /\ hashtable' = hashtable /\ numThreads' = numThreads
    BY <1>1, <2>2, QueueSpine, Zenon DEF UnparkOne, SetQueue, spine
  <2>4. address' \in [Threads -> Addresses \cup {Null}]
    BY <1>1, Zenon DEF UnparkOne, LInv, SharedOK
  <2>5. m_hasWaiters' \in [Addresses -> BOOLEAN]
    <3> DEFINE more == mayHaveMoreThreads(t)
    <3>1. m_hasWaiters \in [Addresses -> BOOLEAN]
      BY Zenon DEF LInv, SharedOK
    <3>2. m_hasWaiters' = [m_hasWaiters EXCEPT ![local[t].arg] = @ /\ more]
      BY <1>1, Zenon DEF UnparkOne
    <3>3. (m_hasWaiters[local[t].arg] /\ more) \in BOOLEAN
      BY Zenon
    <3> HIDE DEF more
    <3> QED BY <3>1, <3>2, <3>3, Zenon
  <2> QED BY <1>1, <2>1, <2>2, <2>3, <2>4, <2>5, WakeQuiet, Zenon DEF UnparkOne
<1>2. ASSUME UnparkAll(t) PROVE Quiet(t)
  <2>1. At(t, "lock") /\ local[t].pc = "lock"
    BY <1>2, Zenon DEF UnparkAll, InBucket, LockFree, At
  <2>2. local[t].bucket # 0 /\ Matching(t) \in Seq(Threads)
        /\ Without(myQueue(t), Matching(t)) \in Seq(Threads)
    BY <2>1, MyBucketFacts, Zenon DEF TakesThreads
  <2>3. Grown /\ LocksKept /\ hashtable' = hashtable /\ numThreads' = numThreads
    BY <1>2, <2>2, QueueSpine, Zenon DEF UnparkAll, SetQueue, spine
  <2>4. address' \in [Threads -> Addresses \cup {Null}] /\ m_hasWaiters' \in [Addresses -> BOOLEAN]
    BY <1>2, Zenon DEF UnparkAll, LInv, SharedOK
  <2> QED BY <1>2, <2>1, <2>2, <2>3, <2>4, WakeQuiet, Zenon DEF UnparkAll
<1>3. ASSUME WakeOne(t) PROVE Quiet(t)
  <2>1. local[t] \in Locals /\ Loaded(local[t]) /\ local[t].pc = "wake"
    BY <1>3, Zenon DEF WakeOne, At, LInv, LocalOK
  <2>2. local[t].toWake \in Seq(Threads) /\ local[t].toWake # <<>>
    BY <2>1, Zenon DEF Locals, Loaded
  <2>3. Tail(local[t].toWake) \in Seq(Threads)
    BY <2>2, TailFacts, Zenon
  <2>4. Grown /\ LocksKept /\ hashtable' = hashtable
    BY <1>3, SpineQuiet, Zenon DEF WakeOne
  <2>5. /\ numThreads' = numThreads /\ address' \in [Threads -> Addresses \cup {Null}]
        /\ m_hasWaiters' \in [Addresses -> BOOLEAN]
    BY <1>3, Zenon DEF WakeOne, LInv, SharedOK
  <2> QED BY <1>3, <2>1, <2>3, <2>4, <2>5, WakeQuiet, Zenon DEF WakeOne
<1> QED BY <1>1, <1>2, <1>3, Zenon

\* Stuttering.
LEMMA StutterStep == ASSUME LInv, UNCHANGED vars PROVE LInv'
BY Zenon DEF LInv, SpineOK, SharedOK, LocalOK, Locals, Loaded, Collecting, Collects, HeldBy, Unlocked,
     At,
       LoadFactorKept, vars, spine, buckets, shared

-----------------------------------------------------------------------------
(* The order of the locks.                                                 *)

\* A set of numbers has a least member,
LEMMA LeastOne ==
    ASSUME SetFacts, NEW S \in SUBSET Nat, S # {} PROVE \E x \in S : \A y \in S : x <= y
BY Zenon DEF SetFacts

\* which is its Min,
LEMMA MinFacts == ASSUME SetFacts, NEW S \in SUBSET Nat, S # {} PROVE Min(S) \in S
   /\ \A y \in S : Min(S) <= y
<1>1. \E x \in S : \A y \in S : x =< y
  BY LeastOne, Zenon
<1> QED BY <1>1, Zenon DEF Min

\* and a greatest one when it is bounded.
LEMMA GreatestOne ==
    ASSUME SetFacts, NEW S \in SUBSET Nat, S # {}, NEW n \in Nat, \A x \in S : x <= n
    PROVE  \E x \in S : \A y \in S : y <= x
<1>1. {n - x : x \in S} \in SUBSET Nat /\ {n - x : x \in S} # {}
  <2>1. \A x \in S : x \in Nat /\ n - x \in Nat
    OBVIOUS
  <2> QED BY <2>1, Zenon
<1>2. PICK d \in {n - x : x \in S} : \A y \in {n - x : x \in S} : d <= y
  BY <1>1, LeastOne, Zenon
<1>3. PICK x \in S : d = n - x
  BY <1>2, Zenon
<1>4. \A y \in S : n - x <= n - y
  BY <1>2, <1>3, Zenon
<1> QED BY <1>3, <1>4

\* The lock taken next is that of the bucket with the lowest address among the missing ones.
LEMMA NextFacts ==
    ASSUME SetFacts, LInv, NEW t \in Threads, At(t, "lockBuckets"), Unlocked(t) # {}
    PROVE  NextToLock(t) \in Unlocked(t) /\ \A b \in Unlocked(t) : NextToLock(t) <= b
BY UnlockedFacts, MinFacts, Zenon DEF NextToLock

\* A bucket is locked.
LEMMA LockSpine ==
    ASSUME SetFacts, LInv, NEW t \in Threads, LockBucket(t)
    PROVE  /\ Grown /\ NextToLock(t) \in 1 .. Len(lockedBy) /\ Len(lockedBy') = Len(lockedBy)
           /\ \A b \in 1 .. Len(lockedBy) :
                 lockedBy'[b] = IF b = NextToLock(t) THEN t ELSE lockedBy[b]
<1>1. SpineOK /\ Len(queue) \in Nat /\ Len(tables) \in Nat
  BY DEF LInv, SpineOK
<1>2. /\ At(t, "lockBuckets") /\ Unlocked(t) # {} /\ UNCHANGED <<spine, queue>>
      /\ lockedBy' = [lockedBy EXCEPT ![NextToLock(t)] = t]
  BY Zenon DEF LockBucket
<1>3. NextToLock(t) \in 1 .. Len(lockedBy) /\ lockedBy \in Seq(Threads \cup {Null})
  BY <1>1, <1>2, UnlockedFacts, NextFacts, Zenon DEF SpineOK
<1>4. /\ lockedBy' \in Seq(Threads \cup {Null}) /\ Len(lockedBy') = Len(lockedBy)
      /\ \A b \in 1 .. Len(lockedBy) :
            lockedBy'[b] = IF b = NextToLock(t) THEN t ELSE lockedBy[b]
  BY <1>2, <1>3, ChangedFacts
<1>5. SpineOK'
  BY <1>1, <1>2, <1>4, Zenon DEF SpineOK, spine
<1> QED BY <1>1, <1>2, <1>3, <1>4, <1>5 DEF Grown, spine

\* lockHashtable takes the next lock: the ones it has taken stay below the ones it has not.
LEMMA LockStep == ASSUME SetFacts, LInv, NEW t \in Threads, LockBucket(t) PROVE LInv'
<1> DEFINE n == NextToLock(t)
<1>0. /\ At(t, "lockBuckets") /\ Unlocked(t) # {} /\ lockedBy[n] = Null
      /\ UNCHANGED <<spine, queue, shared, local>>
  BY Zenon DEF LockBucket
<1>1. /\ Grown /\ n \in 1 .. Len(lockedBy) /\ Len(lockedBy') = Len(lockedBy)
      /\ \A b \in 1 .. Len(lockedBy) : lockedBy'[b] = IF b = n THEN t ELSE lockedBy[b]
  BY LockSpine, Zenon
<1>2. /\ local[t].table \in 1 .. Len(tables)
      /\ Range(tables[local[t].table]) \in SUBSET (1 .. Len(queue))
      /\ Unlocked(t) \in SUBSET Nat /\ Unlocked(t) \subseteq Range(tables[local[t].table])
      /\ n \in Unlocked(t) /\ \A b \in Unlocked(t) : n <= b
  BY <1>0, UnlockedFacts, NextFacts, Zenon
<1> HIDE DEF n
<1>3. local' = local /\ tables' = tables /\ hashtable' = hashtable /\ UNCHANGED shared
  BY <1>0, Zenon DEF spine
<1>4. SharedOK' /\ LocalOK' /\ LoadFactorKept'
  <2>1. SharedOK' /\ LoadFactorKept'
    BY <1>3, Zenon DEF LInv, SharedOK, LoadFactorKept, shared
  <2>2. local[t] \in Locals' /\ Loaded(local[t]) /\ OnlyLocal(t)
    BY <1>1, <1>3, Widened, Zenon DEF LInv, LocalOK, OnlyLocal
  <2>3. LocalOK'
    BY <1>1, <1>3, <2>2, LocalStep, Zenon
  <2> QED BY <2>1, <2>3, Zenon
<1>5. ASSUME NEW u \in Threads \ {t} PROVE Collects(u)'
  <2>1. lockedBy[n] # u /\ Len(lockedBy) \in Nat
    BY <1>0, NullAssumption DEF n, LInv, SpineOK
  <2>2. HoldsSame(u)
    BY <1>1, <2>1 DEF HoldsSame
  <2> QED BY <1>1, <1>3, <2>2, OtherCollects, Zenon
<1>6. Collects(t)'
  <2>1. /\ 0 \notin Range(tables[local[t].table]) /\ HeldBy(t) \subseteq Range(tables[local[t].table])
        /\ \A b \in HeldBy(t), c \in Unlocked(t) : b < c
    BY <1>0, Zenon DEF LInv, Collecting, Collects
  <2>2. HeldBy(t)' = HeldBy(t) \cup {n}
    BY <1>1, Zenon DEF HeldBy
  <2>3. Len(lockedBy) = Len(queue)
    BY Zenon DEF LInv, SpineOK
  <2>4. Unlocked(t)' = Unlocked(t) \ {n}
    BY <1>1, <1>2, <1>3, <2>3, Zenon DEF Unlocked
  <2>5. \A c \in Unlocked(t) \ {n} : n < c
    BY <1>2
  <2> QED BY <1>0, <1>2, <1>3, <2>1, <2>2, <2>4, <2>5, Zenon DEF Collects, At
<1> QED BY <1>1, <1>4, <1>5, <1>6, Zenon DEF LInv, Grown, Collecting

-----------------------------------------------------------------------------
(* What a rehash moves: sequences joined, sets in order.                   *)

\* f is the function that Joined computes, up to n,
IsJoined(f, seqs, n) ==
    \A i \in 0 .. n : f[i] = IF i = 0 THEN <<>> ELSE f[i - 1] \o seqs[i]

\* and there is such a function.
CanBeJoined(seqs, T, n) == \E f \in [0 .. n -> Seq(T)] : IsJoined(f, seqs, n)

\* Without a least n for which there is none, there is one for every n.
LEMMA JoinExists ==
    ASSUME SetFacts, NEW T, NEW seqs \in Seq(Seq(T)), NEW k \in 0 .. Len(seqs) PROVE CanBeJoined(seqs, T, k)
<1> DEFINE Bad == {n \in 0 .. Len(seqs) : ~CanBeJoined(seqs, T, n)}
<1> SUFFICES ASSUME Bad # {} PROVE FALSE
  BY Zenon
<1>0. Bad \in SUBSET Nat
  OBVIOUS
<1>1. PICK n \in Bad : \A m \in Bad : n <= m
  <2> HIDE DEF Bad
  <2> QED BY <1>0, LeastOne, Zenon
<1>2. CASE n = 0
  <2>1. [i \in 0 .. n |-> <<>>] \in [0 .. n -> Seq(T)] /\ IsJoined([i \in 0 .. n |-> <<>>], seqs, n)
    BY <1>2 DEF IsJoined
  <2> QED BY <1>1, <2>1, Zenon DEF CanBeJoined
<1>3. CASE n # 0
  <2>1. n - 1 \in 0 .. Len(seqs) /\ n \in 1 .. Len(seqs) /\ seqs[n] \in Seq(T)
    BY <1>1, <1>3
  <2>2. CanBeJoined(seqs, T, n - 1)
    BY <1>1, <2>1
  <2>3. PICK f \in [0 .. n - 1 -> Seq(T)] : IsJoined(f, seqs, n - 1)
    BY <2>2, Zenon DEF CanBeJoined
  <2> DEFINE last == f[n - 1] \o seqs[n]
             g == [i \in 0 .. n |-> IF i = n THEN last ELSE f[i]]
  <2>4. last \in Seq(T)
    <3>1. n - 1 \in 0 .. n - 1
      BY <2>1
    <3>2. f[n - 1] \in Seq(T)
      BY <2>3, <3>1, Zenon
    <3> QED BY <2>1, <3>2, ConcatFacts, Zenon
  <2>5. \A i \in 0 .. n : i # n => i \in 0 .. n - 1
    BY <2>1
  <2>6. g \in [0 .. n -> Seq(T)]
    <3> HIDE DEF last
    <3> QED BY <2>3, <2>4, <2>5, Zenon
  <2>7. ASSUME NEW i \in 0 .. n PROVE g[i] = IF i = 0 THEN <<>> ELSE g[i - 1] \o seqs[i]
    <3>1. i # 0 => i - 1 \in 0 .. n /\ i - 1 # n /\ g[i - 1] = f[i - 1]
      BY <2>1
    <3>2. CASE i = n
      BY <1>3, <3>1, <3>2, Zenon
    <3>3. CASE i # n
      <4>1. i \in 0 .. n - 1 /\ g[i] = f[i]
        BY <2>5, <3>3, Zenon
      <4> QED BY <2>3, <3>1, <4>1, Zenon DEF IsJoined
    <3> QED BY <3>2, <3>3, Zenon
  <2>8. IsJoined(g, seqs, n)
    <3> HIDE DEF g
    <3> QED BY <2>7, Zenon DEF IsJoined
  <2> QED BY <1>1, <2>6, <2>8, Zenon DEF CanBeJoined
<1> QED BY <1>2, <1>3, Zenon

\* Joined sequences over T are a sequence over T.
LEMMA JoinedFacts == ASSUME SetFacts, NEW T, NEW seqs \in Seq(Seq(T)) PROVE Joined(seqs) \in Seq(T)
<1> DEFINE D == 0 .. Len(seqs)
           IsIt(f) == f = [i \in D |-> IF i = 0 THEN <<>> ELSE f[i - 1] \o seqs[i]]
           F == CHOOSE f : IsIt(f)
<1>0. Len(seqs) \in Nat /\ Len(seqs) \in D
  OBVIOUS
<1>1. PICK f \in [D -> Seq(T)] : IsJoined(f, seqs, Len(seqs))
  BY <1>0, JoinExists, Zenon DEF CanBeJoined
<1>2. IsIt(f)
  BY <1>1, Zenon DEF IsJoined
<1>3. IsIt(F)
  BY <1>2, Zenon
<1>4. Joined(seqs) = F[Len(seqs)]
  BY Zenon DEF Joined
<1>5. \A i \in D : F[i] = IF i = 0 THEN <<>> ELSE F[i - 1] \o seqs[i]
  <2> HIDE DEF F
  <2> QED BY <1>3, Zenon
<1>6. ASSUME NEW i \in D PROVE F[i] \in Seq(T)
  <2> HIDE DEF F
  <2> DEFINE Bad == {j \in D : F[j] \notin Seq(T)}
  <2> SUFFICES ASSUME Bad # {} PROVE FALSE
    BY Zenon
  <2>1. Bad \in SUBSET Nat
    OBVIOUS
  <2>2. PICK j \in Bad : \A m \in Bad : j <= m
    <3> HIDE DEF Bad
    <3> QED BY <2>1, LeastOne, Zenon
  <2>3. j \in D /\ F[j] \notin Seq(T)
    BY <2>2, Zenon
  <2>4. CASE j = 0
    <3>1. F[j] = <<>>
      BY <1>5, <2>3, <2>4, Zenon
    <3>2. <<>> \in Seq(T)
      OBVIOUS
    <3> QED BY <2>3, <3>1, <3>2, Zenon
  <2>5. CASE j # 0
    <3>1. j - 1 \in D /\ j - 1 < j /\ seqs[j] \in Seq(T)
      BY <2>3, <2>5
    <3>2. F[j - 1] \in Seq(T)
      BY <2>2, <2>3, <3>1
    <3>3. F[j] = F[j - 1] \o seqs[j]
      BY <1>5, <2>3, <2>5, Zenon
    <3>4. F[j - 1] \o seqs[j] \in Seq(T)
      BY <3>1, <3>2, ConcatFacts, Zenon
    <3> QED BY <2>3, <3>3, <3>4, Zenon
  <2> QED BY <2>4, <2>5, Zenon
<1> HIDE DEF F
<1> QED BY <1>0, <1>4, <1>6, Zenon

\* From the least member up.
Ascending(s) == \A i, j \in DOMAIN s : i < j => s[i] < s[j]

\* Sets with k members can be put in order.
CanBeOrdered(k) == \A S \in SUBSET Nat :
    IsFiniteSet(S) /\ Cardinality(S) = k => \E s \in [1 .. k -> S] : Ascending(s)

\* They all can: take the greatest one out of a smallest set that cannot.
LEMMA OrderExists == ASSUME SetFacts, NEW k \in Nat PROVE CanBeOrdered(k)
<1> SUFFICES ASSUME {n \in Nat : ~CanBeOrdered(n)} # {} PROVE FALSE
  BY Zenon
<1>1. PICK n \in {m \in Nat : ~CanBeOrdered(m)} : \A m \in {m \in Nat : ~CanBeOrdered(m)} : n <= m
  <2>1. {m \in Nat : ~CanBeOrdered(m)} \in SUBSET Nat
    BY Zenon
  <2> QED BY <2>1, LeastOne, Zenon
<1>2. ASSUME NEW S \in SUBSET Nat, IsFiniteSet(S), Cardinality(S) = n
      PROVE  \E s \in [1 .. n -> S] : Ascending(s)
  <2>1. CASE n = 0
    <3>1. [i \in 1 .. n |-> 0] \in [1 .. n -> S] /\ Ascending([i \in 1 .. n |-> 0])
      BY <2>1 DEF Ascending
    <3> QED BY <3>1, Zenon
  <2>2. CASE n # 0
    <3>1. S # {}
      BY <1>2, <2>2, Zenon DEF SetFacts
    <3>2. PICK m \in S : \A y \in S : m <= y
      BY <3>1, LeastOne, Zenon
    <3>3. IsFiniteSet(S \ {m}) /\ Cardinality(S \ {m}) = n - 1 /\ S \ {m} \in SUBSET Nat
      BY <1>2, Zenon DEF SetFacts
    <3>4. n - 1 \in Nat /\ CanBeOrdered(n - 1)
      BY <1>1, <2>2
    <3>5. PICK r \in [1 .. n - 1 -> S \ {m}] : Ascending(r)
      BY <3>3, <3>4, Zenon DEF CanBeOrdered
    <3> DEFINE s == [i \in 1 .. n |-> IF i = 1 THEN m ELSE r[i - 1]]
    <3>6. \A i \in 1 .. n : i # 1 => i - 1 \in 1 .. n - 1 /\ r[i - 1] \in S /\ r[i - 1] # m
      <4>1. \A i \in 1 .. n : i # 1 => i - 1 \in 1 .. n - 1
        OBVIOUS
      <4> QED BY <4>1, Zenon
    <3>7. s \in [1 .. n -> S]
      BY <3>6, Zenon
    <3>8. ASSUME NEW i \in 1 .. n, NEW j \in 1 .. n, i < j PROVE s[i] < s[j]
      <4>1. j # 1 /\ s[j] = r[j - 1] /\ r[j - 1] \in S \ {m}
        BY <3>6, <3>8
      <4>2. CASE i = 1
        <5>1. m \in Nat /\ r[j - 1] \in Nat /\ m <= r[j - 1] /\ r[j - 1] # m
          BY <3>2, <4>1, Zenon
        <5> QED BY <4>1, <4>2, <5>1
      <4>3. CASE i # 1
        <5>1. i - 1 < j - 1 /\ i - 1 \in DOMAIN r /\ j - 1 \in DOMAIN r
          BY <3>6, <3>8, <4>1, <4>3
        <5>2. r[i - 1] < r[j - 1]
          BY <3>5, <5>1, Zenon DEF Ascending
        <5> QED BY <4>1, <4>3, <5>2, Zenon
      <4> QED BY <4>2, <4>3, Zenon
    <3> QED BY <3>7, <3>8, Zenon DEF Ascending
  <2> QED BY <2>1, <2>2, Zenon
<1> QED BY <1>1, <1>2, Zenon DEF CanBeOrdered

\* InOrder is a sequence of all the members, in order.
LEMMA InOrderFacts ==
    ASSUME SetFacts, NEW S \in SUBSET Nat, IsFiniteSet(S)
    PROVE  /\ Cardinality(S) \in Nat
           /\ InOrder(S) \in [1 .. Cardinality(S) -> S] /\ Ascending(InOrder(S))
           /\ InOrder(S) \in Seq(S) /\ Len(InOrder(S)) = Cardinality(S)
<1>1. Cardinality(S) \in Nat
  BY Zenon DEF SetFacts
<1>2. \E s \in [1 .. Cardinality(S) -> S] : \A i, j \in DOMAIN s : i < j => s[i] < s[j]
  BY <1>1, OrderExists, Zenon DEF CanBeOrdered, Ascending
<1>3. InOrder(S) \in [1 .. Cardinality(S) -> S] /\ Ascending(InOrder(S))
  BY <1>2, Zenon DEF InOrder, Ascending
<1> QED BY <1>1, <1>3

\* What is taken from a sequence over T is a sequence over T.
LEMMA WhereFacts ==
    ASSUME SetFacts, NEW T, NEW q \in Seq(T), NEW S
    PROVE  Where(q, S) \in Seq(T)
<1> DEFINE I == {i \in DOMAIN q : q[i] \in S}
<1>1. I \in SUBSET Nat /\ I \in SUBSET (1 .. Len(q)) /\ DOMAIN q = 1 .. Len(q)
  OBVIOUS
<1>2. IsFiniteSet(I)
  BY <1>1 DEF SetFacts
<1>3. InOrder(I) \in [1 .. Cardinality(I) -> I] /\ Cardinality(I) \in Nat
  BY <1>1, <1>2, InOrderFacts, Zenon
<1>4. Where(q, S) = [k \in 1 .. Cardinality(I) |-> q[InOrder(I)[k]]]
  BY <1>3, Zenon DEF Where
<1>5. \A k \in 1 .. Cardinality(I) : q[InOrder(I)[k]] \in T
  BY <1>1, <1>3
<1> QED BY <1>3, <1>4, <1>5

\* What an unpark or a timeout dequeues, and what it leaves in the queue, are sequences of threads.
LEMMA TakesFacts == ASSUME SetFacts, LInv, NEW t \in Threads, At(t, "lock") PROVE TakesThreads(t)
<1>1. myQueue(t) \in Seq(Threads)
  BY MyBucketFacts, Zenon
<1>2. Matching(t) \in Seq(Threads) /\ \A some : Without(myQueue(t), some) \in Seq(Threads)
  BY <1>1, WhereFacts, Zenon DEF Matching, Without
<1>3. FirstMatching(t) \in Seq(Threads)
  <2> DEFINE s == Matching(t)
  <2> HIDE DEF s
  <2>1. s \in Seq(Threads) /\ Len(s) \in Nat
    BY <1>2 DEF s
  <2>2. Min({1, Len(s)}) \in {1, Len(s)} /\ Min({1, Len(s)}) <= Len(s)
    <3>1. {1, Len(s)} \in SUBSET Nat /\ {1, Len(s)} # {}
      BY <2>1
    <3> QED BY <3>1, MinFacts, Zenon
  <2>3. Min({1, Len(s)}) \in 0 .. Len(s)
    BY <2>1, <2>2
  <2> DEFINE k == Min({1, Len(s)})
  <2>4. k \in Int /\ k <= Len(s)
    BY <2>1, <2>3
  <2> HIDE DEF k
  <2>5. SubSeq(s, 1, k) \in Seq(Threads)
    BY <2>1, <2>4, FirstFacts, Zenon
  <2> QED BY <2>5, Zenon DEF FirstMatching, s, k
<1> QED BY <1>2, <1>3, Zenon DEF TakesThreads

-----------------------------------------------------------------------------
(* Filling a table and rehashing it.                                       *)

\* How many of the first i slots of a table have no bucket.
Missing(tb, i) == Cardinality({j \in 1 .. i : tb[j] = 0})

\* They are at most all that are missing.
LEMMA MissingFacts ==
    ASSUME SetFacts, NEW k, NEW tb \in Seq(k), NEW i \in 1 .. Len(tb)
    PROVE  /\ Missing(tb, Len(tb)) \in Nat /\ Missing(tb, i) \in 0 .. Missing(tb, Len(tb))
           /\ tb[i] = 0 => Missing(tb, i) >= 1
<1> DEFINE all == {j \in 1 .. Len(tb) : tb[j] = 0}
           some == {j \in 1 .. i : tb[j] = 0}
<1>1. IsFiniteSet(1 .. Len(tb)) /\ all \in SUBSET (1 .. Len(tb)) /\ some \in SUBSET all
  BY DEF SetFacts
<1> HIDE DEF all, some
<1>2. IsFiniteSet(all)
  BY <1>1, Zenon DEF SetFacts
<1>3. IsFiniteSet(some) /\ Cardinality(some) <= Cardinality(all)
  BY <1>1, <1>2, Zenon DEF SetFacts
<1>4. Cardinality(all) \in Nat /\ Cardinality(some) \in Nat
  BY <1>2, <1>3, Zenon DEF SetFacts
<1>5. tb[i] = 0 => some # {}
  BY DEF some
<1>6. some # {} => Cardinality(some) # 0
  BY <1>3, Zenon DEF SetFacts
<1>7. Missing(tb, Len(tb)) = Cardinality(all) /\ Missing(tb, i) = Cardinality(some)
  BY Zenon DEF Missing, all, some
<1> QED BY <1>3, <1>4, <1>5, <1>6, <1>7

\* lockHashtable gives every slot a bucket.
LEMMA FillSpine ==
    ASSUME SetFacts, LInv, NEW t \in Threads, FillBuckets(t)
    PROVE  Grown /\ LocksKept /\ 0 \notin Range(tables'[local[t].table])
<1> DEFINE n == local[t].table
           tb == tables[n]
           m == Missing(tb, Len(tb))
           nt == [i \in DOMAIN tb |-> IF tb[i] # 0 THEN tb[i] ELSE Len(queue) + Missing(tb, i)]
<1>0. SpineOK /\ LocalOK /\ Len(queue) \in Nat
  BY DEF LInv, SpineOK
<1>1. n \in 1 .. Len(tables)
  <2>1. local[t] \in Locals /\ Loaded(local[t]) /\ local[t].pc = "fill"
    BY <1>0, Zenon DEF LocalOK, FillBuckets, At
  <2> QED BY <2>1 DEF Locals, Loaded
<1>2. tb \in Seq(0 .. Len(queue)) /\ Len(tb) >= 1 /\ DOMAIN tb = 1 .. Len(tb)
  BY <1>0, <1>1 DEF SpineOK
<1>3. /\ tables' = [tables EXCEPT ![n] = nt] /\ hashtable' = hashtable
      /\ queue' = queue \o [i \in 1 .. m |-> <<>>]
      /\ lockedBy' = lockedBy \o [i \in 1 .. m |-> Null]
  BY Zenon DEF FillBuckets, Missing
<1> HIDE DEF tb, n
<1>4. m \in Nat
  BY <1>2, MissingFacts
<1>5. ASSUME NEW i \in 1 .. Len(tb)
      PROVE  nt[i] \in 1 .. Len(queue) + m /\ (tb[i] # 0 => nt[i] = tb[i])
  <2>1. tb[i] \in 0 .. Len(queue)
    BY <1>2
  <2>2. Missing(tb, i) \in 0 .. m /\ (tb[i] = 0 => Missing(tb, i) >= 1)
    BY <1>2, MissingFacts, Zenon
  <2>3. nt[i] = IF tb[i] # 0 THEN tb[i] ELSE Len(queue) + Missing(tb, i)
    BY <1>2, Zenon
  <2> HIDE DEF nt, m
  <2> QED BY <1>0, <1>4, <2>1, <2>2, <2>3
<1>6. nt \in Seq(0 .. Len(queue) + m) /\ Len(nt) = Len(tb) /\ DOMAIN nt = 1 .. Len(tb)
  <2>1. nt = [i \in 1 .. Len(tb) |-> nt[i]]
    BY <1>2, Zenon
  <2> HIDE DEF nt, m
  <2>2. \A i \in 1 .. Len(tb) : nt[i] \in 0 .. Len(queue) + m
    BY <1>0, <1>4, <1>5
  <2> QED BY <1>2, <2>1, <2>2
<1> HIDE DEF nt, m
<1>7. /\ queue' \in Seq(Seq(Threads)) /\ Len(queue') = Len(queue) + m
  <2>1. [i \in 1 .. m |-> <<>>] \in Seq(Seq(Threads)) /\ Len([i \in 1 .. m |-> <<>>]) = m
    BY <1>4
  <2> DEFINE r == [i \in 1 .. m |-> <<>>]
  <2> HIDE DEF r
  <2>2. r \in Seq(Seq(Threads)) /\ Len(r) = m /\ queue \in Seq(Seq(Threads)) /\ queue' = queue \o r
    BY <1>0, <1>3, <2>1, Zenon DEF r, SpineOK
  <2> QED BY <2>2, ConcatFacts, Zenon
<1>8. /\ lockedBy' \in Seq(Threads \cup {Null}) /\ Len(lockedBy') = Len(queue) + m
      /\ \A b \in 1 .. Len(lockedBy) : lockedBy'[b] = lockedBy[b]
      /\ \A b \in 1 .. Len(lockedBy') : b > Len(lockedBy) => lockedBy'[b] = Null
  BY <1>0, <1>3, <1>4, BucketsAppended, Zenon DEF SpineOK
<1>9. /\ SpineOK' /\ Len(tables') = Len(tables)
      /\ \A i \in 1 .. Len(tables) : tables'[i] = IF i = n THEN nt ELSE tables[i]
  <2>1. Len(queue) + m \in Nat /\ Len(queue) + m >= Len(queue) /\ Len(nt) = Len(tables[n])
    BY <1>0, <1>4, <1>6 DEF tb
  <2> QED BY <1>1, <1>3, <1>6, <1>7, <1>8, <2>1, TableFilled, Zenon
<1>10. 0 \notin Range(nt)
  BY <1>0, <1>4, <1>5, <1>6 DEF Range
<1>11. 0 \notin Range(tb) => nt = tb
  BY <1>2, <1>5, <1>6 DEF Range
<1>12. Len(tables) <= Len(tables') /\ Len(queue) <= Len(queue')
  BY <1>0, <1>4, <1>7, <1>9 DEF SpineOK
<1>13. \A i \in 1 .. Len(tables) :
          Len(tables'[i]) = Len(tables[i]) /\ (0 \notin Range(tables[i]) => tables'[i] = tables[i])
  BY <1>6, <1>9, <1>11, Zenon DEF tb
<1> QED BY <1>1, <1>8, <1>9, <1>10, <1>12, <1>13, Zenon DEF Grown, LocksKept, n

\* The slots of the parked threads are a sequence.
LEMMA UsedFacts ==
    ASSUME SetFacts, NEW q \in Seq(Threads), NEW n
    PROVE  Len(UsedSlots(q, n)) \in Nat /\ DOMAIN UsedSlots(q, n) = 1 .. Len(UsedSlots(q, n))
<1> DEFINE slot(i) == indexIn(address[q[i]], n)
           I == {i \in DOMAIN q : \A j \in 1 .. i - 1 : slot(j) # slot(i)}
<1>1. I \in SUBSET Nat /\ I \in SUBSET (1 .. Len(q))
  OBVIOUS
<1>2. IsFiniteSet(I)
  BY <1>1 DEF SetFacts
<1>3. InOrder(I) \in [1 .. Cardinality(I) -> I] /\ Cardinality(I) \in Nat
  <2> HIDE DEF I
  <2> QED BY <1>1, <1>2, InOrderFacts, Zenon
<1>4. UsedSlots(q, n) = [k \in DOMAIN InOrder(I) |-> slot(InOrder(I)[k])]
  BY Zenon DEF UsedSlots
<1> HIDE DEF I, slot
<1>5. DOMAIN InOrder(I) = 1 .. Cardinality(I)
  BY <1>3, Zenon
<1> QED BY <1>3, <1>4, <1>5

\* The place of a slot is a positive number.
LEMMA PlaceFacts ==
    ASSUME SetFacts, NEW used, Len(used) \in Nat, DOMAIN used = 1 .. Len(used), NEW i \in Nat, i >= 1
    PROVE  PlaceOf(i, used) \in Nat /\ PlaceOf(i, used) >= 1
<1>1. CASE i \in Range(used)
  <2>1. \E p \in DOMAIN used : used[p] = i
    BY <1>1, Zenon DEF Range
  <2>2. PlaceOf(i, used) \in DOMAIN used
    BY <1>1, <2>1, Zenon DEF PlaceOf
  <2> QED BY <2>2
<1>2. CASE i \notin Range(used)
  <2> DEFINE J == {j \in 1 .. i : j \notin Range(used)}
  <2>1. IsFiniteSet(1 .. i) /\ J \in SUBSET (1 .. i) /\ i \in J
    BY <1>2 DEF SetFacts
  <2>2. PlaceOf(i, used) = Len(used) + Cardinality(J)
    BY <1>2, Zenon DEF PlaceOf
  <2> HIDE DEF J
  <2>3. IsFiniteSet(J)
    BY <2>1, Zenon DEF SetFacts
  <2>4. Cardinality(J) \in Nat /\ Cardinality(J) # 0
    BY <2>1, <2>3, Zenon DEF SetFacts
  <2> QED BY <2>2, <2>4
<1> QED BY <1>1, <1>2, Zenon

\* The rehash adds a table of the size it wants, with buckets that exist, and gives back the locks.
LEMMA RehashSpine ==
    ASSUME SetFacts, LInv, NEW t \in Threads, Rehash(t)
    PROVE  /\ Grown /\ LocksDropped(t) /\ hashtable' \in 1 .. Len(tables')
           /\ Len(tables'[hashtable']) = local[t].threads * growthFactor * maxLoadFactor
<1> DEFINE S == Range(tables[local[t].table])
           reusable == InOrder(S)
           threadDatas == Joined([i \in DOMAIN reusable |-> queue[reusable[i]]])
           newSize == local[t].threads * growthFactor * maxLoadFactor
           used == UsedSlots(threadDatas, newSize)
           fresh == Max({0, Len(used) - Len(reusable)})
           supply == Reversed(reusable) \o [i \in 1 .. fresh |-> Len(queue) + i]
           newTable == [i \in 1 .. newSize |->
                          IF PlaceOf(i, used) <= Len(supply) THEN supply[PlaceOf(i, used)] ELSE 0]
           enqueued(b) == Where(threadDatas,
                                {u \in Range(threadDatas) :
                                    newTable[indexIn(address[u], newSize)] = b})
<1>0. SpineOK /\ LocalOK /\ Len(queue) \in Nat /\ Len(tables) \in Nat
  BY DEF LInv, SpineOK
<1>1. /\ At(t, "lockBuckets")
      /\ tables' = Append(tables, newTable) /\ hashtable' = Len(tables')
      /\ queue' = [b \in 1 .. Len(queue) + fresh |-> enqueued(b)]
      /\ lockedBy' = unlockHashtable(t) \o [i \in 1 .. fresh |-> Null]
  BY Zenon DEF Rehash, Locked
<1>2. S \in SUBSET (1 .. Len(queue)) /\ S \in SUBSET Nat /\ IsFiniteSet(S)
  <2>1. S \in SUBSET (1 .. Len(queue))
    BY <1>1, UnlockedFacts, Zenon
  <2>2. IsFiniteSet(1 .. Len(queue))
    BY <1>0, Zenon DEF SetFacts
  <2> HIDE DEF S
  <2>3. IsFiniteSet(S)
    BY <2>1, <2>2, Zenon DEF SetFacts
  <2>4. S \in SUBSET Nat
    BY <1>0, <2>1
  <2> QED BY <2>1, <2>3, <2>4, Zenon
<1>3. newSize \in Nat /\ newSize >= 1
  <2>1. local[t] \in Locals /\ Loaded(local[t]) /\ local[t].pc = "lockBuckets"
    BY <1>0, <1>1, Zenon DEF LocalOK, At
  <2>2. local[t].threads # 0
    BY <2>1, Zenon DEF Loaded, Growing
  <2>3. local[t].threads \in Int /\ local[t].threads >= 0
    BY <2>1 DEF Locals
  <2>4. \A a, b \in Nat : a >= 1 /\ b >= 1 => a * b \in Nat /\ a * b >= 1
    OBVIOUS
  <2> QED BY <2>2, <2>3, <2>4, FactorAssumption
<1> HIDE DEF S
<1>4. reusable \in Seq(S) /\ Len(reusable) \in Nat
  BY <1>2, InOrderFacts, Zenon
<1> HIDE DEF reusable, newSize
<1>5. threadDatas \in Seq(Threads)
  <2> DEFINE qs == [i \in DOMAIN reusable |-> queue[reusable[i]]]
  <2>1. \A i \in 1 .. Len(reusable) : reusable[i] \in 1 .. Len(queue)
    BY <1>2, <1>4, ElementOf, Zenon
  <2>2. \A i \in 1 .. Len(reusable) : queue[reusable[i]] \in Seq(Threads)
    BY <1>0, <2>1 DEF SpineOK
  <2>3. qs = [i \in 1 .. Len(reusable) |-> queue[reusable[i]]]
    BY <1>4
  <2>4. qs \in Seq(Seq(Threads))
    BY <1>4, <2>2, <2>3
  <2> HIDE DEF qs
  <2>5. Joined(qs) \in Seq(Threads)
    BY <2>4, JoinedFacts, Zenon
  <2> QED BY <2>5, Zenon DEF qs
<1> HIDE DEF threadDatas
<1>6. Len(used) \in Nat /\ DOMAIN used = 1 .. Len(used)
  BY <1>5, UsedFacts, Zenon
<1> HIDE DEF used
<1>7. fresh \in Nat
  <2>1. fresh = IF Len(used) - Len(reusable) <= 0 THEN 0 ELSE Len(used) - Len(reusable)
    BY <1>4, <1>6 DEF Max
  <2> QED BY <1>4, <1>6, <2>1
<1> HIDE DEF fresh
<1>8. supply \in Seq(1 .. Len(queue) + fresh) /\ Len(supply) \in Nat
  <2> DEFINE front == Reversed(reusable)
             rest == [i \in 1 .. fresh |-> Len(queue) + i]
  <2>1. front \in Seq(1 .. Len(queue) + fresh)
    <3>1. 1 .. Len(queue) \subseteq 1 .. Len(queue) + fresh
      BY <1>0, <1>7
    <3>2. reusable \in Seq(1 .. Len(queue) + fresh)
      BY <1>2, <1>4, <3>1, SeqWider, Zenon
    <3>3. front = [i \in 1 .. Len(reusable) |-> reusable[Len(reusable) - i + 1]]
      BY DEF Reversed
    <3>4. \A i \in 1 .. Len(reusable) : Len(reusable) - i + 1 \in 1 .. Len(reusable)
      BY <1>4
    <3>5. \A i \in 1 .. Len(reusable) :
             reusable[Len(reusable) - i + 1] \in 1 .. Len(queue) + fresh
      BY <3>2, <3>4, ElementOf, Zenon
    <3> QED BY <1>4, <3>3, <3>5
  <2>2. rest \in Seq(1 .. Len(queue) + fresh)
    BY <1>0, <1>7
  <2> HIDE DEF front, rest
  <2>3. front \o rest \in Seq(1 .. Len(queue) + fresh)
    BY <2>1, <2>2, ConcatFacts, Zenon
  <2>4. Len(front \o rest) \in Nat
    BY <2>3
  <2> QED BY <2>3, <2>4, Zenon DEF front, rest
<1> HIDE DEF supply
<1>9. newTable \in Seq(0 .. Len(queue) + fresh) /\ Len(newTable) = newSize
  <2>1. ASSUME NEW i \in 1 .. newSize
        PROVE  (IF PlaceOf(i, used) <= Len(supply) THEN supply[PlaceOf(i, used)] ELSE 0)
                  \in 0 .. Len(queue) + fresh
    <3>1. PlaceOf(i, used) \in Nat /\ PlaceOf(i, used) >= 1
      BY <1>3, <1>6, PlaceFacts
    <3>2. PlaceOf(i, used) <= Len(supply) => PlaceOf(i, used) \in 1 .. Len(supply)
      BY <1>8, <3>1
    <3>3. PlaceOf(i, used) <= Len(supply) => supply[PlaceOf(i, used)] \in 1 .. Len(queue) + fresh
      BY <1>8, <3>2, ElementOf, Zenon
    <3> QED BY <1>0, <1>7, <3>3
  <2> QED BY <1>3, <2>1
<1> HIDE DEF newTable
<1>10. queue' \in Seq(Seq(Threads)) /\ Len(queue') = Len(queue) + fresh
  <2>1. \A b : enqueued(b) \in Seq(Threads)
    BY <1>5, WhereFacts, Zenon
  <2> HIDE DEF enqueued
  <2> QED BY <1>0, <1>1, <1>7, <2>1
<1>11. /\ lockedBy' \in Seq(Threads \cup {Null}) /\ Len(lockedBy') = Len(queue) + fresh
       /\ LocksDropped(t)
  <2> DEFINE l == unlockHashtable(t)
  <2>1. /\ l \in Seq(Threads \cup {Null}) /\ Len(l) = Len(lockedBy)
        /\ \A b \in 1 .. Len(lockedBy) : l[b] = IF lockedBy[b] = t THEN Null ELSE lockedBy[b]
    BY UnlockFacts, Zenon
  <2>2. lockedBy' = l \o [i \in 1 .. fresh |-> Null]
    BY <1>1, Zenon
  <2> HIDE DEF l
  <2>3. /\ lockedBy' \in Seq(Threads \cup {Null}) /\ Len(lockedBy') = Len(queue) + fresh
        /\ \A b \in 1 .. Len(lockedBy) : lockedBy'[b] = l[b]
        /\ \A b \in 1 .. Len(lockedBy') : b > Len(lockedBy) => lockedBy'[b] = Null
    BY <1>7, <2>1, <2>2, BucketsAppended, Zenon
  <2> QED BY <2>1, <2>3, Zenon DEF LocksDropped
<1>12. /\ SpineOK' /\ Len(tables') = Len(tables) + 1 /\ tables'[Len(tables')] = newTable
       /\ \A i \in 1 .. Len(tables) : tables'[i] = tables[i]
  <2>1. Len(queue) + fresh \in Nat /\ Len(queue) + fresh >= Len(queue) /\ Len(newTable) >= 1
    BY <1>0, <1>3, <1>7, <1>9
  <2> QED BY <1>1, <1>9, <1>10, <1>11, <2>1, TableAppended, Zenon
<1>13. Len(tables) <= Len(tables') /\ Len(queue) <= Len(queue') /\ hashtable' \in 1 .. Len(tables')
  BY <1>0, <1>1, <1>7, <1>10, <1>12
<1>14. Len(tables'[hashtable']) = newSize
  BY <1>1, <1>9, <1>12, Zenon
<1> QED BY <1>11, <1>12, <1>13, <1>14, Zenon DEF Grown, newSize

-----------------------------------------------------------------------------
(* The invariant, and what follows from it.                                *)

\* The invariant holds in the beginning,
LEMMA InitInv == ASSUME SetFacts, Counts, Init PROVE LInv
<1>1. SpineOK
  BY DEF Init, SpineOK
<1>2. SharedOK
  <2>1. {t \in Threads : local[t].hasData} = {}
    BY Zenon DEF Init
  <2>2. numThreads = Cardinality({t \in Threads : local[t].hasData})
    BY <2>1, Zenon DEF Init, SetFacts
  <2> QED BY <2>2, Zenon DEF Init, SharedOK
<1>3. LocalOK
  <2>1. Len(tables) = 0 /\ Len(queue) = 0 /\ Cardinality(Threads) \in Nat /\ <<>> \in Seq(Threads)
    BY DEF Counts, Init
  <2>2. 0 \in 0 .. Len(tables) /\ 0 \in 0 .. Len(queue) /\ 0 \in 0 .. Cardinality(Threads)
    BY <2>1
  <2>3. local \in [Threads -> Locals]
    BY <2>1, <2>2, Zenon DEF Init, Locals, Labels
  <2>4. \A t \in Threads : Loaded(local[t])
    BY Zenon DEF Init, Loaded, Growing
  <2> QED BY <2>3, <2>4, Zenon DEF LocalOK
<1>4. Collecting
  BY DEF Init, Collecting, Collects, HeldBy, At
<1>5. LoadFactorKept
  BY Zenon DEF Init, LoadFactorKept
<1> QED BY <1>1, <1>2, <1>3, <1>4, <1>5, Zenon DEF LInv

\* and every step keeps it.
LEMMA NextStep == ASSUME Counts, SetFacts, LInv, Next PROVE LInv'
<1>1. PICK t \in Threads : Proceed(t) \/ TimeOut(t) \/ Call(t)
  BY Zenon DEF Next
<1>2. CASE Grow(t)
  <2>1. CASE lockHashtable(t)
    BY <2>1, LoadTableStep, QuietStep, Zenon
  <2> QED BY <1>2, <2>1, FastCheckStep, FillSpine, FillStep, LockStep, UnlockSteps, RehashSpine,
            RehashStep, Zenon DEF Grow
<1>3. CASE Proceed(t) /\ ~Grow(t)
  <2>1. At(t, "lock") => TakesThreads(t)
    BY TakesFacts, Zenon
  <2>2. DequeueMyself(t) => At(t, "lock")
    BY Zenon DEF DequeueMyself, InBucket, LockFree
  <2>3. Quiet(t)
    BY <1>3, <2>1, <2>2, LoadTableStep, LoadBucketStep, NoBucketSteps, ParkSteps,
       ReturnSteps, DequeueStep, ClearStep, UnparkSteps, Zenon DEF Proceed
  <2> QED BY <2>3, QuietStep, Zenon
<1>4. CASE Call(t)
  <2>1. CASE ThreadEnds(t)
    BY <2>1, EndsStep, Zenon
  <2>2. CASE \E a \in Addresses : notifyOne(t, a) \/ notifyAll(t, a)
    BY <2>2, CallSteps, QuietStep, Zenon
  <2>3. CASE \E a \in Addresses, k \in {"wait", "compare"} : parkConditionally(t, a, k)
    BY <2>3, CallParkStep, Zenon
  <2> QED BY <1>4, <2>1, <2>2, <2>3, Zenon DEF Call
<1>5. CASE TimeOut(t)
  <2>1. local[t].arg \in Addresses
    BY <1>5, Zenon DEF TimeOut, At, LInv, LocalOK, Loaded
  <2> QED BY <1>5, <2>1, CallSteps, QuietStep, Zenon
<1> QED BY <1>1, <1>2, <1>3, <1>4, <1>5, Zenon

\* In a circle of threads in lockHashtable, take one that waits for the greatest bucket of all: the
\* thread that has that lock waits for a greater one.
LEMMA NoCircle == ASSUME SetFacts, LInv PROVE NoLockCircle
<1>1. ASSUME NEW S \in (SUBSET Threads) \ {{}},
             \A t \in S : At(t, "lockBuckets") /\ Unlocked(t) # {} /\ lockedBy[NextToLock(t)] \in S
      PROVE  FALSE
  <2> DEFINE N == {NextToLock(t) : t \in S}
  <2>1. \A t \in S : /\ NextToLock(t) \in Unlocked(t) /\ NextToLock(t) \in Nat
                     /\ NextToLock(t) \in 1 .. Len(lockedBy)
    <3> SUFFICES ASSUME NEW t \in S
                 PROVE  /\ NextToLock(t) \in Unlocked(t) /\ NextToLock(t) \in Nat
                        /\ NextToLock(t) \in 1 .. Len(lockedBy)
      BY Zenon
    <3>1. /\ Range(tables[local[t].table]) \in SUBSET (1 .. Len(queue))
          /\ Unlocked(t) \subseteq Range(tables[local[t].table]) /\ NextToLock(t) \in Unlocked(t)
      BY <1>1, UnlockedFacts, NextFacts, Zenon
    <3>2. Len(lockedBy) = Len(queue)
      BY <1>1, Zenon DEF LInv, SpineOK
    <3> QED BY <3>1, <3>2
  <2>2. N \in SUBSET (1 .. Len(lockedBy)) /\ N # {} /\ Len(lockedBy) \in Nat
    <3>1. Len(lockedBy) \in Nat
      BY <1>1 DEF LInv, SpineOK
    <3>2. S # {}
      BY <1>1, Zenon
    <3> QED BY <2>1, <3>1, <3>2, Zenon
  <2>3. PICK x \in N : \A y \in N : y <= x
    <3> HIDE DEF N
    <3>1. N \in SUBSET Nat /\ N # {} /\ Len(lockedBy) \in Nat /\ \A y \in N : y <= Len(lockedBy)
      BY <2>2
    <3> QED BY <3>1, GreatestOne, Zenon
  <2>4. PICK t \in S : x = NextToLock(t)
    BY <2>3, Zenon
  <2>5. PICK u \in S : lockedBy[x] = u
    BY <1>1, <2>4, Zenon
  <2>6. x \in HeldBy(u) /\ NextToLock(u) \in Unlocked(u) /\ Collects(u) /\ At(u, "lockBuckets")
    BY <1>1, <2>1, <2>2, <2>3, <2>5, Zenon DEF HeldBy, LInv, Collecting
  <2>7. x < NextToLock(u)
    BY <2>6, Zenon DEF Collects
  <2>8. NextToLock(u) <= x /\ x \in Nat /\ NextToLock(u) \in Nat
    BY <2>1, <2>2, <2>3, Zenon
  <2> QED BY <2>7, <2>8
<1> QED BY <1>1, Zenon DEF NoLockCircle

INSTANCE WellFoundedInduction

\* A set of numbers has a least member: the library's well-founded induction.
LEMMA LeastFact == ASSUME NEW S \in SUBSET Nat, S # {} PROVE \E x \in S : \A y \in S : x <= y
<1>1. \E x \in S : \A y \in S : ~(<<y, x>> \in OpToRel(<, Nat))
  BY NatLessThanWellFounded, WFMin, Zenon
<1>2. \A x, y \in Nat : y < x => <<y, x>> \in OpToRel(<, Nat)
  BY Zenon DEF OpToRel
<1>3. PICK x \in S : \A y \in S : ~(<<y, x>> \in OpToRel(<, Nat))
  BY <1>1, Zenon
<1>4. \A y \in S : ~(y < x)
  BY <1>2, <1>3, Zenon
<1>5. \A y \in S : x <= y
  BY <1>4
<1> QED BY <1>5, Zenon

INSTANCE FiniteSetTheorems

\* The facts used of finite sets,
LEMMA SetFactsHold == SetFacts
<1>1. IsFiniteSet({}) /\ Cardinality({}) = 0 /\ \A n \in Nat : IsFiniteSet(1 .. n)
  BY FS_EmptySet, FS_Interval
<1>2. ASSUME NEW S, IsFiniteSet(S) PROVE Cardinality(S) \in Nat /\ (Cardinality(S) = 0 <=> S = {})
  BY <1>2, FS_CardinalityType, FS_EmptySet, Zenon
<1>3. ASSUME NEW S, IsFiniteSet(S), NEW T \in SUBSET S
      PROVE  IsFiniteSet(T) /\ Cardinality(T) <= Cardinality(S)
  BY <1>3, FS_Subset, Zenon
<1>4. ASSUME NEW S, IsFiniteSet(S), NEW x \in S
      PROVE  IsFiniteSet(S \ {x}) /\ Cardinality(S \ {x}) = Cardinality(S) - 1
  BY <1>4, FS_RemoveElement, Zenon
<1> QED BY <1>1, <1>2, <1>3, <1>4, LeastFact, Zenon DEF SetFacts

\* and of sets of threads.
LEMMA CountsHold == Counts
<1>1. IsFiniteSet(Threads) /\ Cardinality(Threads) \in Nat
  BY ThreadsAssumption, FS_CardinalityType, Zenon
<1>2. ASSUME NEW S \in SUBSET Threads
      PROVE  /\ IsFiniteSet(S) /\ Cardinality(S) \in Nat /\ Cardinality(S) <= Cardinality(Threads)
  BY <1>1, FS_Subset, FS_CardinalityType, Zenon
<1>3. ASSUME NEW S \in SUBSET Threads, NEW t \in Threads
      PROVE  /\ Cardinality(S \cup {t}) = IF t \in S THEN Cardinality(S) ELSE Cardinality(S) + 1
             /\ Cardinality(S \ {t}) = IF t \in S THEN Cardinality(S) - 1 ELSE Cardinality(S)
  BY <1>2, FS_AddElement, FS_RemoveElement, Zenon
<1>4. \A S \in SUBSET Threads : Cardinality(S) \in 0 .. Cardinality(Threads)
  BY <1>1, <1>2
<1> QED BY <1>1, <1>3, <1>4, Zenon DEF Counts

\* The inductive invariant is one.
LEMMA Invariance == Spec => []LInv
<1>0. Init => LInv
  BY SetFactsHold, CountsHold, InitInv, Zenon
<1>1. LInv /\ [Next]_vars => LInv'
  BY SetFactsHold, CountsHold, NextStep, StutterStep, Zenon
<1> QED BY <1>0, <1>1, PTL DEF Spec

\* Every variable of ParkingLot keeps its type, for any threads, addresses, hash and factors; numThreads
\* is the number of threads that have a ThreadData (ThreadData(), ~ThreadData()).
THEOREM ParkingTypeCorrect == Spec => []TypeOK
<1>1. LInv => TypeOK
  BY DEF LInv, SpineOK, SharedOK, LocalOK, TypeOK
<1> QED BY <1>1, Invariance, PTL

\* The table is large enough for the threads there are, or one of them is still on its way to make it so,
\* however they are created, end and grow it against each other (ensureHashtableSize).
THEOREM TableLargeEnough == Spec => []LoadFactorKept
<1>1. LInv => LoadFactorKept
  BY Zenon DEF LInv
<1> QED BY <1>1, Invariance, PTL

\* No threads wait for each other's bucket locks in a circle while they collect the locks of tables of
\* different ages (the std::sort of lockHashtable).
THEOREM LocksInOrder == Spec => []NoLockCircle
BY Invariance, SetFactsHold, NoCircle, PTL
=============================================================================

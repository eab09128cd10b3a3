------------------------------ MODULE ParkingLot ------------------------------
(***************************************************************************)
(* WTF::ParkingLot (wtf/ParkingLot.cpp): queues of parked threads, kept in *)
(* the buckets of a hash table of addresses.  A thread that parks for the  *)
(* first time may first have to grow the table, while others park, unpark  *)
(* and time out through the table they loaded before.                      *)
(*                                                                         *)
(* A bucket's WordLock is a mutual exclusion (module WordLock): what runs  *)
(* under one bucket lock is one step, taken when nobody holds the lock,    *)
(* and only lockHashtable, which collects the locks of all buckets, holds  *)
(* them over several steps.  A thread's parkingLock and parkingCondition   *)
(* guard its address only: a step waits for the address to be cleared.     *)
(*                                                                         *)
(* The client of the model is WTF::Condition (wtf/Condition.h) without the *)
(* lock its callers hold, together with compareAndPark on the same word:   *)
(* an address is the address of a Condition's m_hasWaiters.                *)
(***************************************************************************)
EXTENDS Naturals, Sequences, FiniteSets, FiniteSetsExt

CONSTANTS Threads, Addresses, Null,
          Parks,          \* which threads park, where and in which way,
          Notifies,       \* which notify whom,
          Mortals,        \* and which may end
          Hash,           \* hashAddress: a number for every address
          maxLoadFactor, growthFactor

ASSUME ThreadsAssumption == IsFiniteSet(Threads)
ASSUME NullAssumption == Null \notin Threads \cup Addresses
ASSUME RolesAssumption == /\ Parks \in [Threads -> SUBSET (Addresses \X {"wait", "compare"})]
                          /\ Notifies \in [Threads -> SUBSET Addresses]
                          /\ Mortals \subseteq Threads
ASSUME HashAssumption == Hash \in [Addresses -> Nat]
ASSUME FactorAssumption == {maxLoadFactor, growthFactor} \subseteq Nat \ {0}

VARIABLES hashtable,     \* the current table: an index of tables, 0 if none yet
          tables,        \* every table made; a table is a sequence of buckets, 0 if none yet
          queue,         \* the queue of each bucket; buckets are numbered by their addresses
          lockedBy,      \* who holds the lock of each bucket through lockHashtable
          numThreads,
          address,       \* ThreadData::address
          m_hasWaiters,  \* the word at each address
          local          \* what each thread knows: where it is and its locals

spine == <<hashtable, tables>>
buckets == <<queue, lockedBy>>
shared == <<numThreads, address, m_hasWaiters>>
vars == <<spine, buckets, shared, local>>

Labels == {"idle", "grow", "lockTable", "fill", "lockBuckets", "load", "bucket", "lock",
           "sleep", "giveUp", "clear", "wake"}

Locals == [pc : Labels,
           kind : {"none", "wait", "compare", "timedOut", "one", "all"}, \* the operation
           arg : Addresses \cup {Null},
           hasData : BOOLEAN,                     \* it has a ThreadData
           table : 0 .. Len(tables), bucket : 0 .. Len(queue),   \* the ones it loaded
           threads : 0 .. Cardinality(Threads),   \* how many it counted in ThreadData()
           didDequeue : BOOLEAN,                  \* it took itself out of the queue
           toWake : Seq(Threads)]                 \* whom it dequeued and has not woken yet

TypeOK ==
    /\ hashtable \in 0 .. Len(tables)
    /\ \A i \in DOMAIN tables : tables[i] \in Seq(0 .. Len(queue))
    /\ queue \in Seq(Seq(Threads))
    /\ lockedBy \in Seq(Threads \cup {Null}) /\ Len(lockedBy) = Len(queue)
    /\ numThreads = Cardinality({t \in Threads : local[t].hasData})
    /\ address \in [Threads -> Addresses \cup {Null}]
    /\ m_hasWaiters \in [Addresses -> BOOLEAN]
    /\ \A t \in Threads : local[t] \in Locals

Init ==
    /\ hashtable = 0 /\ tables = <<>> /\ queue = <<>> /\ lockedBy = <<>>
    /\ numThreads = 0
    /\ address = [t \in Threads |-> Null]
    /\ m_hasWaiters = [a \in Addresses |-> FALSE]
    /\ local = [t \in Threads |->
                  [pc |-> "idle", kind |-> "none", arg |-> Null, hasData |-> FALSE, table |-> 0,
                   bucket |-> 0, threads |-> 0, didDequeue |-> FALSE, toWake |-> <<>>]]

At(t, l) == local[t].pc = l
Goto(t, l) == local' = [local EXCEPT ![t].pc = l]
\* Go on without the table and the bucket loaded, and return
Leave(t, l) == local' = [local EXCEPT ![t].pc = l, ![t].table = 0, ![t].bucket = 0,
                                      ![t].threads = 0]
Done(me) == [me EXCEPT !.pc = "idle", !.kind = "none", !.arg = Null, !.table = 0, !.bucket = 0,
                       !.didDequeue = FALSE]
Return(t) == local' = [local EXCEPT ![t] = Done(@)]
Begin(t, l, k, a) == local' = [local EXCEPT ![t].pc = l, ![t].kind = k, ![t].arg = a]

\* The members of a set of numbers from the least one up, and those members of a sequence that are
\* in a set
InOrder(S) == CHOOSE s \in [1 .. Cardinality(S) -> S] : \A i, j \in DOMAIN s : i < j => s[i] < s[j]
Where(q, S) ==
    LET places == InOrder({i \in DOMAIN q : q[i] \in S}) IN [k \in DOMAIN places |-> q[places[k]]]
\* A sequence from its end
Reversed(s) == [i \in 1 .. Len(s) |-> s[Len(s) + 1 - i]]
\* Mutant: a queue is collected from its tail
JoinedFromTails(seqs) ==
    LET upTo[i \in 0 .. Len(seqs)] == IF i = 0 THEN <<>> ELSE upTo[i - 1] \o Reversed(seqs[i])
    IN upTo[Len(seqs)]
\* Sequences one after the other
Joined(seqs) ==
    LET upTo[i \in 0 .. Len(seqs)] == IF i = 0 THEN <<>> ELSE upTo[i - 1] \o seqs[i]
    IN upTo[Len(seqs)]

------------------------------------------------------------------------------
(* The table: made on first use, and grown by a thread's first park          *)

indexIn(a, size) == (Hash[a] % size) + 1
\* Mutant: the table is checked for the threads before this one
LargeEnoughBefore(size, threads) == size >= maxLoadFactor * (threads - 1)

largeEnough(size, threads) == size >= maxLoadFactor * threads

\* Load the table; the first one is made by whoever needs it first
ensureHashtable(t, l) ==
    /\ IF hashtable # 0 THEN UNCHANGED spine
       ELSE /\ tables' = Append(tables, [i \in 1 .. maxLoadFactor |-> 0])
            /\ hashtable' = Len(tables')
    /\ local' = [local EXCEPT ![t].pc = l, ![t].table = hashtable']
    /\ UNCHANGED <<buckets, shared>>

\* ensureHashtableSize, before any lock
FastCheck(t) ==
    /\ At(t, "grow")
    /\ IF hashtable # 0 /\ largeEnough(Len(tables[hashtable]), local[t].threads)
         THEN Leave(t, "load") ELSE Goto(t, "lockTable")
    /\ UNCHANGED <<spine, buckets, shared>>

lockHashtable(t) == At(t, "lockTable") /\ ensureHashtable(t, "fill")

\* Every slot of the loaded table gets a bucket.  (They are made from the last
\* slot down, at whatever addresses: the model's are in the order of the slots)
FillBuckets(t) ==
    /\ At(t, "fill")
    /\ LET tb == tables[local[t].table]
           missing(i) == Cardinality({j \in 1 .. i : tb[j] = 0})
       IN /\ tables' = [tables EXCEPT ![local[t].table] =
                [i \in DOMAIN tb |-> IF tb[i] # 0 THEN tb[i] ELSE Len(queue) + missing(i)]]
          /\ queue' = queue \o [i \in 1 .. missing(Len(tb)) |-> <<>>]
          /\ lockedBy' = lockedBy \o [i \in 1 .. missing(Len(tb)) |-> Null]
    /\ Goto(t, "lockBuckets")
    /\ UNCHANGED <<hashtable, shared>>

Unlocked(t) == {b \in Range(tables[local[t].table]) : lockedBy[b] # t}

\* std::sort: the locks are taken in the order of the buckets' addresses
NextToLock(t) == Min(Unlocked(t))

LockBucket(t) ==
    /\ At(t, "lockBuckets")
    /\ Unlocked(t) # {}
    /\ lockedBy[NextToLock(t)] = Null
    /\ lockedBy' = [lockedBy EXCEPT ![NextToLock(t)] = t]
    /\ UNCHANGED <<spine, queue, shared, local>>

\* Mutant: the first bucket stays locked
UnlockAllButFirst(t) ==
    [b \in DOMAIN lockedBy |-> IF lockedBy[b] = t /\ b > 1 THEN Null ELSE lockedBy[b]]

unlockHashtable(t) == [b \in DOMAIN lockedBy |-> IF lockedBy[b] = t THEN Null ELSE lockedBy[b]]

\* All buckets are locked and the table is still the current one
Locked(t) == At(t, "lockBuckets") /\ Unlocked(t) = {} /\ hashtable = local[t].table

\* The table was rehashed while its buckets were being locked: try again
LockedStaleTable(t) ==
    /\ At(t, "lockBuckets") /\ Unlocked(t) = {}
    /\ hashtable # local[t].table
    /\ lockedBy' = unlockHashtable(t)
    /\ Goto(t, "lockTable")
    /\ UNCHANGED <<spine, queue, shared>>

NoNeedToRehash(t) ==
    /\ Locked(t)
    /\ largeEnough(Len(tables[hashtable]), local[t].threads)
    /\ lockedBy' = unlockHashtable(t)
    /\ Leave(t, "load")
    /\ UNCHANGED <<spine, queue, shared>>

\* The slots of the parked threads in a new table, in the order in which they get a bucket, and the
\* place of a slot in that order: the other slots follow, from the first one up
UsedSlots(threadDatas, size) ==
    LET slot(i) == indexIn(address[threadDatas[i]], size)
        first == InOrder({i \in DOMAIN threadDatas : \A j \in 1 .. i - 1 : slot(j) # slot(i)})
    IN [k \in DOMAIN first |-> slot(first[k])]
PlaceOf(slot, used) ==
    IF slot \in Range(used) THEN CHOOSE p \in DOMAIN used : used[p] = slot
    ELSE Len(used) + Cardinality({i \in 1 .. slot : i \notin Range(used)})

\* Move the parked threads, in queue order, to a larger table that reuses the
\* buckets from the last one down
Rehash(t) ==
    /\ Locked(t)
    /\ ~largeEnough(Len(tables[hashtable]), local[t].threads)
    /\ LET reusable == InOrder(Range(tables[local[t].table]))
           threadDatas == Joined([i \in DOMAIN reusable |-> queue[reusable[i]]])
           newSize == local[t].threads * growthFactor * maxLoadFactor
           used == UsedSlots(threadDatas, newSize)
           fresh == Max({0, Len(used) - Len(reusable)})
           supply == Reversed(reusable) \o [i \in 1 .. fresh |-> Len(queue) + i]
           newTable == [i \in 1 .. newSize |->
                          IF PlaceOf(i, used) <= Len(supply) THEN supply[PlaceOf(i, used)] ELSE 0]
           enqueued(b) == Where(threadDatas,
                                {u \in Range(threadDatas) :
                                    newTable[indexIn(address[u], newSize)] = b})
       IN /\ tables' = Append(tables, newTable)
          /\ hashtable' = Len(tables')
          /\ queue' = [b \in 1 .. Len(queue) + fresh |-> enqueued(b)]
          /\ lockedBy' = unlockHashtable(t) \o [i \in 1 .. fresh |-> Null]
    /\ Leave(t, "load")
    /\ UNCHANGED shared

------------------------------------------------------------------------------
(* enqueue and dequeue: find the bucket, lock it, look at the table again    *)

LoadTable(t) == At(t, "load") /\ ensureHashtable(t, "bucket")

mySlot(t) == indexIn(local[t].arg, Len(tables[local[t].table]))
ignoreEmpty(t) == local[t].kind \in {"timedOut", "all"}

\* The slot has a bucket, or gets one
LoadBucket(t) ==
    /\ At(t, "bucket")
    /\ LET b == tables[local[t].table][mySlot(t)]
       IN IF b # 0
            THEN /\ local' = [local EXCEPT ![t].pc = "lock", ![t].bucket = b]
                 /\ UNCHANGED <<spine, buckets>>
            ELSE /\ ~ignoreEmpty(t)
                 /\ queue' = Append(queue, <<>>)
                 /\ lockedBy' = Append(lockedBy, Null)
                 /\ tables' = [tables EXCEPT ![local[t].table][mySlot(t)] = Len(queue')]
                 /\ local' = [local EXCEPT ![t].pc = "lock", ![t].bucket = Len(queue')]
                 /\ UNCHANGED hashtable
    /\ UNCHANGED shared

\* IgnoreEmpty: the slot has no bucket, so no thread is parked there
NoBucket(t) ==
    /\ At(t, "bucket")
    /\ ignoreEmpty(t)
    /\ tables[local[t].table][mySlot(t)] = 0
    /\ IF local[t].kind = "all" THEN Return(t) ELSE Leave(t, "giveUp")
    /\ UNCHANGED <<spine, buckets, shared>>

\* The lock of the bucket can be taken
LockFree(t) == At(t, "lock") /\ lockedBy[local[t].bucket] = Null

\* Mutant: the table is not looked at again under the bucket lock
InAnyTable(t, k) == LockFree(t) /\ local[t].kind = k

\* Under the bucket lock, with the table loaded still the current one
InBucket(t, k) == LockFree(t) /\ hashtable = local[t].table /\ local[t].kind = k

\* The hashtable was rehashed under us
Rehashed(t) ==
    /\ LockFree(t)
    /\ hashtable # local[t].table
    /\ Leave(t, "load")
    /\ UNCHANGED <<spine, buckets, shared>>

myQueue(t) == queue[local[t].bucket]
Without(q, some) == Where(q, Threads \ Range(some))
SetQueue(t, q) ==
    /\ queue' = [queue EXCEPT ![local[t].bucket] = q]
    /\ UNCHANGED <<spine, lockedBy, numThreads>>

------------------------------------------------------------------------------
(* parkConditionally, called by waitUntil ("wait") and compareAndPark        *)

\* The first call of a thread makes its ThreadData
parkConditionally(t, a, k) ==
    /\ At(t, "idle") /\ <<a, k>> \in Parks[t]
    /\ IF local[t].hasData
         THEN Begin(t, "load", k, a) /\ UNCHANGED numThreads
         ELSE /\ numThreads' = numThreads + 1
              /\ local' = [local EXCEPT ![t].pc = "grow", ![t].kind = k, ![t].arg = a,
                                        ![t].hasData = TRUE, ![t].threads = numThreads']
    /\ UNCHANGED <<spine, buckets, address, m_hasWaiters>>

\* Mutant: a thread that ends is still counted
EndsUncounted(t) ==
    /\ At(t, "idle") /\ t \in Mortals
    /\ local[t].hasData
    /\ local' = [local EXCEPT ![t].hasData = FALSE]
    /\ UNCHANGED <<spine, buckets, shared>>

\* ~ThreadData, when the thread ends
ThreadEnds(t) ==
    /\ At(t, "idle") /\ t \in Mortals
    /\ local[t].hasData
    /\ numThreads' = numThreads - 1
    /\ local' = [local EXCEPT ![t].hasData = FALSE]
    /\ UNCHANGED <<spine, buckets, address, m_hasWaiters>>

Enqueue(t) ==
    /\ SetQueue(t, Append(myQueue(t), t))
    /\ address' = [address EXCEPT ![t] = local[t].arg]
    /\ Leave(t, "sleep")

\* Mutant: waitUntil does not tell anyone that it will be waiting
WaitSilently(t) == InBucket(t, "wait") /\ Enqueue(t) /\ UNCHANGED m_hasWaiters

\* The validation of waitUntil
WaitInBucket(t) ==
    /\ InBucket(t, "wait")
    /\ Enqueue(t)
    /\ m_hasWaiters' = [m_hasWaiters EXCEPT ![local[t].arg] = TRUE]

\* The validation of compareAndPark, here with the expected value true
CompareInBucket(t) ==
    /\ InBucket(t, "compare")
    /\ m_hasWaiters[local[t].arg]
    /\ Enqueue(t)
    /\ UNCHANGED m_hasWaiters

DontPark(t) ==
    /\ InBucket(t, "compare")
    /\ ~m_hasWaiters[local[t].arg]
    /\ Return(t)
    /\ UNCHANGED <<spine, buckets, shared>>

\* Somebody dequeued the thread and cleared its address
Awake(t) ==
    /\ At(t, "sleep")
    /\ address[t] = Null
    /\ Return(t)
    /\ UNCHANGED <<spine, buckets, shared>>

TimeOut(t) ==
    /\ At(t, "sleep")
    /\ local[t].kind = "wait"
    /\ address[t] # Null
    /\ Begin(t, "load", "timedOut", local[t].arg)
    /\ UNCHANGED <<spine, buckets, shared>>

DequeueMyself(t) ==
    /\ InBucket(t, "timedOut")
    /\ SetQueue(t, Without(myQueue(t), <<t>>))
    /\ local' = [local EXCEPT ![t].pc = "giveUp", ![t].table = 0, ![t].bucket = 0,
                              ![t].didDequeue = (t \in Range(myQueue(t)))]
    /\ UNCHANGED <<address, m_hasWaiters>>

\* Mutant: a thread that timed out does not wait for whoever dequeued it
MayGoAnyway(t) == TRUE

\* Whoever dequeued the thread will clear its address: it waits for that
MayGo(t) == local[t].didDequeue \/ address[t] = Null

GiveUp(t) ==
    /\ At(t, "giveUp")
    /\ MayGo(t)
    /\ address' = [address EXCEPT ![t] = Null]
    /\ Return(t)
    /\ UNCHANGED <<spine, buckets, numThreads, m_hasWaiters>>

------------------------------------------------------------------------------
(* unparkOne and unparkCount, called by notifyOne and notifyAll              *)

notifyOne(t, a) ==
    /\ At(t, "idle") /\ a \in Notifies[t]
    /\ m_hasWaiters[a]
    /\ Begin(t, "load", "one", a)
    /\ UNCHANGED <<spine, buckets, shared>>

notifyAll(t, a) ==
    /\ At(t, "idle") /\ a \in Notifies[t]
    /\ m_hasWaiters[a]
    /\ Begin(t, "clear", "all", a)
    /\ UNCHANGED <<spine, buckets, shared>>

ClearHasWaiters(t) ==
    /\ At(t, "clear")
    /\ m_hasWaiters' = [m_hasWaiters EXCEPT ![local[t].arg] = FALSE]
    /\ Goto(t, "load")
    /\ UNCHANGED <<spine, buckets, numThreads, address>>

Matching(t) == Where(myQueue(t), {u \in Threads : address[u] = local[t].arg})

FirstMatching(t) == SubSeq(Matching(t), 1, Min({1, Len(Matching(t))}))

WakeThem(t, threadDatas) ==
    local' = [local EXCEPT ![t] = IF threadDatas = <<>> THEN [Done(@) EXCEPT !.toWake = <<>>]
                                  ELSE [@ EXCEPT !.pc = "wake", !.table = 0, !.bucket = 0,
                                                 !.toWake = threadDatas]]

\* A thread was dequeued, and the bucket (not only this address) has another
mayHaveMoreThreads(t) == Matching(t) # <<>> /\ Len(myQueue(t)) > 1

\* The callback of notifyOne runs under the bucket lock
UnparkOne(t) ==
    /\ InBucket(t, "one")
    /\ SetQueue(t, Without(myQueue(t), FirstMatching(t)))
    /\ m_hasWaiters' = [m_hasWaiters EXCEPT ![local[t].arg] = @ /\ mayHaveMoreThreads(t)]
    /\ WakeThem(t, FirstMatching(t))
    /\ UNCHANGED address

\* Mutant: notifyAll wakes one thread only
UnparkCountOne(t) ==
    /\ InBucket(t, "all")
    /\ SetQueue(t, Without(myQueue(t), FirstMatching(t)))
    /\ WakeThem(t, FirstMatching(t))
    /\ UNCHANGED <<address, m_hasWaiters>>

UnparkAll(t) ==
    /\ InBucket(t, "all")
    /\ SetQueue(t, Without(myQueue(t), Matching(t)))
    /\ WakeThem(t, Matching(t))
    /\ UNCHANGED <<address, m_hasWaiters>>

\* Clear the address of a dequeued thread, and signal it
WakeOne(t) ==
    /\ At(t, "wake")
    /\ address' = [address EXCEPT ![Head(local[t].toWake)] = Null]
    /\ WakeThem(t, Tail(local[t].toWake))
    /\ UNCHANGED <<spine, buckets, numThreads, m_hasWaiters>>

------------------------------------------------------------------------------
Grow(t) ==
    \/ FastCheck(t) \/ lockHashtable(t) \/ FillBuckets(t) \/ LockBucket(t)
    \/ LockedStaleTable(t) \/ NoNeedToRehash(t) \/ Rehash(t)

\* What a thread does once it has called an operation, other than timing out
Proceed(t) ==
    \/ Grow(t) \/ LoadTable(t) \/ LoadBucket(t) \/ NoBucket(t) \/ Rehashed(t)
    \/ WaitInBucket(t) \/ CompareInBucket(t) \/ DontPark(t) \/ Awake(t)
    \/ DequeueMyself(t) \/ GiveUp(t)
    \/ ClearHasWaiters(t) \/ UnparkOne(t) \/ UnparkAll(t) \/ WakeOne(t)

Call(t) ==
    \/ ThreadEnds(t)
    \/ \E a \in Addresses : notifyOne(t, a) \/ notifyAll(t, a)
    \/ \E a \in Addresses, k \in {"wait", "compare"} : parkConditionally(t, a, k)

Next == \E t \in Threads : Proceed(t) \/ TimeOut(t) \/ Call(t)

Spec == Init /\ [][Next]_vars

Fairness == \A t \in Threads : WF_vars(Proceed(t))

FairSpec == Spec /\ Fairness

------------------------------------------------------------------------------
BucketOf(a) ==
    IF hashtable = 0 THEN 0 ELSE tables[hashtable][indexIn(a, Len(tables[hashtable]))]
Waiters(a) == IF BucketOf(a) = 0 THEN <<>>
              ELSE Where(queue[BucketOf(a)], {t \in Threads : address[t] = a})
Taken == UNION {Range(local[t].toWake) : t \in Threads}
IsParking(t) == At(t, "sleep") \/ local[t].kind = "timedOut"

\* A queued thread stands in the bucket its address has in the current table,
\* once, and is inside parkConditionally for that address; a thread that
\* stands in no queue and has not been taken by an unpark is either not parked
\* or has dequeued itself.  (enqueue, dequeue and ensureHashtableSize against
\* each other; RELEASE_ASSERT(!me->address) and RELEASE_ASSERT(!me->nextInQueue)
\* of parkConditionally are the cases of a thread that arrives and one that leaves)
QueuesInPlace ==
    \A t \in Threads :
        LET places == {p \in (1 .. Len(queue)) \X (1 .. Cardinality(Threads)) :
                         p[2] \in DOMAIN queue[p[1]] /\ queue[p[1]][p[2]] = t}
        IN /\ places # {} => /\ Cardinality(places) = 1
                             /\ \A p \in places : p[1] = BucketOf(address[t])
                             /\ IsParking(t) /\ address[t] = local[t].arg /\ t \notin Taken
           /\ places = {} /\ t \notin Taken => address[t] = Null \/ local[t].didDequeue

\* A thread that an unpark has dequeued and not woken yet is still in the call
\* of parkConditionally from which it was dequeued, and no other unpark has it:
\* nobody clears an address "in some distant future when we're already trying
\* to wait for other things"
TakenStillParked ==
    \A t \in Threads : \A i \in DOMAIN local[t].toWake :
        LET u == local[t].toWake[i]
        IN /\ IsParking(u) /\ address[u] = local[t].arg /\ local[u].arg = local[t].arg
           /\ ~local[u].didDequeue
           /\ \A v \in Threads : \A j \in DOMAIN local[v].toWake :
                local[v].toWake[j] = u => v = t /\ j = i

\* m_hasWaiters does not mislead notifyOne and notifyAll: a thread waits while
\* it is clear only if a notifyAll that cleared it is still on its way to
\* dequeue that thread
NoLostWakeup ==
    \A a \in Addresses :
        Waiters(a) # <<>> /\ ~m_hasWaiters[a] =>
            \E t \in Threads : /\ local[t].kind = "all" /\ local[t].arg = a
                               /\ local[t].pc \in {"load", "bucket", "lock"}

\* What the comment in Condition::notifyOne says of a clear m_hasWaiters: "At this
\* exact instant, there is nobody waiting on this condition"
NobodyWaiting == \A a \in Addresses : ~m_hasWaiters[a] => Waiters(a) = <<>>

\* The table is large enough for the threads there are, unless a thread that
\* counted at least as many is still in ensureHashtableSize
LoadFactorKept ==
    \/ numThreads = 0
    \/ hashtable # 0 /\ Len(tables[hashtable]) >= maxLoadFactor * numThreads
    \/ \E t \in Threads : local[t].threads >= numThreads

\* Threads that collect the locks of all buckets, perhaps of tables of different
\* ages, never wait for each other in a circle
NoLockCircle ==
    \A S \in (SUBSET Threads) \ {{}} : \E t \in S :
        \/ ~At(t, "lockBuckets") \/ Unlocked(t) = {}
        \/ lockedBy[NextToLock(t)] \notin S

\* The hash table, its rehashing and the retries are invisible: parking is a
\* queue per address, first in first out, from which a thread is taken once
Queues == INSTANCE Parking WITH waiters <- [a \in Addresses |-> Waiters(a)], taken <- Taken
ImplementsParking == Queues!Spec

\* Where threads do not end, every operation comes to its end or to its sleep:
\* neither the collection of all bucket locks nor the retries after a rehash hold
\* it up forever
OperationsReturn == \A t \in Threads : ~At(t, "idle") ~> At(t, "idle") \/ At(t, "sleep")

\* A thread that sleeps when a notifyAll has cleared m_hasWaiters wakes, through
\* rehashes of the table on its way
NotifyAllWakes ==
    \A t, u \in Threads :
        (At(t, "sleep") /\ local[u].kind = "all" /\ local[u].arg = local[t].arg /\ At(u, "load"))
            ~> ~At(t, "sleep")
==============================================================================

------------------------------ MODULE WordLock ------------------------------
(***************************************************************************)
(* WTF::WordLock (wtf/WordLock.h, wtf/WordLock.cpp): an adaptive lock in   *)
(* one word that holds two bits and the head of a queue of parked threads. *)
(* Each step below is one access to m_word, one update of the queue under  *)
(* the queue lock, or one critical section of a ThreadData's parkingLock.  *)
(* A weak compare-and-exchange may fail though the word has the expected   *)
(* value.  The ThreadData of a thread is named by the thread itself: it is *)
(* the local variable "me" of lockSlow, alive only in the steps Alive.     *)
(***************************************************************************)
EXTENDS Naturals

CONSTANTS Threads,    \* the threads that use the lock
          Null,       \* the null ThreadData pointer
          SpinLimit   \* spinLimit, 40 in the code

ASSUME NullAssumption == Null \notin Threads
ASSUME SpinLimitAssumption == SpinLimit \in Nat

VARIABLES word,        \* m_word: the two bits and the queue head
          shouldPark,  \* ThreadData::shouldPark
          nextInQueue, \* ThreadData::nextInQueue
          queueTail,   \* ThreadData::queueTail
          parkingLock, \* the thread inside ThreadData::parkingLock, or Null
          pc,          \* where each thread is in lock() or unlock()
          cur,         \* the local currentWordValue, or the value to be stored
          spinCount,   \* the local spinCount of lockSlow
          queueHead    \* the local queueHead of unlockSlow

vars == <<word, shouldPark, nextInQueue, queueTail, parkingLock,
          pc, cur, spinCount, queueHead>>

node == <<shouldPark, nextInQueue, queueTail, parkingLock>>

Node == Threads \cup {Null}

Word == [locked : BOOLEAN, queueLocked : BOOLEAN, head : Node]

Zero == [locked |-> FALSE, queueLocked |-> FALSE, head |-> Null]

isLockedBit == [locked |-> TRUE, queueLocked |-> FALSE, head |-> Null]

PC == {"idle", "held",
       "lockLoad", "lockCAS", "lockReload", "queueCAS", "enqueue",
       "enqueueStore", "park",
       "unlockLoad", "unlockCAS", "dequeueCAS", "dequeue", "dequeueStore",
       "clearNode", "wake", "notify"}

TypeOK == /\ word \in Word
          /\ shouldPark \in [Threads -> BOOLEAN]
          /\ nextInQueue \in [Threads -> Node]
          /\ queueTail \in [Threads -> Node]
          /\ parkingLock \in [Threads -> Node]
          /\ pc \in [Threads -> PC]
          /\ cur \in [Threads -> Word]
          /\ spinCount \in [Threads -> 0 .. SpinLimit]
          /\ queueHead \in [Threads -> Node]

Init == /\ word = Zero
        /\ shouldPark = [t \in Threads |-> FALSE]
        /\ nextInQueue = [t \in Threads |-> Null]
        /\ queueTail = [t \in Threads |-> Null]
        /\ parkingLock = [t \in Threads |-> Null]
        /\ pc = [t \in Threads |-> "idle"]
        /\ cur = [t \in Threads |-> Zero]
        /\ spinCount = [t \in Threads |-> 0]
        /\ queueHead = [t \in Threads |-> Null]

Goto(t, l) == pc' = [pc EXCEPT ![t] = l]

\* The local word value of t from here on; Zero once it is dead
Keep(t, w) == cur' = [cur EXCEPT ![t] = w]

\* m_word.compareExchangeWeak(old, new): t continues at yes on success and at
\* no on failure, which is allowed even when the word is old
CompareExchangeWeak(t, old, new, yes, no) ==
    \/ /\ word = old
       /\ word' = new
       /\ Goto(t, yes)
    \/ /\ Goto(t, no)
       /\ UNCHANGED word

----------------------------------------------------------------------------
(* lock() and lockSlow()                                                   *)

lock(t) ==
    /\ pc[t] = "idle"
    /\ CompareExchangeWeak(t, Zero, isLockedBit, "held", "lockLoad")
    /\ UNCHANGED <<node, cur, spinCount, queueHead>>

\* The two continuations of lockSlow once the lock could not be taken with
\* the word value w: yield and spin around while there is no queue, or queue up
SpinOrQueue(t, w) ==
    IF w.head = Null /\ spinCount[t] < SpinLimit
    THEN /\ Goto(t, "lockLoad")
         /\ spinCount' = [spinCount EXCEPT ![t] = @ + 1]
    ELSE /\ Goto(t, "lockReload")
         /\ UNCHANGED spinCount

LockLoad(t) ==
    /\ pc[t] = "lockLoad"
    /\ IF word.locked
       THEN SpinOrQueue(t, word) /\ UNCHANGED cur
       ELSE Goto(t, "lockCAS") /\ Keep(t, word) /\ UNCHANGED spinCount
    /\ UNCHANGED <<word, node, queueHead>>

LockCAS(t) ==
    /\ pc[t] = "lockCAS"
    /\ \/ /\ word = cur[t]
          /\ word' = [cur[t] EXCEPT !.locked = TRUE]
          /\ Goto(t, "held")
          /\ spinCount' = [spinCount EXCEPT ![t] = 0]
       \/ /\ SpinOrQueue(t, cur[t])
          /\ UNCHANGED word
    /\ Keep(t, Zero)
    /\ UNCHANGED <<node, queueHead>>

\* Mutant: a thread queues up although the lock has been released meanwhile
ReloadUnchecked(t) ==
    /\ pc[t] = "lockReload"
    /\ IF word.queueLocked
       THEN Goto(t, "lockLoad") /\ UNCHANGED cur
       ELSE Goto(t, "queueCAS") /\ Keep(t, word)
    /\ shouldPark' = [shouldPark EXCEPT ![t] = FALSE]
    /\ nextInQueue' = [nextInQueue EXCEPT ![t] = Null]
    /\ queueTail' = [queueTail EXCEPT ![t] = Null]
    /\ UNCHANGED <<word, parkingLock, spinCount, queueHead>>

\* ThreadData me comes alive and the word is loaded again
LockReload(t) ==
    /\ pc[t] = "lockReload"
    /\ IF word.queueLocked \/ ~word.locked
       THEN Goto(t, "lockLoad") /\ UNCHANGED cur
       ELSE Goto(t, "queueCAS") /\ Keep(t, word)
    /\ shouldPark' = [shouldPark EXCEPT ![t] = FALSE]
    /\ nextInQueue' = [nextInQueue EXCEPT ![t] = Null]
    /\ queueTail' = [queueTail EXCEPT ![t] = Null]
    /\ UNCHANGED <<word, parkingLock, spinCount, queueHead>>

QueueCAS(t) ==
    /\ pc[t] = "queueCAS"
    /\ CompareExchangeWeak(t, cur[t], [cur[t] EXCEPT !.queueLocked = TRUE],
                           "enqueue", "lockLoad")
    /\ Keep(t, IF pc'[t] = "enqueue" THEN cur[t] ELSE Zero)
    /\ UNCHANGED <<node, spinCount, queueHead>>

\* Mutant: the head's queueTail is left behind
EnqueueForgetsTail(t) ==
    /\ pc[t] = "enqueue"
    /\ shouldPark' = [shouldPark EXCEPT ![t] = TRUE]
    /\ LET head == cur[t].head IN
       IF head # Null
       THEN /\ nextInQueue' = [nextInQueue EXCEPT ![queueTail[head]] = t]
            /\ Keep(t, [word EXCEPT !.queueLocked = FALSE])
            /\ UNCHANGED queueTail
       ELSE /\ queueTail' = [queueTail EXCEPT ![t] = t]
            /\ Keep(t, [word EXCEPT !.queueLocked = FALSE, !.head = t])
            /\ UNCHANGED nextInQueue
    /\ Goto(t, "enqueueStore")
    /\ UNCHANGED <<word, parkingLock, spinCount, queueHead>>

\* Under the queue lock: link me at the tail, or make it the head, and load
\* the word whose successor EnqueueStore will store
Enqueue(t) ==
    /\ pc[t] = "enqueue"
    /\ shouldPark' = [shouldPark EXCEPT ![t] = TRUE]
    /\ LET head == cur[t].head IN
       IF head # Null
       THEN /\ nextInQueue' = [nextInQueue EXCEPT ![queueTail[head]] = t]
            /\ queueTail' = [queueTail EXCEPT ![head] = t]
            /\ Keep(t, [word EXCEPT !.queueLocked = FALSE])
       ELSE /\ queueTail' = [queueTail EXCEPT ![t] = t]
            /\ Keep(t, [word EXCEPT !.queueLocked = FALSE, !.head = t])
            /\ UNCHANGED nextInQueue
    /\ Goto(t, "enqueueStore")
    /\ UNCHANGED <<word, parkingLock, spinCount, queueHead>>

\* Mutant: releasing the queue lock also drops the locked bit
EnqueueStoreUnlocks(t) ==
    /\ pc[t] = "enqueueStore"
    /\ word' = [cur[t] EXCEPT !.locked = FALSE]
    /\ Keep(t, Zero)
    /\ Goto(t, "park")
    /\ UNCHANGED <<node, spinCount, queueHead>>

EnqueueStore(t) ==
    /\ pc[t] = "enqueueStore"
    /\ word' = cur[t]
    /\ Keep(t, Zero)
    /\ Goto(t, "park")
    /\ UNCHANGED <<node, spinCount, queueHead>>

\* The wait loop: it ends in a critical section of me.parkingLock that finds
\* shouldPark clear, and me dies as the loop of lockSlow goes around
Park(t) ==
    /\ pc[t] = "park"
    /\ parkingLock[t] = Null
    /\ ~shouldPark[t]
    /\ Goto(t, "lockLoad")
    /\ UNCHANGED <<word, node, cur, spinCount, queueHead>>

----------------------------------------------------------------------------
(* unlock() and unlockSlow()                                               *)

unlock(t) ==
    /\ pc[t] = "held"
    /\ CompareExchangeWeak(t, isLockedBit, Zero, "idle", "unlockLoad")
    /\ UNCHANGED <<node, cur, spinCount, queueHead>>

UnlockLoad(t) ==
    /\ pc[t] = "unlockLoad"
    /\ \/ word = isLockedBit /\ Goto(t, "unlockCAS") /\ UNCHANGED cur
       \/ word.queueLocked /\ UNCHANGED <<pc, cur>>
       \/ /\ word # isLockedBit
          /\ ~word.queueLocked
          /\ Goto(t, "dequeueCAS")
          /\ Keep(t, word)
    /\ UNCHANGED <<word, node, spinCount, queueHead>>

UnlockCAS(t) ==
    /\ pc[t] = "unlockCAS"
    /\ CompareExchangeWeak(t, isLockedBit, Zero, "idle", "unlockLoad")
    /\ UNCHANGED <<node, cur, spinCount, queueHead>>

DequeueCAS(t) ==
    /\ pc[t] = "dequeueCAS"
    /\ CompareExchangeWeak(t, cur[t], [cur[t] EXCEPT !.queueLocked = TRUE],
                           "dequeue", "unlockLoad")
    /\ Keep(t, Zero)
    /\ UNCHANGED <<node, spinCount, queueHead>>

\* Under both locks: the successor of the head takes over the tail, and the
\* word that gives up both locks is computed
Dequeue(t) ==
    /\ pc[t] = "dequeue"
    /\ queueHead' = [queueHead EXCEPT ![t] = word.head]
    /\ LET newQueueHead == nextInQueue[word.head] IN
       /\ queueTail' = IF newQueueHead # Null
                       THEN [queueTail EXCEPT ![newQueueHead] = queueTail[word.head]]
                       ELSE queueTail
       /\ Keep(t, [Zero EXCEPT !.head = newQueueHead])
    /\ Goto(t, "dequeueStore")
    /\ UNCHANGED <<word, shouldPark, nextInQueue, parkingLock, spinCount>>

DequeueStore(t) ==
    /\ pc[t] = "dequeueStore"
    /\ word' = cur[t]
    /\ Keep(t, Zero)
    /\ Goto(t, "clearNode")
    /\ UNCHANGED <<node, spinCount, queueHead>>

ClearNode(t) ==
    /\ pc[t] = "clearNode"
    /\ nextInQueue' = [nextInQueue EXCEPT ![queueHead[t]] = Null]
    /\ queueTail' = [queueTail EXCEPT ![queueHead[t]] = Null]
    /\ Goto(t, "wake")
    /\ UNCHANGED <<word, shouldPark, parkingLock, cur, spinCount, queueHead>>

\* Mutant: parkingLock is given up before notify_one
WakeWithoutLock(t) ==
    /\ pc[t] = "wake"
    /\ parkingLock[queueHead[t]] = Null
    /\ shouldPark' = [shouldPark EXCEPT ![queueHead[t]] = FALSE]
    /\ Goto(t, "notify")
    /\ UNCHANGED <<word, nextInQueue, queueTail, parkingLock, cur, spinCount, queueHead>>

\* Mutant: notify_one without clearing shouldPark
WakeKeepsShouldPark(t) ==
    /\ pc[t] = "wake"
    /\ parkingLock[queueHead[t]] = Null
    /\ parkingLock' = [parkingLock EXCEPT ![queueHead[t]] = t]
    /\ Goto(t, "notify")
    /\ UNCHANGED <<word, shouldPark, nextInQueue, queueTail, cur, spinCount, queueHead>>

\* The critical section of the old head's parkingLock, in two steps because
\* the lock must stay held until notify_one has been called
Wake(t) ==
    /\ pc[t] = "wake"
    /\ parkingLock[queueHead[t]] = Null
    /\ parkingLock' = [parkingLock EXCEPT ![queueHead[t]] = t]
    /\ shouldPark' = [shouldPark EXCEPT ![queueHead[t]] = FALSE]
    /\ Goto(t, "notify")
    /\ UNCHANGED <<word, nextInQueue, queueTail, cur, spinCount, queueHead>>

Notify(t) ==
    /\ pc[t] = "notify"
    /\ parkingLock' = [parkingLock EXCEPT ![queueHead[t]] = Null]
    /\ queueHead' = [queueHead EXCEPT ![t] = Null]
    /\ Goto(t, "idle")
    /\ UNCHANGED <<word, shouldPark, nextInQueue, queueTail, cur, spinCount>>

----------------------------------------------------------------------------

Step(t) == \/ lock(t) \/ LockLoad(t) \/ LockCAS(t) \/ LockReload(t)
           \/ QueueCAS(t) \/ Enqueue(t) \/ EnqueueStore(t) \/ Park(t)
           \/ unlock(t) \/ UnlockLoad(t) \/ UnlockCAS(t) \/ DequeueCAS(t)
           \/ Dequeue(t) \/ DequeueStore(t) \/ ClearNode(t) \/ Wake(t)
           \/ Notify(t)

Next == \E t \in Threads : Step(t)

Spec == Init /\ [][Next]_vars

\* A compare-and-exchange of the slow paths that succeeds
SlowCASSucceeds(t) == /\ LockCAS(t) \/ QueueCAS(t) \/ UnlockCAS(t) \/ DequeueCAS(t)
                      /\ word' # word

\* Threads inside lock() and unlock() keep running, a thread that holds the
\* lock eventually unlocks it, and a weak compare-and-exchange that finds the
\* expected word again and again does not fail for ever.  Nobody has to call
\* lock().
Fairness == \A t \in Threads : /\ WF_vars(pc[t] # "idle" /\ Step(t))
                               /\ SF_vars(SlowCASSucceeds(t))

FairSpec == Spec /\ Fairness

----------------------------------------------------------------------------
(* Properties                                                              *)

\* The threads that own the lock: lock() has returned in them and the store
\* or exchange of unlock() that gives the lock up has not happened
Holders == {t \in Threads : pc[t] \in {"held", "unlockLoad", "unlockCAS",
                                       "dequeueCAS", "dequeue", "dequeueStore"}}

\* The threads that own the queue lock
QueueHolders == {t \in Threads : pc[t] \in {"enqueue", "enqueueStore",
                                            "dequeue", "dequeueStore"}}

\* The threads whose ThreadData is in scope: lockSlow is past line 93
Alive == {t \in Threads : pc[t] \in {"queueCAS", "enqueue", "enqueueStore", "park"}}

\* The nodes reachable from n along nextInQueue: those in every set that
\* holds n and is closed under nextInQueue
Members(n) ==
    {x \in Threads : \A S \in SUBSET Threads :
        /\ n \in S \cup {Null}
        /\ \A y \in S : nextInQueue[y] \in S \cup {Null}
        => x \in S}

\* At most one thread is between lock() and unlock(), and the locked bit of
\* the word says whether there is one, for every interleaving of the fast
\* paths with lockSlow and unlockSlow.
MutualExclusion == /\ \A t, u \in Holders : t = u
                   /\ word.locked <=> Holders # {}

\* The assertion of WordLock.cpp:76 and the comment above it: the queue lock
\* has one owner, and nobody has it while the lock itself is free.
QueueLockNeedsLock == /\ \A t, u \in QueueHolders : t = u
                      /\ word.queueLocked <=> QueueHolders # {}
                      /\ word.queueLocked => word.locked

\* While nobody is changing it, the queue that hangs off the word is a list of
\* threads that wait to be woken, and the head knows its last member.  A thread
\* that may leave its wait is unlinked (the assertions of WordLock.cpp:151-153).
QueueWellFormed ==
    /\ word.head # Null /\ ~word.queueLocked =>
        /\ \A t \in Members(word.head) : pc[t] = "park" /\ shouldPark[t]
        /\ queueTail[word.head] \in Members(word.head)
        /\ nextInQueue[queueTail[word.head]] = Null
    /\ \A t \in Threads : pc[t] = "park" /\ ~shouldPark[t] =>
        nextInQueue[t] = Null /\ queueTail[t] = Null

\* An unlocker has taken t off the queue and is about to wake it
AboutToWake(t) == \E u \in Threads : queueHead[u] = t /\ pc[u] \in {"clearNode", "wake"}

\* A thread that will have the lock or find it held: it is in the loop of
\* lockSlow, or its sleep there is over or about to be ended
OnTheWay(t) == \/ pc[t] \in {"lockLoad", "lockCAS", "lockReload", "queueCAS"}
               \/ pc[t] = "park" /\ (~shouldPark[t] \/ AboutToWake(t))

\* No sleeper is forgotten: a thread that parks is on the queue, or one
\* unlocker has taken it off and is on its way to wake it; and while there is a
\* queue, somebody has the lock or is on the way to it, who will take the next
\* one off: nobody queues up at a lock that was released in between.
NobodyForgotten ==
    /\ \A t \in Threads : pc[t] = "park" /\ shouldPark[t] =>
        t \in Members(word.head) \/ AboutToWake(t)
    /\ word.head # Null => Holders # {} \/ \E t \in Threads : OnTheWay(t)

\* The comment of WordLock.cpp:236: an unlocker touches the ThreadData of the
\* old head, a local of another thread, only while that thread is in its scope.
NodesAlive ==
    \A t \in Threads :
        /\ queueHead[t] # Null => queueHead[t] \in Alive
        /\ pc[t] \in {"enqueue", "dequeue"} /\ word.head # Null =>
              Members(word.head) \subseteq Alive

\* WordLock implements the abstract lock.
Abstract == INSTANCE Mutex WITH holders <- Holders

ImplementsMutex == Abstract!Spec

\* Nobody sleeps for ever: a thread that goes to sleep on the queue is woken.
ParkedIsWoken == \A t \in Threads : pc[t] = "park" ~> pc[t] # "park"

=============================================================================

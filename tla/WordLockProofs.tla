--------------------------- MODULE WordLockProofs ---------------------------
(***************************************************************************)
(* WordLock keeps its type, excludes every second holder, guards its queue *)
(* with one owner at a time, implements Mutex, keeps the queue a list of   *)
(* sleepers that knows its tail, and forgets no sleeper, for any set of    *)
(* threads and any spin limit.                                             *)
(***************************************************************************)
EXTENDS WordLock, TLAPS

\* What a thread knows of the word value it carries in a local variable
\* between two accesses to m_word: this is what makes mutual exclusion
\* inductive.
LocalWords ==
    \A t \in Threads :
        /\ pc[t] = "lockCAS" => ~cur[t].locked
        /\ pc[t] = "queueCAS" => cur[t].locked /\ ~cur[t].queueLocked
        /\ pc[t] = "enqueueStore" => cur[t].locked /\ ~cur[t].queueLocked
        /\ pc[t] = "dequeueCAS" => ~cur[t].queueLocked /\ cur[t].head # Null
        /\ pc[t] = "dequeue" => word.head # Null
        /\ pc[t] = "dequeueStore" => ~cur[t].locked /\ ~cur[t].queueLocked

IInv == TypeOK /\ MutualExclusion /\ QueueLockNeedsLock /\ LocalWords

\* The words the code writes are words.
LEMMA WordFacts ==
    /\ Zero \in Word /\ isLockedBit \in Word
    /\ ~Zero.locked /\ ~Zero.queueLocked /\ Zero.head = Null
    /\ isLockedBit.locked /\ ~isLockedBit.queueLocked /\ isLockedBit.head = Null
    /\ \A n \in Node : [Zero EXCEPT !.head = n] \in Word
  BY Zenon DEF Word, Zero, isLockedBit, Node

\* So are the words it derives from one it has loaded.
LEMMA WordUpdates ==
    ASSUME NEW w \in Word, NEW n \in Node
    PROVE  /\ [w EXCEPT !.locked = TRUE] \in Word
           /\ [w EXCEPT !.queueLocked = TRUE] \in Word
           /\ [w EXCEPT !.queueLocked = FALSE] \in Word
           /\ [w EXCEPT !.queueLocked = FALSE, !.head = n] \in Word
  BY Zenon DEF Word

\* A word that is locked, has its queue unlocked and differs from isLockedBit
\* has a queue: why unlockSlow finds a head to dequeue.
LEMMA QueueNotEmpty ==
    ASSUME NEW w \in Word, w.locked, ~w.queueLocked, w # isLockedBit
    PROVE  w.head # Null
<1>1. w = [locked |-> w.locked, queueLocked |-> w.queueLocked, head |-> w.head]
  BY Zenon DEF Word
<1>2. w.locked = TRUE /\ w.queueLocked = FALSE
  BY Zenon DEF Word
<1> QED BY <1>1, <1>2, Zenon DEF isLockedBit

\* Every variable keeps its type across a step of any thread.
LEMMA TypeStep == ASSUME IInv, NEW t \in Threads, Step(t)
                  PROVE  TypeOK'
<1> USE WordFacts, SpinLimitAssumption DEF IInv, TypeOK, Goto, Keep, node
<1> Null \in Node /\ Threads \subseteq Node
  BY Zenon DEF Node
<1> /\ [cur[t] EXCEPT !.locked = TRUE] \in Word
    /\ [cur[t] EXCEPT !.queueLocked = TRUE] \in Word
    /\ [word EXCEPT !.queueLocked = FALSE] \in Word
    /\ [word EXCEPT !.queueLocked = FALSE, !.head = t] \in Word
  BY WordUpdates, Zenon
<1>1. CASE lock(t)        BY <1>1, Zenon DEF lock, CompareExchangeWeak, PC
<1>2. CASE LockLoad(t)    BY <1>2 DEF LockLoad, SpinOrQueue, PC
<1>3. CASE LockCAS(t)
  <2>1. word' \in Word /\ cur' \in [Threads -> Word] /\ pc' \in [Threads -> PC]
    BY <1>3, Zenon DEF LockCAS, SpinOrQueue, PC
  <2>2. spinCount' \in [Threads -> 0 .. SpinLimit]
    BY <1>3 DEF LockCAS, SpinOrQueue
  <2> QED BY <1>3, <2>1, <2>2, Zenon DEF LockCAS
<1>4. CASE LockReload(t)  BY <1>4, Zenon DEF LockReload, PC
<1>5. CASE QueueCAS(t)    BY <1>5, Zenon DEF QueueCAS, CompareExchangeWeak, PC
<1>6. CASE Enqueue(t)     BY <1>6, ZenonT(40) DEF Enqueue, PC
<1>7. CASE EnqueueStore(t) BY <1>7, Zenon DEF EnqueueStore, PC
<1>8. CASE Park(t)        BY <1>8, Zenon DEF Park, PC
<1>9. CASE unlock(t)      BY <1>9, Zenon DEF unlock, CompareExchangeWeak, PC
<1>10. CASE UnlockLoad(t) BY <1>10 DEF UnlockLoad, PC
<1>11. CASE UnlockCAS(t)  BY <1>11, Zenon DEF UnlockCAS, CompareExchangeWeak, PC
<1>12. CASE DequeueCAS(t) BY <1>12, Zenon DEF DequeueCAS, CompareExchangeWeak, PC
<1>13. CASE Dequeue(t)
  <2>1. word.head \in Threads
    BY <1>13, Zenon DEF Dequeue, LocalWords, Word, Node
  <2> QED BY <1>13, <2>1, Zenon DEF Dequeue, PC
<1>14. CASE DequeueStore(t) BY <1>14, Zenon DEF DequeueStore, PC
<1>15. CASE ClearNode(t)  BY <1>15, Zenon DEF ClearNode, PC
<1>16. CASE Wake(t)       BY <1>16, Zenon DEF Wake, PC
<1>17. CASE Notify(t)     BY <1>17, Zenon DEF Notify, PC
<1> QED BY <1>1, <1>2, <1>3, <1>4, <1>5, <1>6, <1>7, <1>8, <1>9, <1>10, <1>11,
           <1>12, <1>13, <1>14, <1>15, <1>16, <1>17, Zenon DEF Step

\* The lock and the queue lock keep their single owners across a step of any
\* thread, and so does what threads know of the words they carry.
LEMMA OwnerStep == ASSUME IInv, NEW t \in Threads, Step(t)
                   PROVE  MutualExclusion' /\ QueueLockNeedsLock' /\ LocalWords'
<1> USE WordFacts DEF IInv, TypeOK, Goto, Keep, MutualExclusion,
        QueueLockNeedsLock, LocalWords, Holders, QueueHolders, Word
<1>1. CASE lock(t)        BY <1>1 DEF lock, CompareExchangeWeak
<1>2. CASE LockLoad(t)    BY <1>2 DEF LockLoad, SpinOrQueue
<1>3. CASE LockCAS(t)     BY <1>3 DEF LockCAS, SpinOrQueue
<1>4. CASE LockReload(t)  BY <1>4 DEF LockReload
<1>5. CASE QueueCAS(t)
  <2>1. CASE word = cur[t] /\ word' = [cur[t] EXCEPT !.queueLocked = TRUE]
             /\ pc' = [pc EXCEPT ![t] = "enqueue"]
    <3>1. word'.locked = word.locked /\ word'.queueLocked /\ word'.head = word.head
      BY <2>1, Zenon
    <3>2. ~word.queueLocked /\ QueueHolders = {} /\ word.locked
      BY <1>5, <2>1, Zenon DEF QueueCAS
    <3>3. MutualExclusion'
      BY <1>5, <2>1, <3>1 DEF QueueCAS
    <3>4. QueueLockNeedsLock'
      BY <1>5, <2>1, <3>1, <3>2 DEF QueueCAS
    <3>5. LocalWords'
      BY <1>5, <2>1, <3>1, <3>2 DEF QueueCAS
    <3> QED BY <3>3, <3>4, <3>5, Zenon
  <2>2. CASE UNCHANGED word /\ pc' = [pc EXCEPT ![t] = "lockLoad"]
    <3>1. MutualExclusion' /\ QueueLockNeedsLock'
      BY <1>5, <2>2 DEF QueueCAS
    <3>2. LocalWords'
      BY <1>5, <2>2, Zenon DEF QueueCAS
    <3> QED BY <3>1, <3>2, Zenon
  <2> QED BY <1>5, <2>1, <2>2, Zenon DEF QueueCAS, CompareExchangeWeak
<1>6. CASE Enqueue(t)
  <2>1. word.locked /\ UNCHANGED word
    BY <1>6, Zenon DEF Enqueue
  <2>2. /\ pc' = [pc EXCEPT ![t] = "enqueueStore"]
        /\ cur'[t].locked /\ ~cur'[t].queueLocked
        /\ \A u \in Threads \ {t} : cur'[u] = cur[u]
    <3>1. pc' = [pc EXCEPT ![t] = "enqueueStore"]
      BY <1>6, Zenon DEF Enqueue
    <3>2. PICK x : /\ \/ x = [word EXCEPT !.queueLocked = FALSE]
                      \/ x = [word EXCEPT !.queueLocked = FALSE, !.head = t]
                   /\ cur' = [cur EXCEPT ![t] = x]
      BY <1>6, Zenon DEF Enqueue
    <3>3. t \in Node /\ word \in Word
      BY Zenon DEF Node
    <3>4. x.locked = word.locked /\ x.queueLocked = FALSE
      <4> HIDE DEF LocalWords, IInv, MutualExclusion, QueueLockNeedsLock, TypeOK
      <4>1. CASE x = [word EXCEPT !.queueLocked = FALSE]
        BY <4>1, <3>3, Zenon
      <4>2. CASE x = [word EXCEPT !.queueLocked = FALSE, !.head = t]
        BY <4>2, <3>3, Zenon
      <4> QED BY <3>2, <4>1, <4>2, Zenon
    <3>5. cur'[t] = x /\ \A u \in Threads \ {t} : cur'[u] = cur[u]
      <4>1. cur \in [Threads -> Word]
        BY Zenon
      <4> HIDE DEF Word, LocalWords, IInv, MutualExclusion, QueueLockNeedsLock, TypeOK
      <4> QED BY <3>2, <4>1, Zenon
    <3>6. x.locked /\ ~x.queueLocked
      BY <2>1, <3>4, Zenon
    <3> QED BY <3>1, <3>5, <3>6, Zenon
  <2>3. QueueLockNeedsLock' /\ MutualExclusion'
    BY <1>6, <2>1, <2>2 DEF Enqueue
  <2>4. LocalWords'
    BY <1>6, <2>1, <2>2 DEF Enqueue
  <2> QED BY <2>3, <2>4, Zenon
<1>7. CASE EnqueueStore(t) BY <1>7 DEF EnqueueStore
<1>8. CASE Park(t)        BY <1>8 DEF Park
<1>9. CASE unlock(t)      BY <1>9 DEF unlock, CompareExchangeWeak
<1>10. CASE UnlockLoad(t) BY <1>10, QueueNotEmpty DEF UnlockLoad
<1>11. CASE UnlockCAS(t)  BY <1>11 DEF UnlockCAS, CompareExchangeWeak
<1>12. CASE DequeueCAS(t)
  <2>1. CASE word = cur[t] /\ word' = [cur[t] EXCEPT !.queueLocked = TRUE]
             /\ pc' = [pc EXCEPT ![t] = "dequeue"]
    <3>1. word'.locked = word.locked /\ word'.queueLocked /\ word'.head = word.head
      BY <2>1, Zenon
    <3>2. ~word.queueLocked /\ QueueHolders = {} /\ word.head # Null /\ t \in Holders
      BY <1>12, <2>1, Zenon DEF DequeueCAS
    <3> QED BY <1>12, <2>1, <3>1, <3>2 DEF DequeueCAS
  <2>2. CASE UNCHANGED word /\ pc' = [pc EXCEPT ![t] = "unlockLoad"]
    BY <1>12, <2>2 DEF DequeueCAS
  <2> QED BY <1>12, <2>1, <2>2, Zenon DEF DequeueCAS, CompareExchangeWeak
<1>13. CASE Dequeue(t)    BY <1>13 DEF Dequeue
<1>14. CASE DequeueStore(t) BY <1>14 DEF DequeueStore
<1>15. CASE ClearNode(t)  BY <1>15 DEF ClearNode
<1>16. CASE Wake(t)       BY <1>16 DEF Wake
<1>17. CASE Notify(t)     BY <1>17 DEF Notify
<1> QED BY <1>1, <1>2, <1>3, <1>4, <1>5, <1>6, <1>7, <1>8, <1>9, <1>10, <1>11,
           <1>12, <1>13, <1>14, <1>15, <1>16, <1>17, Zenon DEF Step

\* The invariant is inductive.
LEMMA Inductive == Spec => []IInv
<1>1. Init => IInv
  BY SpinLimitAssumption, WordFacts
     DEF Init, IInv, TypeOK, MutualExclusion, QueueLockNeedsLock, LocalWords,
         Holders, QueueHolders, PC, Node
<1>2. IInv /\ [Next]_vars => IInv'
  <2> SUFFICES ASSUME IInv, [Next]_vars PROVE IInv'
    BY Zenon
  <2>1. CASE Next
    BY <2>1, TypeStep, OwnerStep, Zenon DEF Next, IInv
  <2>2. CASE UNCHANGED vars
    BY <2>2, Zenon DEF vars, IInv, TypeOK, MutualExclusion, QueueLockNeedsLock,
                LocalWords, Holders, QueueHolders
  <2> QED BY <2>1, <2>2, Zenon
<1> QED BY <1>1, <1>2, PTL DEF Spec

\* The variables keep their types.
THEOREM TypeCorrect == Spec => []TypeOK
BY Inductive, PTL DEF IInv

\* WordLock::lock returns in one thread at a time and the locked bit says
\* whether it has, whatever the interleaving and however often a weak
\* compare-and-exchange fails.
THEOREM LockExcludes == Spec => []MutualExclusion
BY Inductive, PTL DEF IInv

\* The queue has one owner at a time, who is around only while the lock is
\* held: the assertion at WordLock.cpp:76.
THEOREM QueueGuarded == Spec => []QueueLockNeedsLock
BY Inductive, PTL DEF IInv

\* Every step of the lock is a step of the abstract lock, or none.
LEMMA StepRefines == ASSUME IInv, IInv', [Next]_vars
                     PROVE  [Abstract!Next]_Holders
<1>1. CASE UNCHANGED vars
  BY <1>1, Zenon DEF vars, Holders
<1>2. CASE Next
  <2> PICK t \in Threads : Step(t)
    BY <1>2, Zenon DEF Next
  <2>1. \A u \in Threads \ {t} : pc'[u] = pc[u]
    BY DEF Step, lock, LockLoad, LockCAS, LockReload, QueueCAS, Enqueue,
           EnqueueStore, Park, unlock, UnlockLoad, UnlockCAS, DequeueCAS,
           Dequeue, DequeueStore, ClearNode, Wake, Notify, Goto,
           CompareExchangeWeak, SpinOrQueue, IInv, TypeOK
  <2>2. Holders \ {t} = Holders' \ {t}
    BY <2>1, Zenon DEF Holders
  <2>3. CASE t \in Holders <=> t \in Holders'
    <3>1. Holders' = Holders
      BY <2>2, <2>3, Zenon DEF Holders
    <3> QED BY <3>1, Zenon
  <2>4. CASE t \in Holders /\ t \notin Holders'
    <3>1. Holders = {t} /\ Holders' = {}
      BY <2>2, <2>4 DEF IInv, MutualExclusion, Holders
    <3> QED BY <3>1, Zenon DEF Abstract!Next, Abstract!Release
  <2>5. CASE t \notin Holders /\ t \in Holders'
    <3>1. Holders' = {t}
      BY <2>5, Zenon DEF IInv, MutualExclusion, Holders
    <3>2. Holders = {}
      BY <2>2, <2>5, <3>1, Zenon
    <3> QED BY <3>1, <3>2, Zenon DEF Abstract!Next, Abstract!Acquire
  <2> QED BY <2>3, <2>4, <2>5, Zenon
<1> QED BY <1>1, <1>2, Zenon

\* WordLock implements the abstract lock Mutex, with the threads between the
\* return of lock() and the releasing store of unlock() as the holders.
THEOREM Refinement == Spec => ImplementsMutex
<1>1. Init => Abstract!Init
  BY Zenon DEF Init, Abstract!Init, Holders
<1>2. IInv /\ IInv' /\ [Next]_vars => [Abstract!Next]_Holders
  BY StepRefines, Zenon
<1> QED BY <1>1, <1>2, Inductive, PTL DEF Spec, ImplementsMutex, Abstract!Spec

----------------------------------------------------------------------------
(* The queue: lists of nodes, the invariant, one lemma per kind of step.   *)

\* The nodes reachable from n along nx, and a list that starts at h and whose head has the
\* last node as its tail.
Reach(nx, n) ==
    {x \in Threads : \A S \in SUBSET Threads :
        /\ n \in S \cup {Null}
        /\ \A y \in S : nx[y] \in S \cup {Null}
        => x \in S}

Links == [Threads -> Node]

Chain(nx, tl, h) ==
    h # Null =>
        /\ \A x \in Reach(nx, h) : nx[x] # h
        /\ \A x, y \in Reach(nx, h) : nx[x] = nx[y] /\ nx[x] # Null => x = y
        /\ tl[h] \in Reach(nx, h) /\ nx[tl[h]] = Null

LEMMA ReachClosed ==
    ASSUME NEW nx \in Links, NEW h \in Node
    PROVE  /\ Reach(nx, h) \subseteq Threads
           /\ h # Null => h \in Reach(nx, h)
           /\ \A y \in Reach(nx, h) : nx[y] \in Reach(nx, h) \cup {Null}
<1> USE DEF Links
<1>1. ASSUME NEW y \in Reach(nx, h), nx[y] # Null PROVE nx[y] \in Reach(nx, h)
  <2>1. y \in Threads /\ nx[y] \in Threads
    BY <1>1, Zenon DEF Reach, Node
  <2>2. ASSUME NEW S \in SUBSET Threads, h \in S \cup {Null},
               \A z \in S : nx[z] \in S \cup {Null}
        PROVE  nx[y] \in S
    BY <2>2, <1>1, Zenon DEF Reach
  <2> QED BY <2>1, <2>2, Zenon DEF Reach
<1>2. h # Null => h \in Reach(nx, h)
  BY Zenon DEF Reach, Node
<1> QED BY <1>1, <1>2, Zenon DEF Reach

LEMMA ReachLeast ==
    ASSUME NEW nx, NEW h, NEW S \in SUBSET Threads, h \in S \cup {Null},
           \A y \in S : nx[y] \in S \cup {Null}
    PROVE  Reach(nx, h) \subseteq S
  BY Zenon DEF Reach

LEMMA ReachNull == ASSUME NEW nx PROVE Reach(nx, Null) = {}
<1> DEFINE S == {}
<1>1. S \in SUBSET Threads /\ Null \in S \cup {Null} /\ \A y \in S : nx[y] \in S \cup {Null}
  BY Zenon
<1> HIDE DEF S
<1>2. Reach(nx, Null) \subseteq S
  BY <1>1, ReachLeast, Zenon
<1> QED BY <1>2, Zenon DEF S

\* Links outside the list do not matter.
LEMMA ReachSame ==
    ASSUME NEW nx \in Links, NEW mx \in Links, NEW h \in Node,
           \A y \in Reach(nx, h) : mx[y] = nx[y]
    PROVE  Reach(mx, h) = Reach(nx, h)
<1> DEFINE A == Reach(nx, h)
           B == Reach(mx, h)
<1>1. /\ A \subseteq Threads /\ B \subseteq Threads
      /\ h # Null => h \in A /\ h \in B
      /\ \A y \in A : nx[y] \in A \cup {Null}
      /\ \A y \in B : mx[y] \in B \cup {Null}
  BY ReachClosed, Zenon
<1>2. \A y \in A : mx[y] = nx[y]
  BY Zenon
<1> HIDE DEF A, B
<1>3. B \subseteq A
  <2>1. h \in A \cup {Null} /\ \A y \in A : mx[y] \in A \cup {Null}
    BY <1>1, <1>2, Zenon
  <2> QED BY <2>1, <1>1, ReachLeast, Zenon DEF B
<1>4. A \subseteq A \cap B
  <2>1. /\ h \in (A \cap B) \cup {Null} /\ A \cap B \in SUBSET Threads
        /\ \A y \in A \cap B : nx[y] \in (A \cap B) \cup {Null}
    <3>1. ASSUME NEW y \in A \cap B PROVE nx[y] \in (A \cap B) \cup {Null}
      <4>1. nx[y] \in A \cup {Null} /\ mx[y] \in B \cup {Null} /\ mx[y] = nx[y]
        BY <1>1, <1>2, Zenon
      <4> QED BY <4>1, Zenon
    <3> QED BY <1>1, <3>1, Zenon
  <2> QED BY <2>1, ReachLeast, Zenon DEF A
<1> QED BY <1>3, <1>4, Zenon DEF A, B

\* A chain stays one when other nodes change.
LEMMA ChainSame ==
    ASSUME NEW nx \in Links, NEW mx \in Links, NEW h \in Node,
           NEW tl \in Links, NEW ul \in Links,
           \A y \in Reach(nx, h) : mx[y] = nx[y] /\ ul[y] = tl[y],
           Chain(nx, tl, h)
    PROVE  Chain(mx, ul, h) /\ Reach(mx, h) = Reach(nx, h)
<1>1. Reach(mx, h) = Reach(nx, h)
  BY ReachSame, Zenon
<1>2. h # Null => h \in Reach(nx, h)
  BY ReachClosed, Zenon
<1> QED BY <1>1, <1>2, Zenon DEF Chain

\* Linking a node behind the last one adds that node to the list.
LEMMA ChainAppend ==
    ASSUME NEW nx \in Links, NEW tl \in Links,
           NEW h \in Threads, NEW t \in Threads, NEW mx \in Links, NEW ul \in Links,
           Chain(nx, tl, h), t \notin Reach(nx, h), nx[t] = Null,
           mx[tl[h]] = t, ul[h] = t,
           \A y \in Threads \ {tl[h]} : mx[y] = nx[y]
    PROVE  Chain(mx, ul, h) /\ Reach(mx, h) = Reach(nx, h) \cup {t}
<1> USE DEF Links
<1> DEFINE A == Reach(nx, h)
           last == tl[h]
<1>1. /\ A \subseteq Threads /\ h \in A /\ h \in Node /\ h # Null
      /\ \A y \in A : nx[y] \in A \cup {Null}
      /\ last \in A /\ nx[last] = Null /\ t \notin A
      /\ \A x \in A : nx[x] # h
      /\ \A x, y \in A : nx[x] = nx[y] /\ nx[x] # Null => x = y
  <2>1. h \in Node /\ h # Null
    BY NullAssumption, Zenon DEF Node
  <2> QED BY <2>1, ReachClosed, Zenon DEF Chain
<1>2. /\ mx \in Links /\ ul[h] = t /\ mx[t] = Null /\ mx[last] = t
      /\ \A y \in Threads : y # last => mx[y] = nx[y]
  <2>1. t # last /\ last \in Threads
    BY <1>1, Zenon
  <2> QED BY <2>1, Zenon
<1> HIDE DEF A, last
<1>3. Reach(mx, h) \subseteq A \cup {t}
  <2> DEFINE S == A \cup {t}
  <2>1. /\ S \in SUBSET Threads /\ h \in S \cup {Null}
        /\ \A y \in S : mx[y] \in S \cup {Null}
    BY <1>1, <1>2, Zenon
  <2> HIDE DEF S
  <2>2. Reach(mx, h) \subseteq S
    BY <2>1, ReachLeast, Zenon
  <2> QED BY <2>2, Zenon DEF S
<1>4. /\ Reach(mx, h) \subseteq Threads /\ h \in Reach(mx, h)
      /\ \A y \in Reach(mx, h) : mx[y] \in Reach(mx, h) \cup {Null}
  BY <1>1, <1>2, ReachClosed, Zenon
<1>5. A \subseteq Reach(mx, h)
  <2> DEFINE R == Reach(mx, h)
  <2>1. \A y \in R : nx[y] \in R \cup {Null}
    BY <1>1, <1>2, <1>4, Zenon
  <2> QED BY <2>1, <1>1, <1>4, ReachLeast, Zenon DEF A
<1>6. t \in Reach(mx, h)
  BY <1>1, <1>2, <1>4, <1>5, NullAssumption
<1>7. Reach(mx, h) = A \cup {t}
  BY <1>3, <1>5, <1>6, Zenon
<1>8. Chain(mx, ul, h)
  <2>1. \A x \in A \cup {t} : mx[x] # h
    BY <1>1, <1>2, Zenon
  <2>2. \A x, y \in A \cup {t} : mx[x] = mx[y] /\ mx[x] # Null => x = y
    BY <1>1, <1>2
  <2> QED BY <1>2, <1>7, <2>1, <2>2, Zenon DEF Chain
<1> QED BY <1>7, <1>8, Zenon DEF A

\* A node with no successor is a list of its own.
LEMMA ChainSingle ==
    ASSUME NEW nx \in Links, NEW tl, NEW t \in Threads, nx[t] = Null, tl[t] = t
    PROVE  Chain(nx, tl, t) /\ Reach(nx, t) = {t}
<1> USE DEF Links
<1>1. t # Null /\ t \in Node
  BY NullAssumption, Zenon DEF Node
<1>2. Reach(nx, t) \subseteq {t}
  <2> DEFINE S == {t}
  <2>1. /\ S \in SUBSET Threads /\ t \in S \cup {Null}
        /\ \A y \in S : nx[y] \in S \cup {Null}
    BY Zenon
  <2> HIDE DEF S
  <2>2. Reach(nx, t) \subseteq S
    BY <2>1, ReachLeast, Zenon
  <2> QED BY <2>2, Zenon DEF S
<1>3. t \in Reach(nx, t)
  BY <1>1, ReachClosed, Zenon
<1>4. Reach(nx, t) = {t}
  BY <1>2, <1>3, Zenon
<1> QED BY <1>1, <1>4, Zenon DEF Chain

\* Behind the head of a list is the list of the others, whose tail is the old one.
LEMMA ChainRest ==
    ASSUME NEW nx \in Links, NEW tl \in Links, NEW h \in Threads,
           NEW g, NEW ul, Chain(nx, tl, h), g = nx[h],
           ul = IF g # Null THEN [tl EXCEPT ![g] = tl[h]] ELSE tl
    PROVE  /\ Chain(nx, ul, g)
           /\ Reach(nx, h) = {h} \cup Reach(nx, g)
           /\ h \notin Reach(nx, g)
<1> USE DEF Links
<1> DEFINE A == Reach(nx, h)
           B == Reach(nx, g)
<1>1. g \in Node /\ h \in Node /\ h # Null
  BY NullAssumption, Zenon DEF Node
<1>2. /\ A \subseteq Threads /\ h \in A /\ \A y \in A : nx[y] \in A \cup {Null}
      /\ B \subseteq Threads /\ (g # Null => g \in B) /\ \A y \in B : nx[y] \in B \cup {Null}
  BY <1>1, ReachClosed, Zenon
<1>3. /\ \A x \in A : nx[x] # h
      /\ \A x, y \in A : nx[x] = nx[y] /\ nx[x] # Null => x = y
      /\ tl[h] \in A /\ nx[tl[h]] = Null
  BY <1>1, Zenon DEF Chain
<1>4. g \in A \cup {Null}
  BY <1>2, Zenon
<1>5. g # Null => ul[g] = tl[h]
  BY <1>1, Zenon DEF Node
<1>6. nx[h] = g
  BY Zenon
<1> HIDE DEF A, B
<1>7. B \subseteq A
  BY <1>2, <1>4, ReachLeast, Zenon DEF B
<1>8. A \subseteq {h} \cup B
  <2> DEFINE S == {h} \cup B
  <2>1. /\ S \in SUBSET Threads /\ h \in S \cup {Null}
        /\ \A y \in S : nx[y] \in S \cup {Null}
    BY <1>2, <1>6, Zenon
  <2> HIDE DEF S
  <2>2. A \subseteq S
    BY <2>1, ReachLeast, Zenon DEF A
  <2> QED BY <2>2, Zenon DEF S
<1>9. h \notin B
  <2>1. B \subseteq B \ {h}
    <3>1. g \in (B \ {h}) \cup {Null}
      BY <1>2, <1>3, <1>6, Zenon
    <3>2. \A y \in B \ {h} : nx[y] \in (B \ {h}) \cup {Null}
      BY <1>2, <1>3, <1>7, Zenon
    <3> DEFINE S == B \ {h}
    <3>3. /\ S \in SUBSET Threads /\ g \in S \cup {Null}
          /\ \A y \in S : nx[y] \in S \cup {Null}
      BY <3>1, <3>2, <1>2, Zenon
    <3> HIDE DEF S
    <3>4. B \subseteq S
      BY <3>3, ReachLeast, Zenon DEF B
    <3> QED BY <3>4, Zenon DEF S
  <2> QED BY <2>1, Zenon
<1>10. Chain(nx, ul, g)
  <2> SUFFICES ASSUME g # Null PROVE Chain(nx, ul, g)
    BY Zenon DEF Chain
  <2>1. \A x \in B : nx[x] # g
    BY <1>2, <1>3, <1>6, <1>7, <1>9, Zenon
  <2>2. tl[h] \in B /\ nx[tl[h]] = Null
    BY <1>3, <1>6, <1>8, Zenon
  <2> QED BY <1>3, <1>5, <1>7, <2>1, <2>2, Zenon DEF Chain, B
<1> QED BY <1>2, <1>7, <1>8, <1>9, <1>10, Zenon DEF A, B

\* The head of the queue: the one a thread is about to store, or that of the word.
Storing == {t \in Threads : pc[t] \in {"enqueueStore", "dequeueStore"}}

Head == IF Storing = {} THEN word.head ELSE cur[CHOOSE t \in Storing : TRUE].head

Queue == Reach(nextInQueue, Head)

\* The queue is a list of sleepers, ...
ListOfSleepers ==
    /\ Chain(nextInQueue, queueTail, Head)
    /\ \A x \in Queue : shouldPark[x] /\ pc[x] \in {"enqueueStore", "park"}

\* ... the words about to be stored follow from the links, ...
StoresFollowLinks ==
    \A t \in Threads :
        /\ pc[t] = "enqueue" => cur[t].head = word.head
        /\ pc[t] = "enqueueStore" =>
              /\ t \in Queue
              /\ word.head = Null => cur[t].head = t /\ nextInQueue[t] = Null
              /\ word.head # Null => cur[t].head = word.head
        /\ pc[t] = "dequeueStore" => /\ queueHead[t] = word.head
                                     /\ cur[t].head = nextInQueue[word.head]

\* ... a node taken off the queue belongs to one unlocker until it has woken its thread, ...
Unlinking == {"dequeueStore", "clearNode", "wake", "notify"}

NodesTaken ==
    /\ \A t \in Threads : queueHead[t] # Null <=> pc[t] \in Unlinking
    /\ \A t, u \in Threads : queueHead[t] = queueHead[u] /\ queueHead[t] # Null => t = u
    /\ \A t, o \in Threads : queueHead[t] = o =>
          /\ pc[o] = "park" /\ o \notin Queue
          /\ pc[t] = "notify" => parkingLock[o] = t /\ ~shouldPark[o]
          /\ pc[t] # "notify" => shouldPark[o]
          /\ pc[t] \in {"wake", "notify"} => nextInQueue[o] = Null /\ queueTail[o] = Null

\* ... every sleeper is in one of the two places, and a node outside them has no links.
SleepersAccounted ==
    \A x \in Threads :
        /\ pc[x] = "park" /\ shouldPark[x] =>
              \/ x \in Queue
              \/ \E u \in Threads : queueHead[u] = x /\ pc[u] # "notify"
        /\ pc[x] \in {"queueCAS", "enqueue"} => nextInQueue[x] = Null
        /\ pc[x] = "park" /\ ~shouldPark[x] => nextInQueue[x] = Null /\ queueTail[x] = Null

QInv == ListOfSleepers /\ StoresFollowLinks /\ NodesTaken /\ SleepersAccounted
\* Where the head is found.
HeadPlace ==
    /\ Head \in Node
    /\ Storing = {} => Head = word.head
    /\ \A t \in Threads : pc[t] \in {"enqueueStore", "dequeueStore"} => Head = cur[t].head

\* Only one thread at a time has a head to store.
LEMMA HeadFacts == IInv => HeadPlace
<1> SUFFICES ASSUME IInv
             PROVE  /\ Head \in Node
                    /\ Storing = {} => Head = word.head
                    /\ \A t \in Storing : Head = cur[t].head
  BY Zenon DEF Storing, HeadPlace
<1> DEFINE c == CHOOSE t \in Storing : TRUE
<1>1. Storing # {} => c \in Storing
  BY Zenon
<1>2. \A t, u \in Storing : t = u
  BY Zenon DEF Storing, IInv, QueueLockNeedsLock, QueueHolders
<1>3. Storing # {} => Head = cur[c].head
  BY Zenon DEF Head
<1> HIDE DEF c
<1>4. \A t \in Storing : Head = cur[t].head
  BY <1>1, <1>2, <1>3, Zenon
<1>5. Storing = {} => Head = word.head
  BY Zenon DEF Head
<1>6. word.head \in Node /\ \A t \in Threads : cur[t].head \in Node
  BY Zenon DEF IInv, TypeOK, Word
<1> QED BY <1>1, <1>3, <1>4, <1>5, <1>6, Zenon DEF Storing

LEMMA HeadFactsNext == IInv' => HeadPlace'
BY HeadFacts, PTL

\* The head of a word after the changes the code makes to one.
LEMMA WordHeads ==
    ASSUME NEW w \in Word, NEW n \in Node
    PROVE  /\ [w EXCEPT !.locked = TRUE].head = w.head
           /\ [w EXCEPT !.queueLocked = TRUE].head = w.head
           /\ [w EXCEPT !.queueLocked = FALSE].head = w.head
           /\ [w EXCEPT !.queueLocked = FALSE, !.head = n].head = n
           /\ [Zero EXCEPT !.head = n].head = n
  BY Zenon DEF Word, Zero

\* Where a step does not touch the queue
QueuePC == {"queueCAS", "enqueue", "enqueueStore", "park"} \cup Unlinking

\* A step outside the queue's code keeps everything.
LEMMA QuietStep ==
    ASSUME IInv, IInv', QInv, NEW t \in Threads, NEW l \in PC,
           pc[t] \notin QueuePC \ {"queueCAS"}, l \notin QueuePC \ {"enqueue"},
           l = "enqueue" => pc[t] = "queueCAS" /\ cur'[t].head = word.head,
           pc' = [pc EXCEPT ![t] = l], \A u \in Threads \ {t} : cur'[u] = cur[u],
           word'.head = word.head, UNCHANGED <<node, queueHead>>
    PROVE  QInv'
<1> USE DEF QueuePC, Unlinking
<1>0. TypeOK /\ TypeOK'
  BY Zenon DEF IInv
<1>1. pc[t] \notin {"enqueue", "enqueueStore", "park"} \cup Unlinking
  BY Zenon
<1>2. /\ pc'[t] = l /\ \A u \in Threads \ {t} : pc'[u] = pc[u]
      /\ l \notin {"queueCAS", "enqueueStore", "park"} \cup Unlinking
  BY <1>0, Zenon DEF TypeOK
<1>3. Storing' = Storing /\ t \notin Storing
  BY <1>1, <1>2, Zenon DEF Storing
<1>4. Head' = Head
  BY <1>2, <1>3, HeadFacts, HeadFactsNext DEF HeadPlace, Storing
<1>5. UNCHANGED <<shouldPark, nextInQueue, queueTail, parkingLock, queueHead, Queue>>
  BY <1>4, Zenon DEF node, Queue
<1>6. ListOfSleepers'
  BY <1>1, <1>2, <1>4, <1>5, ReachClosed, HeadFacts, <1>0, Zenon DEF QInv, ListOfSleepers, Queue, TypeOK, Links, HeadPlace
<1>7. StoresFollowLinks'
  BY <1>1, <1>2, <1>5 DEF QInv, StoresFollowLinks
<1>8. NodesTaken'
  BY <1>1, <1>2, <1>5 DEF QInv, NodesTaken
<1>9. SleepersAccounted'
  BY <1>1, <1>2, <1>5 DEF QInv, SleepersAccounted, NodesTaken
<1> QED BY <1>6, <1>7, <1>8, <1>9, Zenon DEF QInv
\* ThreadData me comes alive: its node is on no queue and nobody has taken it.
LEMMA ReloadStep ==
    ASSUME IInv, IInv', QInv, NEW t \in Threads, LockReload(t)
    PROVE  QInv'
<1>0. TypeOK /\ TypeOK' /\ pc[t] = "lockReload"
  BY Zenon DEF IInv, LockReload
<1>1. /\ pc'[t] \in {"lockLoad", "queueCAS"} /\ \A u \in Threads \ {t} : pc'[u] = pc[u]
      /\ \A u \in Threads \ {t} : cur'[u] = cur[u]
      /\ nextInQueue'[t] = Null /\ queueTail'[t] = Null /\ ~shouldPark'[t]
      /\ \A u \in Threads \ {t} : /\ nextInQueue'[u] = nextInQueue[u]
                                  /\ queueTail'[u] = queueTail[u]
                                  /\ shouldPark'[u] = shouldPark[u]
      /\ UNCHANGED <<word, parkingLock, queueHead>>
  BY <1>0 DEF LockReload, TypeOK, Goto, Keep
<1>2. Storing' = Storing /\ t \notin Storing
  BY <1>0, <1>1, Zenon DEF Storing
<1>3. Head' = Head /\ Head \in Node
  BY <1>1, <1>2, HeadFacts, HeadFactsNext DEF HeadPlace, Storing
<1>4. t \notin Queue /\ Queue \subseteq Threads
  BY <1>0, Zenon DEF QInv, ListOfSleepers, Queue, Reach
<1>5. Chain(nextInQueue, queueTail, Head)' /\ Queue' = Queue
  <2>1. /\ nextInQueue \in Links /\ nextInQueue' \in Links
        /\ queueTail \in Links /\ queueTail' \in Links
    BY <1>0, Zenon DEF TypeOK, Links
  <2>2. Chain(nextInQueue, queueTail, Head)
    BY Zenon DEF QInv, ListOfSleepers
  <2>3. \A y \in Reach(nextInQueue, Head) :
            nextInQueue'[y] = nextInQueue[y] /\ queueTail'[y] = queueTail[y]
    BY <1>1, <1>4, Zenon DEF Queue
  <2>4. Chain(nextInQueue', queueTail', Head) /\ Reach(nextInQueue', Head) = Reach(nextInQueue, Head)
    BY <2>1, <2>2, <2>3, <1>3, ChainSame
  <2> QED BY <2>4, <1>3, Zenon DEF Queue
<1>6. ListOfSleepers'
  BY <1>1, <1>4, <1>5, Zenon DEF QInv, ListOfSleepers
<1>7. NodesTaken'
  BY <1>0, <1>1, <1>5 DEF QInv, NodesTaken, Unlinking
<1>8. StoresFollowLinks'
  <2>1. \A u \in Threads : pc[u] = "dequeueStore" => nextInQueue'[word.head] = nextInQueue[word.head]
    <3> SUFFICES ASSUME NEW u \in Threads, pc[u] = "dequeueStore"
                 PROVE  word.head \in Threads \ {t}
      BY <1>1, Zenon
    <3>1. queueHead[u] = word.head /\ queueHead[u] # Null
      BY Zenon DEF QInv, StoresFollowLinks, NodesTaken, Unlinking
    <3>2. word.head \in Threads
      BY <3>1, <1>0, Zenon DEF TypeOK, Node
    <3> QED BY <3>1, <3>2, <1>0, Zenon DEF QInv, NodesTaken
  <2> QED BY <1>0, <1>1, <1>5, <2>1 DEF QInv, StoresFollowLinks
<1>9. SleepersAccounted'
  BY <1>0, <1>1, <1>5 DEF QInv, SleepersAccounted, NodesTaken
<1> QED BY <1>6, <1>7, <1>8, <1>9, Zenon DEF QInv

\* The queue's owner links its node behind the tail, or makes it the head.
LEMMA EnqueueStep ==
    ASSUME IInv, IInv', QInv, NEW t \in Threads, Enqueue(t)
    PROVE  QInv'
<1>0. TypeOK /\ TypeOK' /\ pc[t] = "enqueue"
  BY Zenon DEF IInv, Enqueue
<1>1. /\ pc'[t] = "enqueueStore" /\ \A u \in Threads \ {t} : pc'[u] = pc[u]
      /\ shouldPark'[t] /\ \A u \in Threads \ {t} : shouldPark'[u] = shouldPark[u]
      /\ UNCHANGED <<word, parkingLock, queueHead>>
  BY <1>0, Zenon DEF Enqueue, TypeOK, Goto
<1>2. \A u \in Threads \ {t} : pc[u] \notin {"enqueue", "enqueueStore", "dequeue", "dequeueStore"}
  BY <1>0, Zenon DEF IInv, QueueLockNeedsLock, QueueHolders
<1>3. Head = word.head /\ Head' = cur'[t].head /\ cur[t].head = Head /\ Head \in Node
  <2>1. Storing = {}
    BY <1>0, <1>2, Zenon DEF Storing
  <2> QED BY <1>0, <1>1, <2>1, HeadFacts, HeadFactsNext, Zenon
          DEF HeadPlace, QInv, StoresFollowLinks
<1>4. t \notin Queue /\ Queue \subseteq Threads /\ nextInQueue[t] = Null
  BY <1>0, Zenon DEF QInv, ListOfSleepers, SleepersAccounted, Queue, Reach
<1>5. /\ Chain(nextInQueue, queueTail, Head)' /\ Queue' = Queue \cup {t}
      /\ nextInQueue'[t] = Null
      /\ Head = Null => Head' = t
      /\ Head # Null => Head' = Head
      /\ \A u \in Threads \ {t} : u \notin Queue =>
            nextInQueue'[u] = nextInQueue[u] /\ queueTail'[u] = queueTail[u]
  <2>1. CASE Head = Null
    <3>1. /\ queueTail' = [queueTail EXCEPT ![t] = t] /\ UNCHANGED nextInQueue
          /\ cur' = [cur EXCEPT ![t] = [word EXCEPT !.queueLocked = FALSE, !.head = t]]
      BY <2>1, <1>3, Zenon DEF Enqueue, Keep
    <3>2. Head' = t
      <4>1. cur'[t] = [word EXCEPT !.queueLocked = FALSE, !.head = t]
        BY <3>1, <1>0, Zenon DEF TypeOK
      <4>2. word \in Word /\ t \in Node
        BY <1>0, Zenon DEF TypeOK, Node
      <4>3. [word EXCEPT !.queueLocked = FALSE, !.head = t].head = t
        BY <4>2, WordHeads, Zenon
      <4> QED BY <4>1, <4>3, <1>3, Zenon
    <3>3. queueTail'[t] = t /\ \A u \in Threads \ {t} : queueTail'[u] = queueTail[u]
      BY <3>1, <1>0, Zenon DEF TypeOK
    <3>4. Chain(nextInQueue, queueTail', t) /\ Reach(nextInQueue, t) = {t}
      BY <3>3, <1>4, <1>0, ChainSingle DEF TypeOK, Links
    <3>5. Queue = {}
      BY <2>1, ReachNull, Zenon DEF Queue
    <3> QED BY <2>1, <3>1, <3>2, <3>3, <3>4, <3>5, <1>4, Zenon DEF Queue
  <2>2. CASE Head # Null
    <3>1. /\ nextInQueue' = [nextInQueue EXCEPT ![queueTail[Head]] = t]
          /\ queueTail' = [queueTail EXCEPT ![Head] = t]
          /\ cur' = [cur EXCEPT ![t] = [word EXCEPT !.queueLocked = FALSE]]
      BY <2>2, <1>3, Zenon DEF Enqueue, Keep
    <3>2. Head' = Head
      <4>1. cur'[t] = [word EXCEPT !.queueLocked = FALSE]
        BY <3>1, <1>0, Zenon DEF TypeOK
      <4>2. word \in Word /\ t \in Node
        BY <1>0, Zenon DEF TypeOK, Node
      <4>3. [word EXCEPT !.queueLocked = FALSE].head = word.head
        BY <4>2, WordHeads, Zenon
      <4> QED BY <4>1, <4>3, <1>3, Zenon
    <3>3. Head \in Threads
      BY <2>2, <1>3, Zenon DEF Node
    <3>4. Chain(nextInQueue', queueTail', Head) /\ Reach(nextInQueue', Head) = Queue \cup {t}
      <4>1. nextInQueue \in Links /\ queueTail \in Links
        BY <1>0, Zenon DEF TypeOK, Links
      <4>2. Chain(nextInQueue, queueTail, Head)
        BY Zenon DEF QInv, ListOfSleepers
      <4>3. t \notin Reach(nextInQueue, Head) /\ nextInQueue[t] = Null
        BY <1>4, Zenon DEF Queue
      <4>4. nextInQueue' \in Links /\ queueTail' \in Links /\ queueTail[Head] \in Threads
        BY <1>0, <4>2, <2>2, Zenon DEF TypeOK, Links, Chain, Reach
      <4>5. /\ nextInQueue'[queueTail[Head]] = t /\ queueTail'[Head] = t
            /\ \A y \in Threads \ {queueTail[Head]} : nextInQueue'[y] = nextInQueue[y]
        BY <1>0, <3>1, <3>3, <4>4, Zenon DEF TypeOK
      <4>6. Chain(nextInQueue', queueTail', Head) /\ Reach(nextInQueue', Head) = Reach(nextInQueue, Head) \cup {t}
        BY <3>3, <4>1, <4>2, <4>3, <4>4, <4>5, ChainAppend
      <4> QED BY <4>6, Zenon DEF Queue
    <3>5. Head \in Queue /\ queueTail[Head] \in Queue
      BY <2>2, <1>0, <1>3, ReachClosed, Zenon DEF TypeOK, Links, QInv, ListOfSleepers, Chain, Queue
    <3> QED BY <2>2, <3>1, <3>2, <3>4, <3>5, <1>0, <1>4, Zenon DEF TypeOK, Queue
  <2> QED BY <2>1, <2>2, Zenon
<1>6. ListOfSleepers'
  BY <1>0, <1>1, <1>4, <1>5, Zenon DEF QInv, ListOfSleepers
<1>7. StoresFollowLinks'
  BY <1>0, <1>1, <1>2, <1>3, <1>5 DEF QInv, StoresFollowLinks
<1>8. NodesTaken'
  <2>1. \A u \in Threads : queueHead[u] # t
    BY <1>0, Zenon DEF QInv, NodesTaken
  <2>2. \A u \in Threads : queueHead'[u] # Null <=> pc'[u] \in Unlinking
    BY <1>0, <1>1, Zenon DEF QInv, NodesTaken, Unlinking
  <2>3. ASSUME NEW u \in Threads, NEW o \in Threads, queueHead'[u] = o
        PROVE  /\ pc'[o] = "park" /\ o \notin Queue'
               /\ pc'[u] = "notify" => parkingLock'[o] = u /\ ~shouldPark'[o]
               /\ pc'[u] # "notify" => shouldPark'[o]
               /\ pc'[u] \in {"wake", "notify"} => nextInQueue'[o] = Null /\ queueTail'[o] = Null
    <3>1. queueHead[u] = o /\ o # t /\ o \notin Queue /\ u # t
      BY <2>1, <2>3, <1>0, <1>1, NullAssumption, Zenon DEF QInv, NodesTaken, Unlinking
    <3> QED BY <3>1, <1>1, <1>5 DEF QInv, NodesTaken
  <2> QED BY <2>2, <2>3, <1>1 DEF QInv, NodesTaken
<1>9. SleepersAccounted'
  <2> SUFFICES ASSUME NEW x \in Threads
               PROVE  /\ pc'[x] = "park" /\ shouldPark'[x] =>
                            \/ x \in Queue'
                            \/ \E u \in Threads : queueHead'[u] = x /\ pc'[u] # "notify"
                      /\ pc'[x] \in {"queueCAS", "enqueue"} => nextInQueue'[x] = Null
                      /\ pc'[x] = "park" /\ ~shouldPark'[x] =>
                            nextInQueue'[x] = Null /\ queueTail'[x] = Null
    BY Zenon DEF SleepersAccounted
  <2>1. CASE x = t
    BY <2>1, <1>1, Zenon
  <2>2. CASE x # t
    <3>1. pc[x] \in {"queueCAS", "enqueue"} \/ ~shouldPark[x] => x \notin Queue
      BY Zenon DEF QInv, ListOfSleepers
    <3>2. pc'[x] = pc[x] /\ shouldPark'[x] = shouldPark[x]
      BY <2>2, <1>1, Zenon
    <3>3. ASSUME NEW u \in Threads, queueHead[u] = x, pc[u] # "notify" PROVE pc'[u] # "notify"
      BY <3>3, <1>1, Zenon
    <3> QED BY <2>2, <3>1, <3>2, <3>3, <1>1, <1>5 DEF QInv, SleepersAccounted
  <2> QED BY <2>1, <2>2, Zenon
<1> QED BY <1>6, <1>7, <1>8, <1>9, Zenon DEF QInv
\* The store that releases the queue lock makes the prepared head the word's.
LEMMA StoreStep ==
    ASSUME IInv, IInv', QInv, NEW t \in Threads, EnqueueStore(t) \/ DequeueStore(t)
    PROVE  QInv'
<1>0. TypeOK /\ TypeOK' /\ pc[t] \in {"enqueueStore", "dequeueStore"}
  BY Zenon DEF IInv, EnqueueStore, DequeueStore
<1>1. /\ pc[t] = "enqueueStore" => pc'[t] = "park"
      /\ pc[t] = "dequeueStore" => pc'[t] = "clearNode"
      /\ \A u \in Threads \ {t} : pc'[u] = pc[u] /\ cur'[u] = cur[u]
      /\ word' = cur[t]
      /\ UNCHANGED <<shouldPark, nextInQueue, queueTail, parkingLock, queueHead>>
  BY <1>0, Zenon DEF EnqueueStore, DequeueStore, Goto, Keep, TypeOK, node
<1>2. \A u \in Threads \ {t} : pc[u] \notin {"enqueue", "enqueueStore", "dequeue", "dequeueStore"}
  BY <1>0, Zenon DEF IInv, QueueLockNeedsLock, QueueHolders
<1>3. Storing' = {}
  BY <1>0, <1>1, <1>2, Zenon DEF Storing
<1>4. Head' = Head /\ Queue' = Queue
  <2>1. Head' = Head
    BY <1>0, <1>1, <1>3, HeadFacts, HeadFactsNext, Zenon DEF HeadPlace
  <2> QED BY <2>1, <1>1, Zenon DEF Queue
<1>5. ListOfSleepers'
  <2>1. \A x \in Queue : x \in Threads /\ (x = t => pc[t] = "enqueueStore")
    BY <1>0, Zenon DEF QInv, ListOfSleepers, Queue, Reach
  <2> QED BY <1>1, <1>4, <2>1, Zenon DEF QInv, ListOfSleepers
<1>6. StoresFollowLinks'
  BY <1>0, <1>1, <1>2 DEF StoresFollowLinks
<1>7. NodesTaken'
  <2>1. \A u \in Threads : queueHead'[u] # Null <=> pc'[u] \in Unlinking
    BY <1>0, <1>1, Zenon DEF QInv, NodesTaken, Unlinking
  <2>2. ASSUME NEW u \in Threads, NEW o \in Threads, queueHead'[u] = o
        PROVE  /\ pc'[o] = "park" /\ o \notin Queue'
               /\ pc'[u] = "notify" => parkingLock'[o] = u /\ ~shouldPark'[o]
               /\ pc'[u] # "notify" => shouldPark'[o]
               /\ pc'[u] \in {"wake", "notify"} => nextInQueue'[o] = Null /\ queueTail'[o] = Null
    <3>1. queueHead[u] = o /\ pc[o] = "park" /\ o # t /\ o \notin Queue
      BY <2>2, <1>0, <1>1 DEF QInv, NodesTaken
    <3>2. pc'[u] \in {"wake", "notify"} => pc[u] = pc'[u]
      BY <1>0, <1>1, Zenon
    <3>3. pc[u] = "notify" => pc'[u] = "notify"
      BY <1>0, <1>1, Zenon
    <3> QED BY <3>1, <3>2, <3>3, <1>1, <1>4, Zenon DEF QInv, NodesTaken
  <2> QED BY <2>1, <2>2, <1>1 DEF QInv, NodesTaken
<1>8. SleepersAccounted'
  <2>1. pc[t] = "enqueueStore" => t \in Queue /\ shouldPark[t]
    BY Zenon DEF QInv, StoresFollowLinks, ListOfSleepers
  <2>2. \A u \in Threads : pc'[u] # "notify" <=> pc[u] # "notify"
    BY <1>0, <1>1, Zenon
  <2> QED BY <2>1, <2>2, <1>0, <1>1, <1>4, Zenon DEF QInv, SleepersAccounted
<1> QED BY <1>5, <1>6, <1>7, <1>8, Zenon DEF QInv

\* A thread leaves its wait with a node that is on no queue and that nobody has taken.
LEMMA ParkStep ==
    ASSUME IInv, IInv', QInv, NEW t \in Threads, Park(t)
    PROVE  QInv'
<1>0. TypeOK /\ TypeOK' /\ pc[t] = "park" /\ parkingLock[t] = Null /\ ~shouldPark[t]
  BY Zenon DEF IInv, Park
<1>1. /\ pc'[t] = "lockLoad" /\ \A u \in Threads \ {t} : pc'[u] = pc[u]
      /\ UNCHANGED <<word, cur, shouldPark, nextInQueue, queueTail, parkingLock, queueHead>>
  BY <1>0, Zenon DEF Park, Goto, TypeOK, node
<1>2. Storing' = Storing /\ t \notin Storing
  BY <1>0, <1>1, Zenon DEF Storing
<1>3. Head' = Head /\ Queue' = Queue
  <2>1. Head' = Head
    BY <1>1, <1>2, HeadFacts, HeadFactsNext DEF HeadPlace, Storing
  <2> QED BY <2>1, <1>1, Zenon DEF Queue
<1>4. t \notin Queue /\ Queue \subseteq Threads
  BY <1>0, Zenon DEF QInv, ListOfSleepers, Queue, Reach
<1>5. \A u \in Threads : queueHead[u] # t
  <2> SUFFICES ASSUME NEW u \in Threads, queueHead[u] = t PROVE FALSE
    BY Zenon
  <2>1. (pc[u] = "notify" => parkingLock[t] = u) /\ (pc[u] # "notify" => shouldPark[t])
    BY Zenon DEF QInv, NodesTaken
  <2> QED BY <2>1, <1>0, NullAssumption, Zenon
<1>6. ListOfSleepers'
  BY <1>1, <1>3, <1>4, Zenon DEF QInv, ListOfSleepers
<1>7. StoresFollowLinks'
  BY <1>0, <1>1, <1>3, Zenon DEF QInv, StoresFollowLinks
<1>8. NodesTaken'
  BY <1>0, <1>1, <1>3, <1>5 DEF QInv, NodesTaken, Unlinking
<1>9. SleepersAccounted'
  BY <1>0, <1>1, <1>3 DEF QInv, SleepersAccounted
<1> QED BY <1>6, <1>7, <1>8, <1>9, Zenon DEF QInv

\* The owner of both locks takes the head off and hands its tail to the next node.
LEMMA DequeueStep ==
    ASSUME IInv, IInv', QInv, NEW t \in Threads, Dequeue(t)
    PROVE  QInv'
<1> DEFINE h == word.head
           g == nextInQueue[h]
<1>0. TypeOK /\ TypeOK' /\ pc[t] = "dequeue"
  BY Zenon DEF IInv, Dequeue
<1>1. /\ pc'[t] = "dequeueStore" /\ \A u \in Threads \ {t} : pc'[u] = pc[u]
      /\ queueHead'[t] = h /\ \A u \in Threads \ {t} : queueHead'[u] = queueHead[u]
      /\ queueTail' = IF g # Null THEN [queueTail EXCEPT ![g] = queueTail[h]] ELSE queueTail
      /\ cur' = [cur EXCEPT ![t] = [Zero EXCEPT !.head = g]]
      /\ UNCHANGED <<word, shouldPark, nextInQueue, parkingLock>>
  BY <1>0, Zenon DEF Dequeue, Goto, Keep, TypeOK
<1>2. \A u \in Threads \ {t} : pc[u] \notin {"enqueue", "enqueueStore", "dequeue", "dequeueStore"}
  BY <1>0, Zenon DEF IInv, QueueLockNeedsLock, QueueHolders
<1>3. h \in Threads /\ g \in Node
  <2>1. h \in Threads
    BY <1>0, Zenon DEF IInv, LocalWords, TypeOK, Word, Node
  <2> QED BY <2>1, <1>0, Zenon DEF TypeOK
<1>4. Head = h /\ Head' = g /\ cur'[t].head = g
  <2>1. Storing = {}
    BY <1>0, <1>2, Zenon DEF Storing
  <2>2. cur'[t] = [Zero EXCEPT !.head = g]
    BY <1>0, <1>1, Zenon DEF TypeOK
  <2>3. [Zero EXCEPT !.head = g].head = g
    BY <1>0, <1>3, WordHeads, Zenon DEF TypeOK
  <2> QED BY <2>1, <2>2, <2>3, <1>1, HeadFacts, HeadFactsNext, Zenon DEF HeadPlace
<1> HIDE DEF h, g
<1>5. /\ Chain(nextInQueue, queueTail', g)
      /\ Reach(nextInQueue, h) = {h} \cup Reach(nextInQueue, g)
      /\ h \notin Reach(nextInQueue, g)
  <2>1. nextInQueue \in Links /\ queueTail \in Links
    BY <1>0, Zenon DEF TypeOK, Links
  <2>2. Chain(nextInQueue, queueTail, h)
    BY <1>4, Zenon DEF QInv, ListOfSleepers
  <2>3. g = nextInQueue[h]
    BY Zenon DEF g
  <2> QED BY <1>1, <1>3, <2>1, <2>2, <2>3, ChainRest
<1>6. /\ Queue = {h} \cup Queue' /\ h \notin Queue' /\ Queue \subseteq Threads
      /\ Chain(nextInQueue, queueTail, Head)'
  <2>1. Queue = Reach(nextInQueue, h) /\ Queue' = Reach(nextInQueue, g)
    BY <1>1, <1>4, Zenon DEF Queue
  <2>2. Queue \subseteq Threads
    BY Zenon DEF Queue, Reach
  <2> QED BY <2>1, <2>2, <1>1, <1>4, <1>5, Zenon
<1>7. \A u \in Threads : u \notin Queue => queueTail'[u] = queueTail[u]
  <2>1. g # Null => g \in Queue
    BY <1>0, <1>3, <1>5, <1>4, ReachClosed, Zenon DEF TypeOK, Links, Queue
  <2> QED BY <2>1, <1>0, <1>1, Zenon DEF TypeOK
<1>8. h \in Queue /\ pc[h] = "park" /\ shouldPark[h]
  BY <1>2, <1>0, <1>6, <1>3, Zenon DEF QInv, ListOfSleepers
<1>9. ListOfSleepers'
  BY <1>0, <1>1, <1>6, Zenon DEF QInv, ListOfSleepers
<1>10. StoresFollowLinks'
  <2>1. g = nextInQueue[word.head] /\ h = word.head
    BY Zenon DEF g, h
  <2> QED BY <1>0, <1>1, <1>2, <1>4, <2>1 DEF StoresFollowLinks
<1>11. NodesTaken'
  <2>1. \A u \in Threads : queueHead'[u] # Null <=> pc'[u] \in Unlinking
    BY <1>0, <1>1, <1>3, NullAssumption DEF QInv, NodesTaken, Unlinking
  <2>2. \A u \in Threads : queueHead[u] # h
    BY <1>3, <1>8, Zenon DEF QInv, NodesTaken
  <2>3. \A u, v \in Threads : queueHead'[u] = queueHead'[v] /\ queueHead'[u] # Null => u = v
    BY <2>2, <1>1 DEF QInv, NodesTaken
  <2>4. ASSUME NEW u \in Threads, NEW o \in Threads, queueHead'[u] = o
        PROVE  /\ pc'[o] = "park" /\ o \notin Queue'
               /\ pc'[u] = "notify" => parkingLock'[o] = u /\ ~shouldPark'[o]
               /\ pc'[u] # "notify" => shouldPark'[o]
               /\ pc'[u] \in {"wake", "notify"} => nextInQueue'[o] = Null /\ queueTail'[o] = Null
    <3>1. CASE u = t
      BY <3>1, <2>4, <1>0, <1>1, <1>6, <1>8, Zenon
    <3>2. CASE u # t
      <4>1. queueHead[u] = o /\ o \notin Queue /\ pc[o] = "park" /\ o # t
        BY <3>2, <2>4, <1>0, <1>1, Zenon DEF QInv, NodesTaken
      <4> QED BY <4>1, <3>2, <1>1, <1>6, <1>7 DEF QInv, NodesTaken
    <3> QED BY <3>1, <3>2, Zenon
  <2> QED BY <2>1, <2>3, <2>4, Zenon DEF NodesTaken
<1>12. SleepersAccounted'
  <2>1. ASSUME NEW x \in Threads, pc'[x] = "park", shouldPark'[x]
        PROVE  \/ x \in Queue'
               \/ \E u \in Threads : queueHead'[u] = x /\ pc'[u] # "notify"
    <3>1. CASE x \in Queue
      BY <3>1, <1>1, <1>6, Zenon
    <3>2. CASE x \notin Queue
      <4>1. pc[x] = "park" /\ shouldPark[x]
        BY <2>1, <1>0, <1>1, Zenon
      <4>2. PICK u \in Threads : queueHead[u] = x /\ pc[u] # "notify"
        BY <3>2, <4>1, Zenon DEF QInv, SleepersAccounted
      <4>3. u # t
        BY <4>2, <1>0, NullAssumption, Zenon DEF QInv, NodesTaken, Unlinking
      <4> QED BY <4>2, <4>3, <1>1, Zenon
    <3> QED BY <3>1, <3>2, Zenon
  <2>2. \A x \in Threads : ~shouldPark[x] => x \notin Queue
    BY Zenon DEF QInv, ListOfSleepers
  <2> QED BY <2>1, <2>2, <1>0, <1>1, <1>7 DEF QInv, SleepersAccounted
<1> QED BY <1>9, <1>10, <1>11, <1>12, Zenon DEF QInv
\* The unlocker clears, wakes and lets go of the node it has taken, which is on no queue.
LEMMA WakeStep ==
    ASSUME IInv, IInv', QInv, NEW t \in Threads, ClearNode(t) \/ Wake(t) \/ Notify(t)
    PROVE  QInv'
<1> DEFINE o == queueHead[t]
<1>0. TypeOK /\ TypeOK' /\ pc[t] \in {"clearNode", "wake", "notify"}
  BY Zenon DEF IInv, ClearNode, Wake, Notify
<1>1. o \in Threads /\ pc[o] = "park" /\ o \notin Queue /\ o # t
  <2>1. o # Null /\ o \in Node
    BY <1>0, Zenon DEF QInv, NodesTaken, Unlinking, TypeOK
  <2>2. o \in Threads
    BY <2>1, Zenon DEF Node
  <2> QED BY <2>2, <1>0, Zenon DEF QInv, NodesTaken
<1>2. /\ pc'[t] = CASE pc[t] = "clearNode" -> "wake"
                    [] pc[t] = "wake" -> "notify"
                    [] pc[t] = "notify" -> "idle"
      /\ \A u \in Threads \ {t} : pc'[u] = pc[u] /\ queueHead'[u] = queueHead[u]
      /\ UNCHANGED <<word, cur>>
      /\ \A x \in Threads \ {o} : /\ nextInQueue'[x] = nextInQueue[x]
                                  /\ queueTail'[x] = queueTail[x]
                                  /\ shouldPark'[x] = shouldPark[x]
                                  /\ parkingLock'[x] = parkingLock[x]
  <2>1. CASE ClearNode(t)
    BY <2>1, <1>0, <1>1, Zenon DEF ClearNode, Goto, TypeOK
  <2>2. CASE Wake(t)
    BY <2>2, <1>0, <1>1, Zenon DEF Wake, Goto, TypeOK
  <2>3. CASE Notify(t)
    BY <2>3, <1>0, <1>1, Zenon DEF Notify, Goto, TypeOK
  <2> QED BY <2>1, <2>2, <2>3, Zenon
<1>3. /\ pc[t] = "clearNode" => /\ nextInQueue'[o] = Null /\ queueTail'[o] = Null
                                /\ UNCHANGED <<shouldPark, parkingLock, queueHead>>
      /\ pc[t] = "wake" => /\ ~shouldPark'[o] /\ parkingLock'[o] = t
                           /\ UNCHANGED <<nextInQueue, queueTail, queueHead>>
      /\ pc[t] = "notify" => /\ queueHead'[t] = Null
                             /\ UNCHANGED <<shouldPark, nextInQueue, queueTail>>
  BY <1>0, <1>1, Zenon DEF ClearNode, Wake, Notify, TypeOK
<1> HIDE DEF o
<1>4. \A u \in Threads \ {t} : queueHead[u] # o
  BY <1>1, NullAssumption DEF QInv, NodesTaken, o
<1>5. Head' = Head /\ Head \in Node
  <2>1. Storing' = Storing /\ t \notin Storing
    BY <1>0, <1>2, Zenon DEF Storing
  <2> QED BY <2>1, <1>2, HeadFacts, HeadFactsNext DEF HeadPlace, Storing
<1>6. Chain(nextInQueue, queueTail, Head)' /\ Queue' = Queue /\ Queue \subseteq Threads
  <2>1. /\ nextInQueue \in Links /\ nextInQueue' \in Links
        /\ queueTail \in Links /\ queueTail' \in Links
    BY <1>0, Zenon DEF TypeOK, Links
  <2>2. Chain(nextInQueue, queueTail, Head)
    BY Zenon DEF QInv, ListOfSleepers
  <2>3. \A y \in Reach(nextInQueue, Head) :
            y \in Threads /\ nextInQueue'[y] = nextInQueue[y] /\ queueTail'[y] = queueTail[y]
    BY <1>1, <1>2, Zenon DEF Queue, Reach
  <2>4. Chain(nextInQueue', queueTail', Head) /\ Reach(nextInQueue', Head) = Reach(nextInQueue, Head)
    BY <2>1, <2>2, <2>3, <1>5, ChainSame
  <2> QED BY <2>3, <2>4, <1>5, Zenon DEF Queue
<1>7. ListOfSleepers'
  BY <1>0, <1>1, <1>2, <1>6, Zenon DEF QInv, ListOfSleepers
<1>8. StoresFollowLinks'
  <2> SUFFICES ASSUME NEW u \in Threads, pc'[u] \in {"enqueue", "enqueueStore", "dequeueStore"}
               PROVE  /\ pc'[u] = "enqueue" => cur'[u].head = word'.head
                      /\ pc'[u] = "enqueueStore" =>
                            /\ u \in Queue'
                            /\ word'.head = Null => cur'[u].head = u /\ nextInQueue'[u] = Null
                            /\ word'.head # Null => cur'[u].head = word'.head
                      /\ pc'[u] = "dequeueStore" => /\ queueHead'[u] = word'.head
                                                    /\ cur'[u].head = nextInQueue'[word'.head]
    BY Zenon DEF StoresFollowLinks
  <2>1. u # t /\ u # o /\ pc[u] = pc'[u] /\ queueHead'[u] = queueHead[u] /\ queueHead[u] # o
    BY <1>0, <1>1, <1>2, <1>4, Zenon
  <2>2. pc[u] = "dequeueStore" => word.head \in Threads \ {o}
    BY <2>1, <1>0 DEF QInv, StoresFollowLinks, NodesTaken, Unlinking, TypeOK, Node
  <2> QED BY <2>1, <2>2, <1>2, <1>6 DEF QInv, StoresFollowLinks
<1>9. NodesTaken'
  <2>1. queueHead'[t] = IF pc[t] = "notify" THEN Null ELSE o
    BY <1>0, <1>3, Zenon DEF o
  <2>2. \A u \in Threads : queueHead'[u] # Null <=> pc'[u] \in Unlinking
    BY <2>1, <1>0, <1>1, <1>2, NullAssumption DEF QInv, NodesTaken, Unlinking
  <2>3. \A u, v \in Threads : queueHead'[u] = queueHead'[v] /\ queueHead'[u] # Null => u = v
    BY <2>1, <1>2, <1>4 DEF QInv, NodesTaken
  <2>4. ASSUME NEW u \in Threads, NEW n \in Threads, queueHead'[u] = n
        PROVE  /\ pc'[n] = "park" /\ n \notin Queue'
               /\ pc'[u] = "notify" => parkingLock'[n] = u /\ ~shouldPark'[n]
               /\ pc'[u] # "notify" => shouldPark'[n]
               /\ pc'[u] \in {"wake", "notify"} => nextInQueue'[n] = Null /\ queueTail'[n] = Null
    <3>1. CASE u = t
      <4>1. n = o /\ pc[t] # "notify"
        BY <3>1, <2>1, <2>4, NullAssumption, Zenon
      <4>2. /\ shouldPark[o]
            /\ pc[t] = "wake" => nextInQueue[o] = Null /\ queueTail[o] = Null
        BY <4>1, <1>1, Zenon DEF QInv, NodesTaken, o
      <4> QED BY <4>1, <4>2, <3>1, <1>0, <1>1, <1>2, <1>3, <1>6, Zenon
    <3>2. CASE u # t
      <4>1. queueHead[u] = n /\ n # o /\ pc[n] = "park" /\ n # t /\ pc'[u] = pc[u]
        BY <3>2, <2>4, <1>0, <1>2, <1>4, Zenon DEF QInv, NodesTaken
      <4> QED BY <4>1, <3>2, <1>2, <1>6 DEF QInv, NodesTaken
    <3> QED BY <3>1, <3>2, Zenon
  <2> QED BY <2>2, <2>3, <2>4, Zenon DEF NodesTaken
<1>10. SleepersAccounted'
  <2>1. ASSUME NEW x \in Threads \ {o}
        PROVE  /\ pc'[x] = "park" /\ shouldPark'[x] =>
                     \/ x \in Queue'
                     \/ \E u \in Threads : queueHead'[u] = x /\ pc'[u] # "notify"
               /\ pc'[x] \in {"queueCAS", "enqueue"} => nextInQueue'[x] = Null
               /\ pc'[x] = "park" /\ ~shouldPark'[x] => nextInQueue'[x] = Null /\ queueTail'[x] = Null
    <3>1. pc'[x] \in {"park", "queueCAS", "enqueue"} => x # t /\ pc[x] = pc'[x]
      BY <1>0, <1>2, Zenon
    <3>2. ASSUME NEW u \in Threads, queueHead[u] = x, pc[u] # "notify"
          PROVE  queueHead'[u] = x /\ pc'[u] # "notify"
      <4>1. u # t
        BY <3>2, Zenon DEF o
      <4> QED BY <4>1, <3>2, <1>2, Zenon
    <3> QED BY <3>1, <3>2, <1>2, <1>6 DEF QInv, SleepersAccounted
  <2>2. /\ pc'[o] = "park"
        /\ pc[t] = "clearNode" => shouldPark'[o] /\ queueHead'[t] = o /\ pc'[t] # "notify"
        /\ pc[t] # "clearNode" => ~shouldPark'[o] /\ nextInQueue'[o] = Null /\ queueTail'[o] = Null
    <3>1. /\ pc[t] # "notify" => shouldPark[o]
          /\ pc[t] \in {"wake", "notify"} => nextInQueue[o] = Null /\ queueTail[o] = Null
      BY <1>1, Zenon DEF QInv, NodesTaken, o
    <3>2. pc[t] = "notify" => ~shouldPark[o]
      BY <1>1, Zenon DEF QInv, NodesTaken, o
    <3> QED BY <3>1, <3>2, <1>0, <1>1, <1>2, <1>3, Zenon DEF o
  <2> QED BY <2>1, <2>2, <1>1, Zenon DEF SleepersAccounted
<1> QED BY <1>7, <1>8, <1>9, <1>10, Zenon DEF QInv

\* What the queue invariant is about.
LEMMA UnchangedQueue == ASSUME QInv, UNCHANGED <<word, pc, cur, node, queueHead>> PROVE QInv'
<1>1. Storing' = Storing
  BY Zenon DEF Storing
<1>2. Head' = Head
  BY <1>1 DEF Head
<1>3. Queue' = Queue
  BY <1>2, Zenon DEF Queue, node
<1>4. ListOfSleepers' /\ StoresFollowLinks'
  BY <1>2, <1>3, Zenon DEF node, QInv, ListOfSleepers, StoresFollowLinks
<1>5. NodesTaken' /\ SleepersAccounted'
  BY <1>3 DEF node, QInv, NodesTaken, SleepersAccounted
<1> QED BY <1>4, <1>5, Zenon DEF QInv

\* The queue invariant is kept by every step.
LEMMA QueueStep == ASSUME IInv, IInv', QInv, NEW t \in Threads, Step(t)
                   PROVE  QInv'
<1>0. TypeOK /\ word \in Word /\ (\A u \in Threads : cur[u] \in Word) /\ Null \in Node
  BY Zenon DEF IInv, TypeOK, Node
<1>1. CASE lock(t) \/ unlock(t) \/ UnlockCAS(t)
  <2>1. PICK l \in {"held", "idle", "lockLoad", "unlockLoad"} : pc' = [pc EXCEPT ![t] = l]
    BY <1>1, Zenon DEF lock, unlock, UnlockCAS, CompareExchangeWeak, Goto
  <2>2. word'.head = word.head
    BY <1>1, WordFacts, Zenon DEF lock, unlock, UnlockCAS, CompareExchangeWeak
  <2>3. pc[t] \in {"idle", "held", "unlockCAS"} /\ UNCHANGED <<cur, node, queueHead>>
    BY <1>1, Zenon DEF lock, unlock, UnlockCAS
  <2> QED BY <2>1, <2>2, <2>3, QuietStep, Zenon DEF QueuePC, Unlinking, PC
<1>2. CASE LockLoad(t) \/ UnlockLoad(t)
  <2>1. CASE pc' = pc
    <3>1. UNCHANGED <<word, pc, cur, node, queueHead>>
      BY <2>1, <1>2, <1>0, Zenon DEF LockLoad, SpinOrQueue, UnlockLoad, Goto, TypeOK
    <3> QED BY <3>1, UnchangedQueue, Zenon
  <2>2. CASE pc' # pc
    <3>1. PICK l \in {"lockLoad", "lockReload", "lockCAS", "unlockCAS", "dequeueCAS"} :
              pc' = [pc EXCEPT ![t] = l]
      BY <1>2, <2>2, Zenon DEF LockLoad, SpinOrQueue, UnlockLoad, Goto
    <3>2. pc[t] \in {"lockLoad", "unlockLoad"} /\ UNCHANGED <<word, node, queueHead>>
      BY <1>2, Zenon DEF LockLoad, UnlockLoad
    <3>3. \A u \in Threads \ {t} : cur'[u] = cur[u]
      BY <1>2, <1>0, Zenon DEF LockLoad, UnlockLoad, Keep, TypeOK
    <3> QED BY <3>1, <3>2, <3>3, QuietStep, Zenon DEF QueuePC, Unlinking, PC
  <2> QED BY <2>1, <2>2, Zenon
<1>3. CASE LockCAS(t) \/ QueueCAS(t) \/ DequeueCAS(t)
  <2>1. PICK l \in {"held", "lockLoad", "lockReload", "enqueue", "dequeue", "unlockLoad"} :
            pc' = [pc EXCEPT ![t] = l]
    BY <1>3, Zenon DEF LockCAS, SpinOrQueue, QueueCAS, DequeueCAS, CompareExchangeWeak, Goto
  <2>2. /\ pc[t] \in {"lockCAS", "queueCAS", "dequeueCAS"} /\ UNCHANGED <<node, queueHead>>
        /\ \A u \in Threads \ {t} : cur'[u] = cur[u]
    BY <1>3, <1>0, Zenon DEF LockCAS, QueueCAS, DequeueCAS, Keep, TypeOK
  <2>3. word'.head = word.head
    <3>1. CASE UNCHANGED word
      BY <3>1, Zenon
    <3>2. CASE /\ word = cur[t]
               /\ word' \in {[cur[t] EXCEPT !.locked = TRUE], [cur[t] EXCEPT !.queueLocked = TRUE]}
      BY <3>2, <1>0, WordHeads, Zenon
    <3> QED BY <1>3, <3>1, <3>2, Zenon DEF LockCAS, QueueCAS, DequeueCAS, CompareExchangeWeak
  <2>4. l = "enqueue" => pc[t] = "queueCAS" /\ cur'[t].head = word.head
    <3> SUFFICES ASSUME l = "enqueue" PROVE pc[t] = "queueCAS" /\ cur'[t].head = word.head
      BY Zenon
    <3>1. pc'[t] = "enqueue"
      BY <2>1, <1>0, Zenon DEF TypeOK
    <3>2. QueueCAS(t)
      BY <3>1, <1>3, <1>0, Zenon DEF LockCAS, SpinOrQueue, DequeueCAS, CompareExchangeWeak, Goto, TypeOK
    <3>3. word = cur[t] /\ cur'[t] = cur[t]
      BY <3>1, <3>2, <1>0, Zenon DEF QueueCAS, CompareExchangeWeak, Goto, Keep, TypeOK
    <3> QED BY <3>2, <3>3, Zenon DEF QueueCAS
  <2> QED BY <2>1, <2>2, <2>3, <2>4, QuietStep, Zenon DEF QueuePC, Unlinking, PC
<1> QED BY <1>1, <1>2, <1>3, ReloadStep, EnqueueStep, StoreStep, ParkStep, DequeueStep, WakeStep, Zenon
        DEF Step

\* While there is a queue and the lock is free, somebody is on the way to it.
Attended == word.head # Null /\ ~word.locked => \E u \in Threads : OnTheWay(u)

\* A step that ends with the lock free and a queue has not touched the word, or
\* is the store of unlockSlow.
LEMMA WordOfFreeLock ==
    ASSUME IInv, IInv', NEW t \in Threads, Step(t), word'.head # Null, ~word'.locked
    PROVE  UNCHANGED word \/ DequeueStore(t)
<1> USE WordFacts
<1>0. /\ TypeOK /\ word \in Word /\ (\A u \in Threads : cur[u] \in Word)
      /\ LocalWords /\ MutualExclusion
  BY Zenon DEF IInv, TypeOK
<1>1. CASE lock(t) \/ unlock(t) \/ UnlockCAS(t)
  BY <1>1, Zenon DEF lock, unlock, UnlockCAS, CompareExchangeWeak
<1>2. CASE LockCAS(t)
  <2>1. [cur[t] EXCEPT !.locked = TRUE].locked
    BY <1>0, Zenon DEF Word
  <2> QED BY <1>2, <2>1, Zenon DEF LockCAS
<1>3. CASE QueueCAS(t) \/ DequeueCAS(t)
  <2>1. [cur[t] EXCEPT !.queueLocked = TRUE].locked = cur[t].locked
    BY <1>0, Zenon DEF Word
  <2>2. CASE UNCHANGED word
    BY <2>2, Zenon
  <2>3. CASE word = cur[t] /\ word' = [cur[t] EXCEPT !.queueLocked = TRUE]
    <3>1. CASE QueueCAS(t)
      BY <2>1, <2>3, <3>1, <1>0, Zenon DEF QueueCAS, LocalWords
    <3>2. CASE DequeueCAS(t)
      BY <2>1, <2>3, <3>2, <1>0, Zenon DEF DequeueCAS, MutualExclusion, Holders
    <3> QED BY <1>3, <3>1, <3>2, Zenon
  <2> QED BY <1>3, <2>2, <2>3, Zenon DEF QueueCAS, DequeueCAS, CompareExchangeWeak
<1>4. CASE EnqueueStore(t)
  BY <1>4, <1>0, Zenon DEF EnqueueStore, LocalWords
<1>5. CASE \/ LockLoad(t) \/ LockReload(t) \/ Enqueue(t) \/ Park(t) \/ UnlockLoad(t)
           \/ Dequeue(t) \/ ClearNode(t) \/ Wake(t) \/ Notify(t)
  BY <1>5, Zenon DEF LockLoad, LockReload, Enqueue, Park, UnlockLoad, Dequeue, ClearNode, Wake, Notify
<1> QED BY <1>1, <1>2, <1>3, <1>4, <1>5, Zenon DEF Step

\* A thread on the way stays there until it has the lock or has queued up at a
\* lock that is held.
LEMMA StaysOnTheWay ==
    ASSUME IInv, QInv, NEW t \in Threads, Step(t), UNCHANGED word, ~word.locked,
           NEW u \in Threads, OnTheWay(u)
    PROVE  OnTheWay(u)'
<1>0. /\ TypeOK /\ word \in Word /\ (\A v \in Threads : cur[v] \in Word)
      /\ LocalWords /\ QueueHolders = {} /\ Holders = {}
  BY Zenon DEF IInv, TypeOK, QueueLockNeedsLock, MutualExclusion
<1>1. CASE u = t
  <2>1. CASE pc[t] = "park"
    <3>1. Park(t)
      BY <2>1, Zenon DEF Step, lock, LockLoad, LockCAS, LockReload, QueueCAS, Enqueue, EnqueueStore,
         unlock, UnlockLoad, UnlockCAS, DequeueCAS, Dequeue, DequeueStore, ClearNode, Wake, Notify
    <3> QED BY <1>1, <3>1, <1>0, Zenon DEF Park, Goto, OnTheWay, TypeOK
  <2>2. CASE pc[t] = "lockLoad"
    <3>1. LockLoad(t)
      BY <2>2, Zenon DEF Step, lock, LockCAS, LockReload, QueueCAS, Enqueue, EnqueueStore, Park,
         unlock, UnlockLoad, UnlockCAS, DequeueCAS, Dequeue, DequeueStore, ClearNode, Wake, Notify
    <3> QED BY <1>1, <3>1, <1>0, Zenon DEF LockLoad, SpinOrQueue, Goto, OnTheWay, TypeOK
  <2>3. CASE pc[t] = "lockCAS"
    <3>1. LockCAS(t)
      BY <2>3, Zenon DEF Step, lock, LockLoad, LockReload, QueueCAS, Enqueue, EnqueueStore, Park,
         unlock, UnlockLoad, UnlockCAS, DequeueCAS, Dequeue, DequeueStore, ClearNode, Wake, Notify
    <3>2. [cur[t] EXCEPT !.locked = TRUE].locked
      BY <1>0, Zenon DEF Word
    <3> QED BY <1>1, <3>1, <3>2, <1>0, Zenon DEF LockCAS, SpinOrQueue, Goto, OnTheWay, TypeOK
  <2>4. CASE pc[t] = "lockReload"
    <3>1. LockReload(t)
      BY <2>4, Zenon DEF Step, lock, LockLoad, LockCAS, QueueCAS, Enqueue, EnqueueStore, Park,
         unlock, UnlockLoad, UnlockCAS, DequeueCAS, Dequeue, DequeueStore, ClearNode, Wake, Notify
    <3> QED BY <1>1, <3>1, <1>0, Zenon DEF LockReload, Goto, OnTheWay, TypeOK
  <2>5. CASE pc[t] = "queueCAS"
    <3>1. QueueCAS(t)
      BY <2>5, Zenon DEF Step, lock, LockLoad, LockCAS, LockReload, Enqueue, EnqueueStore, Park,
         unlock, UnlockLoad, UnlockCAS, DequeueCAS, Dequeue, DequeueStore, ClearNode, Wake, Notify
    <3>2. word # cur[t]
      BY <2>5, <1>0, Zenon DEF LocalWords
    <3> QED BY <1>1, <3>1, <3>2, <1>0, Zenon DEF QueueCAS, CompareExchangeWeak, Goto, OnTheWay, TypeOK
  <2> QED BY <1>1, <2>1, <2>2, <2>3, <2>4, <2>5, Zenon DEF OnTheWay
<1>2. CASE u # t
  <2>1. \A v \in Threads \ {t} : pc'[v] = pc[v]
    BY <1>0, Zenon DEF Step, lock, LockLoad, LockCAS, LockReload, QueueCAS, Enqueue, EnqueueStore, Park,
       unlock, UnlockLoad, UnlockCAS, DequeueCAS, Dequeue, DequeueStore, ClearNode, Wake, Notify,
       SpinOrQueue, CompareExchangeWeak, Goto, TypeOK
  <2>2. CASE pc[u] \in {"lockLoad", "lockCAS", "lockReload", "queueCAS"}
    BY <1>2, <2>1, <2>2, Zenon DEF OnTheWay
  <2>3. ASSUME pc[u] = "park", ~shouldPark[u] PROVE OnTheWay(u)'
    <3>1. ~shouldPark'[u]
      BY <1>0, <1>2, <2>3, Zenon DEF Step, lock, LockLoad, LockCAS, LockReload, QueueCAS, Enqueue,
         EnqueueStore, Park, unlock, UnlockLoad, UnlockCAS, DequeueCAS, Dequeue, DequeueStore,
         ClearNode, Wake, Notify, node, TypeOK
    <3> QED BY <1>2, <2>1, <2>3, <3>1, Zenon DEF OnTheWay
  <2>4. ASSUME pc[u] = "park", NEW v \in Threads, queueHead[v] = u, pc[v] \in {"clearNode", "wake"}
        PROVE  OnTheWay(u)'
    <3>1. CASE Wake(t) /\ v = t
      BY <1>0, <1>2, <2>1, <2>4, <3>1, Zenon DEF Wake, TypeOK, OnTheWay
    <3>2. CASE ClearNode(t) /\ v = t
      BY <1>0, <1>2, <2>1, <2>4, <3>2, Zenon DEF ClearNode, Goto, TypeOK, OnTheWay, AboutToWake
    <3>3. CASE v # t
      <4>1. queueHead'[v] = queueHead[v]
        BY <1>0, <3>3, Zenon DEF Step, lock, LockLoad, LockCAS, LockReload, QueueCAS, Enqueue,
           EnqueueStore, Park, unlock, UnlockLoad, UnlockCAS, DequeueCAS, Dequeue, DequeueStore,
           ClearNode, Wake, Notify, TypeOK
      <4> QED BY <1>2, <2>1, <2>4, <3>3, <4>1, Zenon DEF OnTheWay, AboutToWake
    <3>4. v = t => Wake(t) \/ ClearNode(t)
      BY <2>4, Zenon DEF Step, lock, LockLoad, LockCAS, LockReload, QueueCAS, Enqueue, EnqueueStore,
         Park, unlock, UnlockLoad, UnlockCAS, DequeueCAS, Dequeue, DequeueStore, Notify
    <3> QED BY <3>1, <3>2, <3>3, <3>4, Zenon
  <2> QED BY <2>2, <2>3, <2>4, Zenon DEF OnTheWay, AboutToWake
<1> QED BY <1>1, <1>2, Zenon

\* So a free lock with a queue is always attended.
LEMMA AttendedStep == ASSUME IInv, IInv', QInv, Attended, NEW t \in Threads, Step(t)
                      PROVE  Attended'
<1> SUFFICES ASSUME word'.head # Null, ~word'.locked PROVE \E u \in Threads : OnTheWay(u)'
  BY Zenon DEF Attended
<1>1. CASE UNCHANGED word
  BY <1>1, StaysOnTheWay, Zenon DEF Attended
<1>2. CASE DequeueStore(t)
  <2> DEFINE o == queueHead[t]
  <2>1. TypeOK /\ pc[t] = "dequeueStore" /\ pc'[t] = "clearNode" /\ UNCHANGED queueHead
    BY <1>2, Zenon DEF DequeueStore, Goto, IInv, TypeOK
  <2>2. o \in Threads /\ pc[o] = "park" /\ o # t
    <3>1. o # Null /\ o \in Node
      BY <2>1, Zenon DEF QInv, NodesTaken, Unlinking, TypeOK
    <3>2. o \in Threads
      BY <3>1, Zenon DEF Node
    <3> QED BY <3>2, <2>1, Zenon DEF QInv, NodesTaken
  <2>3. pc'[o] = "park"
    BY <1>2, <2>1, <2>2, Zenon DEF DequeueStore, Goto, TypeOK
  <2> QED BY <2>1, <2>2, <2>3, Zenon DEF OnTheWay, AboutToWake
<1> QED BY <1>1, <1>2, WordOfFreeLock, Zenon

\* The three queue properties follow.
LEMMA QueueFacts == IInv /\ QInv /\ Attended => QueueWellFormed /\ NobodyForgotten /\ NodesAlive
<1> SUFFICES ASSUME IInv, QInv, Attended PROVE QueueWellFormed /\ NobodyForgotten /\ NodesAlive
  BY Zenon
<1>0. /\ nextInQueue \in Links /\ word.head \in Node /\ HeadPlace
      /\ \A n : Members(n) = Reach(nextInQueue, n)
  BY HeadFacts, Zenon DEF IInv, TypeOK, Links, Word, Members, Reach
<1>1. QueueWellFormed
  <2>1. ASSUME word.head # Null, ~word.queueLocked
        PROVE  /\ \A t \in Members(word.head) : pc[t] = "park" /\ shouldPark[t]
               /\ queueTail[word.head] \in Members(word.head)
               /\ nextInQueue[queueTail[word.head]] = Null
    <3>1. QueueHolders = {}
      BY <2>1, Zenon DEF IInv, QueueLockNeedsLock
    <3>2. Storing = {}
      BY <3>1, Zenon DEF QueueHolders, Storing
    <3>3. Head = word.head /\ Queue = Members(word.head) /\ Queue \subseteq Threads
      BY <3>2, <1>0, Zenon DEF HeadPlace, Queue, Reach
    <3> QED BY <2>1, <3>2, <3>3, Zenon DEF QInv, ListOfSleepers, Chain, Storing, Queue
  <2> QED BY <2>1, Zenon DEF QueueWellFormed, QInv, SleepersAccounted
<1>2. NobodyForgotten
  <2>0. word.head # Null => Holders # {} \/ \E t \in Threads : OnTheWay(t)
    BY Zenon DEF Attended, IInv, MutualExclusion
  <2> SUFFICES ASSUME NEW t \in Threads, pc[t] = "park", shouldPark[t]
               PROVE  \/ t \in Members(word.head)
                      \/ \E u \in Threads : queueHead[u] = t /\ pc[u] \in {"clearNode", "wake"}
    BY <2>0, Zenon DEF NobodyForgotten, AboutToWake
  <2>1. CASE t \in Queue
    <3>1. CASE Storing = {}
      BY <2>1, <3>1, <1>0, Zenon DEF HeadPlace, Queue
    <3>2. ASSUME NEW v \in Threads, pc[v] = "enqueueStore" PROVE t \in Members(word.head)
      <4>1. CASE word.head # Null
        BY <2>1, <3>2, <4>1, <1>0, Zenon DEF HeadPlace, Queue, QInv, StoresFollowLinks
      <4>2. CASE word.head = Null
        <5>1. Head = v /\ nextInQueue[v] = Null
          BY <3>2, <4>2, <1>0, Zenon DEF HeadPlace, QInv, StoresFollowLinks
        <5>2. Queue = {v}
          <6> DEFINE S == {v}
          <6>1. S \in SUBSET Threads /\ v \in S \cup {Null} /\ \A y \in S : nextInQueue[y] \in S \cup {Null}
            BY <5>1, Zenon
          <6> HIDE DEF S
          <6>2. Reach(nextInQueue, v) \subseteq S
            BY <6>1, ReachLeast, Zenon
          <6> QED BY <6>2, <5>1, <3>2, Zenon DEF S, Queue, QInv, StoresFollowLinks
        <5> QED BY <5>2, <2>1, <3>2, Zenon
      <4> QED BY <4>1, <4>2, Zenon
    <3>3. ASSUME NEW v \in Threads, pc[v] = "dequeueStore" PROVE t \in Members(word.head)
      <4>1. /\ word.head \in Threads /\ Head = nextInQueue[word.head]
        BY <3>3, <1>0 DEF HeadPlace, QInv, StoresFollowLinks, NodesTaken, Unlinking, Node
      <4>2. PICK M : M = Reach(nextInQueue, word.head)
        BY Zenon
      <4>3. /\ M \subseteq Threads /\ word.head \in M
            /\ \A y \in M : nextInQueue[y] \in M \cup {Null}
        BY <4>1, <4>2, <1>0, NullAssumption, ReachClosed, Zenon
      <4>4. Head \in M \cup {Null}
        BY <4>1, <4>3, Zenon
      <4>5. Queue \subseteq M
        BY <4>3, <4>4, ReachLeast, Zenon DEF Queue
      <4> QED BY <2>1, <4>2, <4>5, <1>0, Zenon
    <3> QED BY <3>1, <3>2, <3>3, Zenon DEF Storing
  <2>2. ASSUME NEW u \in Threads, queueHead[u] = t, pc[u] # "notify"
        PROVE  \/ t \in Members(word.head)
               \/ \E v \in Threads : queueHead[v] = t /\ pc[v] \in {"clearNode", "wake"}
    <3>1. pc[u] \in {"dequeueStore", "clearNode", "wake"}
      BY <2>2, NullAssumption, Zenon DEF QInv, NodesTaken, Unlinking
    <3>2. CASE pc[u] = "dequeueStore"
      <4>1. t = word.head /\ t # Null
        BY <2>2, <3>2, NullAssumption, Zenon DEF QInv, StoresFollowLinks
      <4> QED BY <4>1, <1>0, ReachClosed, Zenon
    <3> QED BY <2>2, <3>1, <3>2, Zenon
  <2> QED BY <2>1, <2>2, Zenon DEF QInv, SleepersAccounted
<1>3. NodesAlive
  <2> SUFFICES ASSUME NEW t \in Threads
               PROVE  /\ queueHead[t] # Null => queueHead[t] \in Alive
                      /\ pc[t] \in {"enqueue", "dequeue"} /\ word.head # Null =>
                            Members(word.head) \subseteq Alive
    BY Zenon DEF NodesAlive
  <2>1. queueHead[t] # Null => queueHead[t] \in Alive
    BY Zenon DEF IInv, TypeOK, Node, QInv, NodesTaken, Alive
  <2>2. ASSUME pc[t] \in {"enqueue", "dequeue"} PROVE Members(word.head) \subseteq Alive
    <3>1. Storing = {}
      BY <2>2, Zenon DEF Storing, IInv, QueueLockNeedsLock, QueueHolders
    <3>2. Queue = Members(word.head) /\ Queue \subseteq Threads
      BY <3>1, <1>0, Zenon DEF HeadPlace, Queue, Reach
    <3> QED BY <3>2, Zenon DEF QInv, ListOfSleepers, Alive
  <2> QED BY <2>1, <2>2, Zenon
<1> QED BY <1>1, <1>2, <1>3, Zenon

\* The queue invariant is inductive relative to the first one.
LEMMA QueueInductive == Spec => [](IInv /\ QInv /\ Attended)
<1>1. Init => QInv
  <2> SUFFICES ASSUME Init PROVE QInv
    BY Zenon
  <2>1. Storing = {}
    BY Zenon DEF Init, Storing
  <2>2. Head = Null
    BY <2>1, Zenon DEF Init, Head, Zero
  <2>3. Queue = {}
    BY <2>2, ReachNull, Zenon DEF Queue
  <2>4. ListOfSleepers /\ StoresFollowLinks
    BY <2>2, <2>3, Zenon DEF Init, ListOfSleepers, StoresFollowLinks, Chain
  <2>5. NodesTaken /\ SleepersAccounted
    BY NullAssumption, Zenon DEF Init, NodesTaken, SleepersAccounted, Unlinking
  <2> QED BY <2>4, <2>5, Zenon DEF QInv
<1>2. IInv /\ IInv' /\ QInv /\ [Next]_vars => QInv'
  <2> SUFFICES ASSUME IInv, IInv', QInv, [Next]_vars PROVE QInv'
    BY Zenon
  <2>1. CASE Next
    BY <2>1, QueueStep, Zenon DEF Next
  <2>2. CASE UNCHANGED vars
    BY <2>2, UnchangedQueue, Zenon DEF vars, node
  <2> QED BY <2>1, <2>2, Zenon
<1>3. Init => Attended
  BY WordFacts DEF Init, Attended
<1>4. IInv /\ IInv' /\ QInv /\ Attended /\ [Next]_vars => Attended'
  <2> SUFFICES ASSUME IInv, IInv', QInv, Attended, [Next]_vars PROVE Attended'
    BY Zenon
  <2>1. CASE Next
    BY <2>1, AttendedStep, Zenon DEF Next
  <2>2. CASE UNCHANGED vars
    BY <2>2, Zenon DEF vars, Attended, OnTheWay, AboutToWake
  <2> QED BY <2>1, <2>2, Zenon
<1> QED BY <1>1, <1>2, <1>3, <1>4, Inductive, PTL DEF Spec

\* While nobody changes it, the queue that hangs off m_word holds sleeping
\* threads only and its head knows its last member; a thread that may leave
\* its wait finds its links cleared: the assertions at WordLock.cpp:151-153.
THEOREM QueueKept == Spec => []QueueWellFormed
BY QueueInductive, QueueFacts, PTL

\* Every thread that sleeps in lockSlow is on the queue, or an unlocker has
\* taken it off and is about to wake it; and while there is a queue somebody
\* holds the lock or is on the way to it, so nobody queues up behind a lock
\* that was released in between: no wakeup is lost.
THEOREM NoSleeperLost == Spec => []NobodyForgotten
BY QueueInductive, QueueFacts, PTL

\* An unlocker and the queue's owner touch a ThreadData, a local of lockSlow
\* in another thread, only while that thread is in its scope: the comment at
\* WordLock.cpp:236.
THEOREM NodesInScope == Spec => []NodesAlive
BY QueueInductive, QueueFacts, PTL

=============================================================================

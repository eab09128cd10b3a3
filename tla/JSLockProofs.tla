---------------------------- MODULE JSLockProofs ----------------------------
(***************************************************************************)
(* Proofs for JSLock, for any set of threads and any bounds: the facts     *)
(* about its scopes, the steps that keep the conjuncts of the invariant    *)
(* about the lock and its owner, then the VM, the drops and the            *)
(* microtasks, and the theorems.                                           *)
(***************************************************************************)
EXTENDS JSLockInv, TLAPS

\* A scope that opens is the last one, and the others stay
LEMMA PushFacts ==
    ASSUME NEW q \in Seq(Scopes), NEW x \in Scopes
    PROVE  /\ Append(q, x) \in Seq(Scopes) /\ Len(Append(q, x)) = Len(q) + 1
           /\ Append(q, x)[Len(q) + 1] = x
           /\ \A i \in 1 .. Len(q) : Append(q, x)[i] = q[i]
OBVIOUS

\* The last scope closes, and the others stay
LEMMA PopFacts ==
    ASSUME NEW q \in Seq(Scopes), q # <<>>
    PROVE  /\ SubSeq(q, 1, Len(q) - 1) \in Seq(Scopes)
           /\ Len(SubSeq(q, 1, Len(q) - 1)) = Len(q) - 1
           /\ \A i \in 1 .. Len(q) - 1 : SubSeq(q, 1, Len(q) - 1)[i] = q[i]
<1>1. Len(q) \in Nat \ {0} /\ q \in [1 .. Len(q) -> Scopes]
  OBVIOUS
<1>2. SubSeq(q, 1, Len(q) - 1) \in Seq(Scopes)
  BY <1>1
<1>3. Len(SubSeq(q, 1, Len(q) - 1)) = Len(q) - 1
  BY <1>1
<1>4. \A i \in 1 .. Len(q) - 1 : SubSeq(q, 1, Len(q) - 1)[i] = q[i]
  BY <1>1
<1> QED BY <1>2, <1>3, <1>4, Zenon

\* The scopes of a thread are numbered from one
LEMMA ScopesFacts ==
    ASSUME TypeOK, NEW t \in Threads
    PROVE  DOMAIN scopes[t] = 1 .. Len(scopes[t]) /\ Len(scopes[t]) \in Nat
<1>1. scopes[t] \in Seq(Scopes)
  BY Zenon DEF TypeOK
<1> QED BY <1>1

\* The innermost open scope
LEMMA TopFacts ==
    ASSUME TypeOK, NEW t \in Threads, scopes[t] # <<>>
    PROVE  /\ scopes[t] \in Seq(Scopes) /\ Len(scopes[t]) \in Nat \ {0}
           /\ DOMAIN scopes[t] = 1 .. Len(scopes[t]) /\ Len(scopes[t]) \in DOMAIN scopes[t]
           /\ Top(t) \in Scopes /\ Top(t).count \in Nat /\ Top(t).depth \in Nat
<1>1. scopes[t] \in Seq(Scopes)
  BY Zenon DEF TypeOK
<1>2. Len(scopes[t]) \in Nat \ {0}
  BY <1>1
<1>3. DOMAIN scopes[t] = 1 .. Len(scopes[t]) /\ scopes[t] \in [1 .. Len(scopes[t]) -> Scopes]
  BY <1>1
<1>4. Top(t) \in Scopes
  BY <1>2, <1>3 DEF Top
<1> QED BY <1>1, <1>2, <1>3, <1>4 DEF Scopes

\* A microtask began with one level, which is not its to release
LEMMA OuterFacts ==
    ASSUME IInv, NEW t \in Threads
    PROVE  /\ Outer(t) \in {0, 1}
           /\ InScope(t, "task") => Outer(t) = 1 /\ Top(t).by \in {"unlock", "doWork"}
<1>1. CASE InScope(t, "task")
  <2>1. Len(scopes[t]) \in DOMAIN scopes[t]
    BY <1>1, TopFacts, Zenon DEF IInv, InScope
  <2> QED BY <1>1, <2>1, Zenon DEF IInv, Notes, InScope, Outer, Top
<1>2. CASE ~InScope(t, "task")
  BY <1>2, Zenon DEF Outer
<1> QED BY <1>1, <1>2, Zenon

\* Microtasks are drained with one level held, for unlock or for doWork
LEMMA DrainFacts ==
    ASSUME IInv, NEW t \in Threads, At(t, "drain")
    PROVE  held[t] = 1 /\ op[t] \in {"unlock", "doWork"}
<1>1. op[t] \in {"unlock", "doWork"} /\ count[t] = 1
  BY Zenon DEF IInv, Places, Placed, At
<1> QED BY <1>1, Zenon DEF IInv, Counts, Counted, Owns, At

\* Inside a DropAllLocks the lock is released without draining: dropAllLocks has just raised the
\* depth, and a thread whose turn it is not waits for one that is deeper
LEMMA DropReleases ==
    ASSUME IInv, NEW t \in Threads, dropAllLocks(t)
    PROVE  pc' = [pc EXCEPT ![t] = "willRelease"]
<1>1. m_lockDropDepth' # 0
  BY DEF IInv, TypeOK, dropAllLocks
<1> QED BY <1>1, Zenon DEF dropAllLocks, BeginRelease, Goto

LEMMA TurnReleases ==
    ASSUME IInv, NEW t \in Threads, NotMyTurn(t)
    PROVE  m_lockDropDepth # 0 /\ pc' = [pc EXCEPT ![t] = "willRelease"]
<1>1. InScope(t, "drop")
  BY Zenon DEF IInv, Places, Placed, NotMyTurn, At
<1>2. Len(scopes[t]) \in DOMAIN scopes[t] /\ scopes[t][Len(scopes[t])].kind = "drop"
  BY <1>1, TopFacts, Zenon DEF IInv, InScope
<1>3. scopes[t][Len(scopes[t])].depth \in 1 .. m_lockDropDepth
  BY <1>2, Zenon DEF IInv, DropsInOrder
<1>4. m_lockDropDepth # 0
  BY <1>3
<1> QED BY <1>4, Zenon DEF NotMyTurn, BeginRelease, Goto

\* The two halves of TypeOK: the lock with the VM, and the threads
LockTypes ==
    /\ m_lock \in SUBSET Threads
    /\ m_ownerThread \in Threads \cup {Null} /\ m_hasOwnerThread \in BOOLEAN
    /\ m_lockCount \in Nat /\ m_lockDropDepth \in Nat
    /\ m_entryAtomStringTable \in Threads \cup {VM, Null}
    /\ m_shouldReleaseHeapAccess \in BOOLEAN /\ heapAccess \in BOOLEAN
    /\ m_lastOwnerThread \in Threads \cup {Null}
    /\ stackPointerAtVMEntry \in Threads \cup {Null}
    /\ machineThreads \in SUBSET Threads
    /\ microtasks \in 0 .. enqueued /\ enqueued \in 0 .. MaxMicrotasks

ThreadTypes ==
    /\ atomStringTable \in [Threads -> Threads \cup {VM}]
    /\ savedStackPointerAtVMEntry \in [Threads -> Threads \cup {Null}]
    /\ pc \in [Threads -> {"run", "check", "compare", "block", "own", "acquired",
                           "drain", "willRelease", "unlock", "grab", "yield"}]
    /\ op \in [Threads -> {"none", "lock", "unlock", "doWork", "drop", "grab"}]
    /\ count \in [Threads -> Nat]
    /\ held \in [Threads -> Nat]
    /\ scopes \in [Threads -> Seq(Scopes)]
    /\ made \in [Threads -> 0 .. MaxScopes]

\* The type invariant in two parts: what is there once, and what each thread has
LEMMA Types == TypeOK <=> LockTypes /\ ThreadTypes
BY Zenon DEF TypeOK, LockTypes, ThreadTypes

\* Every step keeps the types of the lock and the VM
LEMMA LockTypeStep ==
    ASSUME IInv, [Next]_vars
    PROVE  LockTypes'
<1> USE DEF At, Goto, Call, Return, owner, state, tasks
<1>1. ASSUME NEW t \in Threads, JSLockHolder(t) PROVE LockTypes'
  BY <1>1, Zenon DEF IInv, TypeOK, LockTypes, JSLockHolder, lock, Mut!Acquire, Make
<1>2. ASSUME NEW t \in Threads, LoadHasOwnerThread(t) PROVE LockTypes'
  BY <1>2, Zenon DEF IInv, TypeOK, LockTypes, LoadHasOwnerThread
<1>3. ASSUME NEW t \in Threads, LoadOwnerThread(t) PROVE LockTypes'
  BY <1>3, Zenon DEF IInv, TypeOK, LockTypes, LoadOwnerThread
<1>4. ASSUME NEW t \in Threads, LockAgain(t) PROVE LockTypes'
  BY <1>4 DEF IInv, TypeOK, LockTypes, LockAgain, Holding
<1>5. ASSUME NEW t \in Threads, BlockingLock(t) PROVE LockTypes'
  BY <1>5, Zenon DEF IInv, TypeOK, LockTypes, BlockingLock, Mut!Acquire
<1>6. ASSUME NEW t \in Threads, SetOwnerThread(t) PROVE LockTypes'
  BY <1>6, Zenon DEF IInv, TypeOK, LockTypes, SetOwnerThread
<1>7. ASSUME NEW t \in Threads, SetHasOwnerThread(t) PROVE LockTypes'
  BY <1>7, Zenon DEF IInv, TypeOK, LockTypes, SetHasOwnerThread, didAcquireLock
<1>8. ASSUME NEW t \in Threads, UnlockOne(t) PROVE LockTypes'
  <2>1. m_lockCount \in Nat \ {0}
    BY <1>8, OuterFacts, SMTT(20) DEF IInv, TypeOK, Holding, Counts, Counted, Places, Placed,
       Owns, currentThreadIsHoldingLock, UnlockOne, Outer
  <2> QED BY <1>8, <2>1 DEF IInv, TypeOK, LockTypes, UnlockOne, Outer
<1>9. ASSUME NEW t \in Threads, UnlockLast(t) PROVE LockTypes'
  BY <1>9, Zenon DEF IInv, TypeOK, LockTypes, UnlockLast, BeginRelease, Outer
<1>10. ASSUME NEW t \in Threads, RunMicrotask(t) PROVE LockTypes'
  BY <1>10 DEF IInv, TypeOK, LockTypes, RunMicrotask
<1>11. ASSUME NEW t \in Threads, MicrotaskEnds(t) PROVE LockTypes'
  BY <1>11, Zenon DEF IInv, TypeOK, LockTypes, MicrotaskEnds
<1>12. ASSUME NEW t \in Threads, Drained(t) PROVE LockTypes'
  BY <1>12, Zenon DEF IInv, TypeOK, LockTypes, Drained
<1>13. ASSUME NEW t \in Threads, willReleaseLock(t) PROVE LockTypes'
  <2>1. m_lockCount - count[t] \in Nat
    BY <1>13 DEF IInv, TypeOK, Holding, Counts, Counted, Places, Placed, Owns,
       currentThreadIsHoldingLock, willReleaseLock
  <2> QED BY <1>13, <2>1, Zenon DEF IInv, TypeOK, LockTypes, willReleaseLock
<1>14. ASSUME NEW t \in Threads, Unlock(t) PROVE LockTypes'
  BY <1>14, Zenon DEF IInv, TypeOK, LockTypes, Unlock, Mut!Release
<1>15. ASSUME NEW t \in Threads, dropAllLocks(t) PROVE LockTypes'
  BY <1>15 DEF IInv, TypeOK, LockTypes, dropAllLocks, Make
<1>16. ASSUME NEW t \in Threads, grabAllLocks(t) PROVE LockTypes'
  BY <1>16, Zenon DEF IInv, TypeOK, LockTypes, grabAllLocks, lock, Mut!Acquire
<1>17. ASSUME NEW t \in Threads, NotMyTurn(t) PROVE LockTypes'
  BY <1>17, Zenon DEF IInv, TypeOK, LockTypes, NotMyTurn
<1>18. ASSUME NEW t \in Threads, TryAgain(t) PROVE LockTypes'
  BY <1>18, Zenon DEF IInv, TypeOK, LockTypes, TryAgain, lock, Mut!Acquire
<1>19. ASSUME NEW t \in Threads, Grabbed(t) PROVE LockTypes'
  <2>1. m_lockDropDepth - 1 \in Nat /\ savedStackPointerAtVMEntry[t] \in Threads \cup {Null}
    BY <1>19 DEF IInv, TypeOK, Places, Placed, InScope, Top, DropsInOrder, Grabbed
  <2> QED BY <1>19, <2>1, Zenon DEF IInv, TypeOK, LockTypes, Grabbed
<1>20. ASSUME NEW t \in Threads, queueMicrotask(t) PROVE LockTypes'
  <2>1. microtasks + 1 \in 0 .. enqueued + 1 /\ enqueued + 1 \in 0 .. MaxMicrotasks
    BY <1>20, BoundsAssumption DEF IInv, TypeOK, LockTypes, queueMicrotask
  <2> QED BY <1>20, <2>1, Zenon DEF IInv, TypeOK, LockTypes, queueMicrotask
<1>21. CASE UNCHANGED vars
  BY <1>21, Zenon DEF IInv, TypeOK, LockTypes, vars
<1>22. ASSUME NEW t \in Threads, doWork(t) PROVE LockTypes'
  BY <1>22, Zenon DEF IInv, TypeOK, LockTypes, doWork
<1>23. ASSUME NEW t \in Threads, WorkDone(t) PROVE LockTypes'
  BY <1>23, Zenon DEF IInv, TypeOK, LockTypes, WorkDone
<1> HIDE DEF LockTypes
<1> QED BY <1>1, <1>2, <1>3, <1>4, <1>5, <1>6, <1>7, <1>8, <1>9, <1>10, <1>11, <1>12, <1>13,
   <1>14, <1>15, <1>16, <1>17, <1>18, <1>19, <1>20, <1>21, <1>22, <1>23, Zenon
   DEF Next, Proceed, Leave

\* Every step keeps the types of the threads
LEMMA ThreadTypeStep ==
    ASSUME IInv, [Next]_vars
    PROVE  ThreadTypes'
<1> USE DEF At, Goto, Call, Return, owner, state, tasks
<1>1. ASSUME NEW t \in Threads, JSLockHolder(t) PROVE ThreadTypes'
  <2>1. made[t] + 1 \in 0 .. MaxScopes
    <3>1. made[t] \in 0 .. MaxScopes
      BY Zenon DEF IInv, TypeOK
    <3>2. made[t] < MaxScopes
      BY <1>1, Zenon DEF JSLockHolder, Make
    <3> QED BY <3>1, <3>2, BoundsAssumption
  <2> QED BY <1>1, <2>1, Zenon DEF IInv, TypeOK, ThreadTypes, JSLockHolder, lock, Mut!Acquire, Make
<1>2. ASSUME NEW t \in Threads, LoadHasOwnerThread(t) PROVE ThreadTypes'
  BY <1>2, Zenon DEF IInv, TypeOK, ThreadTypes, LoadHasOwnerThread
<1>3. ASSUME NEW t \in Threads, LoadOwnerThread(t) PROVE ThreadTypes'
  BY <1>3, Zenon DEF IInv, TypeOK, ThreadTypes, LoadOwnerThread
<1>4. ASSUME NEW t \in Threads, LockAgain(t) PROVE ThreadTypes'
  <2>1. held[t] + count[t] \in Nat
    BY <1>4 DEF IInv, TypeOK, LockAgain, LockAgain
  <2> QED BY <1>4, <2>1, Zenon DEF IInv, TypeOK, ThreadTypes, LockAgain
<1>5. ASSUME NEW t \in Threads, BlockingLock(t) PROVE ThreadTypes'
  BY <1>5, Zenon DEF IInv, TypeOK, ThreadTypes, BlockingLock, Mut!Acquire
<1>6. ASSUME NEW t \in Threads, SetOwnerThread(t) PROVE ThreadTypes'
  BY <1>6, Zenon DEF IInv, TypeOK, ThreadTypes, SetOwnerThread
<1>7. ASSUME NEW t \in Threads, SetHasOwnerThread(t) PROVE ThreadTypes'
  <2>1. CASE op[t] = "grab"
    BY <1>7, <2>1, Zenon DEF IInv, TypeOK, ThreadTypes, SetHasOwnerThread, didAcquireLock
  <2>2. CASE op[t] # "grab"
    <3>1. Return(t) /\ held' = [held EXCEPT ![t] = count[t]]
      BY <1>7, <2>2, Zenon DEF SetHasOwnerThread
    <3>2. atomStringTable' \in [Threads -> Threads \cup {VM}]
      BY <1>7, Zenon DEF IInv, TypeOK, SetHasOwnerThread, didAcquireLock
    <3> QED BY <1>7, <2>2, <3>1, <3>2, Zenon DEF IInv, TypeOK, ThreadTypes, SetHasOwnerThread
  <2> QED BY <2>1, <2>2, Zenon
<1>8. ASSUME NEW t \in Threads, UnlockOne(t) PROVE ThreadTypes'
  <2>1. Outer(t) \in Nat
    BY OuterFacts
  <2>2. held[t] - 1 \in Nat
    BY <1>8, <2>1 DEF IInv, TypeOK, UnlockOne
  <2> QED BY <1>8, <2>2, Zenon DEF IInv, TypeOK, ThreadTypes, UnlockOne
<1>9. ASSUME NEW t \in Threads, UnlockLast(t) PROVE ThreadTypes'
  BY <1>9, Zenon DEF IInv, TypeOK, ThreadTypes, UnlockLast, BeginRelease, Outer
<1>10. ASSUME NEW t \in Threads, RunMicrotask(t) PROVE ThreadTypes'
  <2>1. /\ scopes[t] \in Seq(Scopes)
        /\ [kind |-> "task", by |-> op[t], count |-> held[t], depth |-> m_lockDropDepth] \in Scopes
    BY <1>10, DrainFacts, Zenon DEF IInv, TypeOK, Scopes, RunMicrotask
  <2> QED BY <1>10, <2>1, PushFacts, Zenon DEF IInv, TypeOK, ThreadTypes, RunMicrotask, Push
<1>11. ASSUME NEW t \in Threads, MicrotaskEnds(t) PROVE ThreadTypes'
  <2>1. scopes[t] \in Seq(Scopes) /\ scopes[t] # <<>>
    BY <1>11, Zenon DEF IInv, TypeOK, Places, Placed, InScope, MicrotaskEnds
  <2>2. Top(t).by \in {"unlock", "doWork"}
    BY <1>11, OuterFacts, Zenon DEF MicrotaskEnds
  <2> QED BY <1>11, <2>1, <2>2, PopFacts, Zenon DEF IInv, TypeOK, ThreadTypes, MicrotaskEnds, Pop
<1>12. ASSUME NEW t \in Threads, Drained(t) PROVE ThreadTypes'
  BY <1>12, Zenon DEF IInv, TypeOK, ThreadTypes, Drained
<1>13. ASSUME NEW t \in Threads, willReleaseLock(t) PROVE ThreadTypes'
  <2>1. m_entryAtomStringTable \in Threads
    BY <1>13 DEF IInv, TypeOK, Holding, Counts, Counted, Places, Placed, Owns,
       currentThreadIsHoldingLock, VMState, willReleaseLock
  <2> QED BY <1>13, <2>1, Zenon DEF IInv, TypeOK, ThreadTypes, willReleaseLock
<1>14. ASSUME NEW t \in Threads, Unlock(t) PROVE ThreadTypes'
  <2>1. made' \in [Threads -> 0 .. MaxScopes]
    BY <1>14, BoundsAssumption DEF IInv, TypeOK, Unlock
  <2>2. held' \in [Threads -> Nat]
    BY <1>14 DEF IInv, TypeOK, Counts, Counted, Unlock
  <2>3. CASE op[t] = "grab"
    BY <1>14, <2>1, <2>2, <2>3, Zenon DEF IInv, TypeOK, ThreadTypes, Unlock
  <2>4. CASE op[t] # "grab"
    <3>1. Return(t)
      BY <1>14, <2>4, Zenon DEF Unlock
    <3> QED BY <1>14, <2>1, <2>2, <2>4, <3>1, Zenon DEF IInv, TypeOK, ThreadTypes, Unlock
  <2> QED BY <2>3, <2>4, Zenon
<1>15. ASSUME NEW t \in Threads, dropAllLocks(t) PROVE ThreadTypes'
  <2>1. /\ scopes[t] \in Seq(Scopes)
        /\ [kind |-> "drop", by |-> "drop", count |-> m_lockCount, depth |-> m_lockDropDepth + 1]
               \in Scopes
    BY <1>15 DEF IInv, TypeOK, Scopes
  <2>2. made[t] + 1 \in 0 .. MaxScopes
    BY <1>15, BoundsAssumption, SMTT(20) DEF IInv, TypeOK, dropAllLocks, Make
  <2>3. scopes' \in [Threads -> Seq(Scopes)]
    BY <1>15, <2>1, PushFacts, Zenon DEF IInv, TypeOK, dropAllLocks, Push
  <2> QED BY <1>15, DropReleases, <2>2, <2>3, Zenon DEF IInv, TypeOK, ThreadTypes, dropAllLocks, Make
<1>16. ASSUME NEW t \in Threads, grabAllLocks(t) PROVE ThreadTypes'
  <2>1. Top(t).count \in Nat
    BY <1>16, TopFacts, Zenon DEF IInv, grabAllLocks, InScope
  <2> QED BY <1>16, <2>1, Zenon DEF IInv, TypeOK, ThreadTypes, grabAllLocks, lock, Mut!Acquire
<1>17. ASSUME NEW t \in Threads, NotMyTurn(t) PROVE ThreadTypes'
  BY <1>17, TurnReleases, Zenon DEF IInv, TypeOK, ThreadTypes, NotMyTurn
<1>18. ASSUME NEW t \in Threads, TryAgain(t) PROVE ThreadTypes'
  BY <1>18, Zenon DEF IInv, TypeOK, ThreadTypes, TryAgain, lock, Mut!Acquire
<1>19. ASSUME NEW t \in Threads, Grabbed(t) PROVE ThreadTypes'
  <2>1. scopes[t] \in Seq(Scopes) /\ scopes[t] # <<>>
    BY <1>19, Zenon DEF IInv, TypeOK, Places, Placed, InScope, Grabbed
  <2> QED BY <1>19, <2>1, PopFacts, Zenon DEF IInv, TypeOK, ThreadTypes, Grabbed, Pop
<1>20. ASSUME NEW t \in Threads, queueMicrotask(t) PROVE ThreadTypes'
  BY <1>20, Zenon DEF IInv, TypeOK, ThreadTypes, queueMicrotask
<1>21. CASE UNCHANGED vars
  BY <1>21, Zenon DEF IInv, TypeOK, ThreadTypes, vars
<1>22. ASSUME NEW t \in Threads, doWork(t) PROVE ThreadTypes'
  <2>1. made[t] + 1 \in 0 .. MaxScopes
    BY <1>22, BoundsAssumption, SMTT(20) DEF IInv, TypeOK, doWork, Make
  <2> QED BY <1>22, <2>1, Zenon DEF IInv, TypeOK, ThreadTypes, doWork, Make
<1>23. ASSUME NEW t \in Threads, WorkDone(t) PROVE ThreadTypes'
  BY <1>23, Zenon DEF IInv, TypeOK, ThreadTypes, WorkDone
<1> HIDE DEF ThreadTypes
<1> QED BY <1>1, <1>2, <1>3, <1>4, <1>5, <1>6, <1>7, <1>8, <1>9, <1>10, <1>11, <1>12, <1>13,
   <1>14, <1>15, <1>16, <1>17, <1>18, <1>19, <1>20, <1>21, <1>22, <1>23, Zenon
   DEF Next, Proceed, Leave

\* Every step keeps m_lock and the mark of the owner together
LEMMA HoldingStep ==
    ASSUME IInv, [Next]_vars
    PROVE  Holding'
<1> USE DEF At, Goto, Call, Return, owner, state, tasks, Has, Owns, currentThreadIsHoldingLock
<1>types. /\ pc \in [Threads -> {"run", "check", "compare", "block", "own", "acquired",
                               "drain", "willRelease", "unlock", "grab", "yield"}]
          /\ op \in [Threads -> {"none", "lock", "unlock", "doWork", "drop", "grab"}]
          /\ count \in [Threads -> Nat] /\ held \in [Threads -> Nat] /\ m_lockCount \in Nat
  BY Zenon DEF IInv, TypeOK
<1>1. ASSUME NEW t \in Threads, JSLockHolder(t) PROVE Holding'
  BY <1>types, <1>1 DEF IInv, Holding, JSLockHolder, lock, Mut!Acquire, Make
<1>2. ASSUME NEW t \in Threads, LoadHasOwnerThread(t) PROVE Holding'
  BY <1>types, <1>2 DEF IInv, Holding, LoadHasOwnerThread
<1>3. ASSUME NEW t \in Threads, LoadOwnerThread(t) PROVE Holding'
  BY <1>types, <1>3, Zenon DEF IInv, Holding, LoadOwnerThread
<1>4. ASSUME NEW t \in Threads, LockAgain(t) PROVE Holding'
  BY <1>types, <1>4 DEF IInv, Holding, LockAgain, Counts, Counted, Places, Placed
<1>5. ASSUME NEW t \in Threads, BlockingLock(t) PROVE Holding'
  BY <1>types, <1>5, Zenon DEF IInv, Holding, BlockingLock, Mut!Acquire
<1>6. ASSUME NEW t \in Threads, SetOwnerThread(t) PROVE Holding'
  BY <1>types, <1>6 DEF IInv, Holding, SetOwnerThread
<1>7. ASSUME NEW t \in Threads, SetHasOwnerThread(t) PROVE Holding'
  <2>1. CASE op[t] = "grab"
    <3>1. Goto(t, "grab") /\ UNCHANGED <<op, count>> /\ held' = held
      BY <1>7, <2>1, Zenon DEF SetHasOwnerThread
    <3> QED BY <1>types, <1>7, <2>1, <3>1 DEF IInv, Holding, Counts, Counted, Places, Placed,
       SetHasOwnerThread, didAcquireLock
  <2>2. CASE op[t] # "grab"
    <3>1. Return(t) /\ held' = [held EXCEPT ![t] = count[t]]
      BY <1>7, <2>2, Zenon DEF SetHasOwnerThread
    <3> QED BY <1>types, <1>7, <2>2, <3>1 DEF IInv, Holding, Counts, Counted, Places, Placed,
       SetHasOwnerThread, didAcquireLock
  <2> QED BY <2>1, <2>2, Zenon
<1>8. ASSUME NEW t \in Threads, UnlockOne(t) PROVE Holding'
  <2>1. held[t] > 1
    BY <1>types, <1>8, OuterFacts DEF IInv, Counts, Counted, Places, Placed, UnlockOne
  <2> QED BY <1>types, <1>8, <2>1 DEF IInv, Holding, UnlockOne
<1>9. ASSUME NEW t \in Threads, UnlockLast(t) PROVE Holding'
  <2>1. held[t] = 1
    BY <1>types, <1>9, OuterFacts DEF IInv, Counts, Counted, Places, Placed, UnlockLast, BeginRelease
  <2> QED BY <1>types, <1>9, <2>1 DEF IInv, Holding, UnlockLast, BeginRelease
<1>10. ASSUME NEW t \in Threads, RunMicrotask(t) PROVE Holding'
  <2>1. held[t] = 1
    BY <1>types, <1>10, Zenon DEF IInv, Counts, Counted, Places, Placed, RunMicrotask
  <2> QED BY <1>types, <1>10, <2>1 DEF IInv, Holding, RunMicrotask
<1>11. ASSUME NEW t \in Threads, MicrotaskEnds(t) PROVE Holding'
  <2>1. held[t] = 1
    BY <1>types, <1>11, OuterFacts, Zenon DEF IInv, Counts, Counted, Places, Placed, MicrotaskEnds
  <2> QED BY <1>types, <1>11, <2>1 DEF IInv, Holding, MicrotaskEnds
<1>12. ASSUME NEW t \in Threads, Drained(t) PROVE Holding'
  BY <1>types, <1>12 DEF IInv, Holding, Drained
<1>13. ASSUME NEW t \in Threads, willReleaseLock(t) PROVE Holding'
  BY <1>types, <1>13 DEF IInv, Holding, willReleaseLock
<1>14. ASSUME NEW t \in Threads, Unlock(t) PROVE Holding'
  <2>1. CASE op[t] = "grab"
    <3>1. Goto(t, "yield") /\ UNCHANGED <<op, count>>
      BY <1>14, <2>1, Zenon DEF Unlock
    <3> QED BY <1>types, <1>14, <2>1, <3>1, SMTT(20) DEF IInv, Holding, Counts, Counted, Places,
       Placed, Unlock, Mut!Release
  <2>2. CASE op[t] # "grab"
    <3>1. Return(t)
      BY <1>14, <2>2, Zenon DEF Unlock
    <3> QED BY <1>types, <1>14, <2>2, <3>1, SMTT(20) DEF IInv, Holding, Counts, Counted, Places,
       Placed, Unlock, Mut!Release
  <2> QED BY <2>1, <2>2, Zenon
<1>15. ASSUME NEW t \in Threads, dropAllLocks(t) PROVE Holding'
  <2>1. pc' = [pc EXCEPT ![t] = "willRelease"]
    BY <1>15, DropReleases, Zenon
  <2> QED BY <1>types, <1>15, <2>1 DEF IInv, Holding, dropAllLocks
<1>16. ASSUME NEW t \in Threads, grabAllLocks(t) PROVE Holding'
  BY <1>types, <1>16, SMTT(20) DEF IInv, Holding, grabAllLocks, lock, Mut!Acquire, Counts,
     Counted, Places, Placed
<1>17. ASSUME NEW t \in Threads, NotMyTurn(t) PROVE Holding'
  BY <1>types, <1>17, TurnReleases DEF IInv, Holding, NotMyTurn
<1>18. ASSUME NEW t \in Threads, TryAgain(t) PROVE Holding'
  BY <1>types, <1>18, SMTT(20) DEF IInv, Holding, TryAgain, lock, Mut!Acquire, Counts, Counted,
     Places, Placed
<1>19. ASSUME NEW t \in Threads, Grabbed(t) PROVE Holding'
  BY <1>types, <1>19, SMTT(20) DEF IInv, Holding, Grabbed, Counts, Counted, Places, Placed
<1>20. ASSUME NEW t \in Threads, queueMicrotask(t) PROVE Holding'
  BY <1>types, <1>20, Zenon DEF IInv, Holding, queueMicrotask
<1>21. CASE UNCHANGED vars
  BY <1>21, Zenon DEF IInv, Holding, vars
<1>22. ASSUME NEW t \in Threads, doWork(t) PROVE Holding'
  BY <1>types, <1>22 DEF IInv, Holding, doWork
<1>23. ASSUME NEW t \in Threads, WorkDone(t) PROVE Holding'
  <2>1. held[t] = 1
    BY <1>23, DrainFacts, Zenon DEF WorkDone
  <2> QED BY <1>types, <1>23, <2>1 DEF IInv, Holding, WorkDone
<1> HIDE DEF Holding
<1> QED BY <1>1, <1>2, <1>3, <1>4, <1>5, <1>6, <1>7, <1>8, <1>9, <1>10, <1>11, <1>12, <1>13,
   <1>14, <1>15, <1>16, <1>17, <1>18, <1>19, <1>20, <1>21, <1>22, <1>23, Zenon
   DEF Next, Proceed, Leave

\* Every step keeps the count of levels
LEMMA CountsStep ==
    ASSUME IInv, [Next]_vars
    PROVE  Counts'
<1> USE DEF At, Goto, Call, Return, owner, state, tasks, Has, Owns, currentThreadIsHoldingLock
<1>types. /\ pc \in [Threads -> {"run", "check", "compare", "block", "own", "acquired",
                               "drain", "willRelease", "unlock", "grab", "yield"}]
          /\ op \in [Threads -> {"none", "lock", "unlock", "doWork", "drop", "grab"}]
          /\ count \in [Threads -> Nat] /\ held \in [Threads -> Nat] /\ m_lockCount \in Nat
  BY Zenon DEF IInv, TypeOK
<1>1. ASSUME NEW t \in Threads, JSLockHolder(t) PROVE Counts'
  BY <1>types, <1>1 DEF IInv, Holding, Counts, Counted, Places, Placed, JSLockHolder, lock,
     Mut!Acquire, Make
<1>2. ASSUME NEW t \in Threads, LoadHasOwnerThread(t) PROVE Counts'
  BY <1>types, <1>2 DEF IInv, Holding, Counts, Counted, Places, Placed, LoadHasOwnerThread
<1>3. ASSUME NEW t \in Threads, LoadOwnerThread(t) PROVE Counts'
  BY <1>types, <1>3 DEF IInv, Holding, Counts, Counted, Places, Placed, LoadOwnerThread
<1>4. ASSUME NEW t \in Threads, LockAgain(t) PROVE Counts'
  BY <1>types, <1>4 DEF IInv, Holding, Counts, Counted, Places, Placed, LockAgain
<1>5. ASSUME NEW t \in Threads, BlockingLock(t) PROVE Counts'
  BY <1>types, <1>5 DEF IInv, Holding, Counts, Counted, Places, Placed, BlockingLock, Mut!Acquire
<1>6. ASSUME NEW t \in Threads, SetOwnerThread(t) PROVE Counts'
  BY <1>types, <1>6, SMTT(20) DEF IInv, Holding, Counts, Counted, Places, Placed, SetOwnerThread
<1>7. ASSUME NEW t \in Threads, SetHasOwnerThread(t) PROVE Counts'
  <2>1. CASE op[t] = "grab"
    <3>1. Goto(t, "grab") /\ UNCHANGED <<op, count>> /\ held' = held
      BY <1>7, <2>1, Zenon DEF SetHasOwnerThread
    <3> QED BY <1>types, <1>7, <2>1, <3>1, SMTT(20) DEF IInv, Holding, Counts, Counted, Places,
       Placed, SetHasOwnerThread, didAcquireLock
  <2>2. CASE op[t] # "grab"
    <3>1. Return(t) /\ held' = [held EXCEPT ![t] = count[t]]
      BY <1>7, <2>2, Zenon DEF SetHasOwnerThread
    <3> QED BY <1>types, <1>7, <2>2, <3>1, SMTT(20) DEF IInv, Holding, Counts, Counted, Places,
       Placed, SetHasOwnerThread, didAcquireLock
  <2> QED BY <2>1, <2>2, Zenon
<1>8. ASSUME NEW t \in Threads, UnlockOne(t) PROVE Counts'
  <2>1. held[t] > 1
    BY <1>types, <1>8, OuterFacts DEF IInv, Counts, Counted, Places, Placed, UnlockOne
  <2> QED BY <1>types, <1>8, <2>1, SMTT(20) DEF IInv, Holding, Counts, Counted, Places, Placed,
     UnlockOne
<1>9. ASSUME NEW t \in Threads, UnlockLast(t) PROVE Counts'
  <2>1. held[t] = 1
    BY <1>types, <1>9, OuterFacts DEF IInv, Counts, Counted, Places, Placed, UnlockLast, BeginRelease
  <2> QED BY <1>types, <1>9, <2>1, SMTT(20) DEF IInv, Holding, Counts, Counted, Places, Placed,
     UnlockLast, BeginRelease
<1>10. ASSUME NEW t \in Threads, RunMicrotask(t) PROVE Counts'
  <2>1. held[t] = 1
    BY <1>types, <1>10, Zenon DEF IInv, Counts, Counted, Places, Placed, RunMicrotask
  <2> QED BY <1>types, <1>10, <2>1, SMTT(20) DEF IInv, Holding, Counts, Counted, Places, Placed,
     RunMicrotask
<1>11. ASSUME NEW t \in Threads, MicrotaskEnds(t) PROVE Counts'
  <2>1. held[t] = 1
    BY <1>types, <1>11, OuterFacts, Zenon DEF IInv, Counts, Counted, Places, Placed, MicrotaskEnds
  <2>2. Top(t).by \in {"unlock", "doWork"} /\ m_lockCount = 1
    BY <1>types, <1>11, <2>1, OuterFacts DEF IInv, Counts, Counted, Places, Placed, MicrotaskEnds
  <2> QED BY <1>types, <1>11, <2>1, <2>2, SMTT(20) DEF IInv, Holding, Counts, Counted, Places,
     Placed, MicrotaskEnds
<1>12. ASSUME NEW t \in Threads, Drained(t) PROVE Counts'
  BY <1>types, <1>12, SMTT(20) DEF IInv, Holding, Counts, Counted, Places, Placed, Drained
<1>13. ASSUME NEW t \in Threads, willReleaseLock(t) PROVE Counts'
  BY <1>types, <1>13 DEF IInv, Holding, Counts, Counted, Places, Placed, willReleaseLock
<1>14. ASSUME NEW t \in Threads, Unlock(t) PROVE Counts'
  <2>1. pc[t] = "unlock" /\ held'[t] = IF op[t] = "unlock" THEN held[t] - 1 ELSE 0
    BY <1>types, <1>14, Zenon DEF Unlock
  <2>2. held'[t] = 0
    BY <1>types, <2>1 DEF IInv, Counts, Counted
  <2>3. pc'[t] \in {"run", "yield"}
    BY <1>types, <1>14, Zenon DEF Unlock
  <2>4. Counted(t)'
    BY <2>2, <2>3 DEF Counted
  <2>5. ASSUME NEW u \in Threads \ {t} PROVE Counted(u)'
    <3>1. /\ pc'[u] = pc[u] /\ op'[u] = op[u] /\ count'[u] = count[u] /\ held'[u] = held[u]
          /\ m_lockCount' = m_lockCount
      BY <1>types, <1>14, Zenon DEF Unlock
    <3> QED BY <3>1, Zenon DEF IInv, Counts, Counted
  <2> QED BY <2>4, <2>5, Zenon DEF Counts
<1>15. ASSUME NEW t \in Threads, dropAllLocks(t) PROVE Counts'
  <2>1. pc' = [pc EXCEPT ![t] = "willRelease"]
    BY <1>15, DropReleases, Zenon
  <2> QED BY <1>types, <1>15, <2>1, SMTT(20) DEF IInv, Holding, Counts, Counted, Places, Placed,
     dropAllLocks
<1>16. ASSUME NEW t \in Threads, grabAllLocks(t) PROVE Counts'
  BY <1>types, <1>16, SMTT(20) DEF IInv, Holding, Counts, Counted, Places, Placed, grabAllLocks,
     lock, Mut!Acquire
<1>17. ASSUME NEW t \in Threads, NotMyTurn(t) PROVE Counts'
  BY <1>types, <1>17, TurnReleases, SMTT(20) DEF IInv, Holding, Counts, Counted, Places,
     Placed, NotMyTurn
<1>18. ASSUME NEW t \in Threads, TryAgain(t) PROVE Counts'
  BY <1>types, <1>18, SMTT(20) DEF IInv, Holding, Counts, Counted, Places, Placed, TryAgain,
     lock, Mut!Acquire
<1>19. ASSUME NEW t \in Threads, Grabbed(t) PROVE Counts'
  BY <1>types, <1>19, SMTT(20) DEF IInv, Holding, Counts, Counted, Places, Placed, Grabbed
<1>20. ASSUME NEW t \in Threads, queueMicrotask(t) PROVE Counts'
  BY <1>types, <1>20, SMTT(20) DEF IInv, Holding, Counts, Counted, Places, Placed, queueMicrotask
<1>21. CASE UNCHANGED vars
  BY <1>21, Zenon DEF IInv, Holding, Counts, Counted, Places, Placed, vars
<1>22. ASSUME NEW t \in Threads, doWork(t) PROVE Counts'
  BY <1>types, <1>22, SMTT(20) DEF IInv, Holding, Counts, Counted, Places, Placed, doWork
<1>23. ASSUME NEW t \in Threads, WorkDone(t) PROVE Counts'
  <2>1. held[t] = 1
    BY <1>23, DrainFacts, Zenon DEF WorkDone
  <2> QED BY <1>types, <1>23, <2>1, SMTT(20) DEF IInv, Holding, Counts, Counted, Places, Placed,
     WorkDone
<1> HIDE DEF Counts
<1> QED BY <1>1, <1>2, <1>3, <1>4, <1>5, <1>6, <1>7, <1>8, <1>9, <1>10, <1>11, <1>12, <1>13,
   <1>14, <1>15, <1>16, <1>17, <1>18, <1>19, <1>20, <1>21, <1>22, <1>23, Zenon
   DEF Next, Proceed, Leave

\* What opening and closing a scope does to the scopes of all threads
LEMMA Pushed ==
    ASSUME TypeOK, NEW t \in Threads, NEW x \in Scopes, Push(t, x)
    PROVE  /\ Len(scopes[t]) \in Nat /\ Len(scopes'[t]) = Len(scopes[t]) + 1
           /\ \A u \in Threads \ {t} : scopes'[u] = scopes[u]
           /\ \A u \in Threads : \A i \in DOMAIN scopes[u] :
                  i \in DOMAIN scopes'[u] /\ scopes'[u][i] = scopes[u][i]
           /\ \A u \in Threads : \A i \in DOMAIN scopes'[u] :
                  \/ i \in DOMAIN scopes[u]
                  \/ u = t /\ i = Len(scopes[t]) + 1
           /\ Len(scopes[t]) + 1 \in DOMAIN scopes'[t] \ DOMAIN scopes[t]
           /\ scopes'[t][Len(scopes[t]) + 1] = x
<1>1. scopes[t] \in Seq(Scopes) /\ scopes'[t] = Append(scopes[t], x)
      /\ \A u \in Threads \ {t} : scopes'[u] = scopes[u]
  BY Zenon DEF TypeOK, Push
<1>2. /\ Len(scopes[t]) \in Nat /\ DOMAIN scopes[t] = 1 .. Len(scopes[t])
      /\ DOMAIN scopes'[t] = 1 .. Len(scopes[t]) + 1
  BY <1>1
<1>3. \A i \in DOMAIN scopes[t] : scopes'[t][i] = scopes[t][i]
  <2>1. \A i \in 1 .. Len(scopes[t]) : Append(scopes[t], x)[i] = scopes[t][i]
    BY <1>1, PushFacts, Zenon
  <2> QED BY <1>1, <1>2, <2>1, Zenon
<1>4. Len(scopes'[t]) = Len(scopes[t]) + 1 /\ scopes'[t][Len(scopes[t]) + 1] = x
  BY <1>1, PushFacts
<1>5. \A u \in Threads : \A i \in DOMAIN scopes[u] :
          i \in DOMAIN scopes'[u] /\ scopes'[u][i] = scopes[u][i]
  BY <1>1, <1>2, <1>3
<1>6. \A u \in Threads : \A i \in DOMAIN scopes'[u] :
          i \in DOMAIN scopes[u] \/ (u = t /\ i = Len(scopes[t]) + 1)
  BY <1>1, <1>2
<1> QED BY <1>1, <1>2, <1>4, <1>5, <1>6

\* What leaving the innermost scope does (the end of a microtask, grabAllLocks)
LEMMA Popped ==
    ASSUME TypeOK, NEW t \in Threads, scopes[t] # <<>>, Pop(t)
    PROVE  /\ Len(scopes[t]) \in Nat \ {0} /\ Len(scopes'[t]) = Len(scopes[t]) - 1
           /\ \A u \in Threads \ {t} : scopes'[u] = scopes[u]
           /\ \A u \in Threads : \A i \in DOMAIN scopes'[u] :
                  i \in DOMAIN scopes[u] /\ scopes'[u][i] = scopes[u][i]
           /\ \A u \in Threads : \A i \in DOMAIN scopes[u] :
                  \/ i \in DOMAIN scopes'[u]
                  \/ u = t /\ i = Len(scopes[t])
           /\ Len(scopes[t]) \in DOMAIN scopes[t] \ DOMAIN scopes'[t]
<1>1. scopes[t] \in Seq(Scopes)
      /\ scopes'[t] = SubSeq(scopes[t], 1, Len(scopes[t]) - 1)
      /\ \A u \in Threads \ {t} : scopes'[u] = scopes[u]
  BY Zenon DEF TypeOK, Pop
<1>2. /\ Len(scopes[t]) \in Nat \ {0} /\ DOMAIN scopes[t] = 1 .. Len(scopes[t])
  BY TopFacts, Zenon
<1>3. Len(scopes'[t]) = Len(scopes[t]) - 1 /\ scopes'[t] \in Seq(Scopes)
  BY <1>1, PopFacts, Zenon
<1>4. DOMAIN scopes'[t] = 1 .. Len(scopes[t]) - 1
  BY <1>2, <1>3
<1>5. \A i \in DOMAIN scopes'[t] : scopes'[t][i] = scopes[t][i]
  BY <1>1, <1>4, PopFacts
<1>6. \A u \in Threads : \A i \in DOMAIN scopes'[u] :
          i \in DOMAIN scopes[u] /\ scopes'[u][i] = scopes[u][i]
  <2>1. \A i \in DOMAIN scopes'[t] : i \in DOMAIN scopes[t]
    BY <1>2, <1>4
  <2> QED BY <1>1, <1>5, <2>1, Zenon
<1>7. \A u \in Threads : \A i \in DOMAIN scopes[u] :
          i \in DOMAIN scopes'[u] \/ (u = t /\ i = Len(scopes[t]))
  BY <1>1, <1>2, <1>4
<1> QED BY <1>1, <1>2, <1>3, <1>4, <1>6, <1>7

\* Every step keeps the operations in place
LEMMA PlacesStep ==
    ASSUME IInv, [Next]_vars
    PROVE  Places'
<1> USE DEF At, Goto, Call, Return, owner, state, tasks, InScope
<1>types. /\ pc \in [Threads -> {"run", "check", "compare", "block", "own", "acquired",
                               "drain", "willRelease", "unlock", "grab", "yield"}]
          /\ op \in [Threads -> {"none", "lock", "unlock", "doWork", "drop", "grab"}]
          /\ count \in [Threads -> Nat] /\ held \in [Threads -> Nat] /\ m_lockCount \in Nat
  BY Zenon DEF IInv, TypeOK
<1>1. ASSUME NEW t \in Threads, JSLockHolder(t) PROVE Places'
  BY <1>types, <1>1, SMTT(20) DEF IInv, Places, Placed, JSLockHolder, lock, Mut!Acquire, Make
<1>2. ASSUME NEW t \in Threads, LoadHasOwnerThread(t) PROVE Places'
  BY <1>types, <1>2, Zenon DEF IInv, Places, Placed, LoadHasOwnerThread
<1>3. ASSUME NEW t \in Threads, LoadOwnerThread(t) PROVE Places'
  BY <1>types, <1>3, Zenon DEF IInv, Places, Placed, LoadOwnerThread
<1>4. ASSUME NEW t \in Threads, LockAgain(t) PROVE Places'
  BY <1>types, <1>4, Zenon DEF IInv, Places, Placed, LockAgain
<1>5. ASSUME NEW t \in Threads, BlockingLock(t) PROVE Places'
  BY <1>types, <1>5, Zenon DEF IInv, Places, Placed, BlockingLock, Mut!Acquire
<1>6. ASSUME NEW t \in Threads, SetOwnerThread(t) PROVE Places'
  BY <1>types, <1>6, Zenon DEF IInv, Places, Placed, SetOwnerThread
<1>7. ASSUME NEW t \in Threads, SetHasOwnerThread(t) PROVE Places'
  <2>1. CASE op[t] = "grab"
    <3>1. Goto(t, "grab") /\ UNCHANGED <<op, count>> /\ held' = held
      BY <1>7, <2>1, Zenon DEF SetHasOwnerThread
    <3> QED BY <1>types, <1>7, <2>1, <3>1, Zenon DEF IInv, Places, Placed, SetHasOwnerThread
  <2>2. CASE op[t] # "grab"
    <3>1. Return(t) /\ held' = [held EXCEPT ![t] = count[t]]
      BY <1>7, <2>2, Zenon DEF SetHasOwnerThread
    <3> QED BY <1>types, <1>7, <2>2, <3>1, Zenon DEF IInv, Places, Placed, SetHasOwnerThread
  <2> QED BY <2>1, <2>2, Zenon
<1>8. ASSUME NEW t \in Threads, UnlockOne(t) PROVE Places'
  BY <1>types, <1>8, Zenon DEF IInv, Places, Placed, UnlockOne, Outer
<1>9. ASSUME NEW t \in Threads, UnlockLast(t) PROVE Places'
  BY <1>types, <1>9, Zenon DEF IInv, Places, Placed, UnlockLast, BeginRelease, Outer
<1>10. ASSUME NEW t \in Threads, RunMicrotask(t) PROVE Places'
  <2>1. \A u \in Threads \ {t} : scopes'[u] = scopes[u]
    BY <1>10, Zenon DEF IInv, TypeOK, RunMicrotask, Push
  <2>2. pc'[t] = "run" /\ op'[t] = "none"
    BY <1>types, <1>10, Zenon DEF RunMicrotask
  <2>3. \A u \in Threads \ {t} : pc'[u] = pc[u] /\ op'[u] = op[u] /\ count'[u] = count[u]
    BY <1>types, <1>10, Zenon DEF RunMicrotask
  <2>4. Placed(t)'
    BY <2>2, Zenon DEF Placed
  <2>5. ASSUME NEW u \in Threads \ {t} PROVE Placed(u)'
    <3>1. /\ scopes'[u] = scopes[u] /\ pc'[u] = pc[u]
          /\ op'[u] = op[u] /\ count'[u] = count[u]
      BY <2>1, <2>3, Zenon
    <3>2. Placed(u)
      BY Zenon DEF IInv, Places
    <3> QED BY <3>1, <3>2, Zenon DEF Placed
  <2> QED BY <2>4, <2>5, Zenon DEF Places
<1>11. ASSUME NEW t \in Threads, MicrotaskEnds(t) PROVE Places'
  <2>1. \A u \in Threads \ {t} : scopes'[u] = scopes[u]
    BY <1>11, Zenon DEF IInv, TypeOK, MicrotaskEnds, Pop
  <2>2. pc'[t] = "drain" /\ op'[t] \in {"unlock", "doWork"} /\ count'[t] = 1
    BY <1>types, <1>11, OuterFacts, Zenon DEF MicrotaskEnds, InScope
  <2>3. \A u \in Threads \ {t} : pc'[u] = pc[u] /\ op'[u] = op[u] /\ count'[u] = count[u]
    BY <1>types, <1>11, Zenon DEF MicrotaskEnds
  <2>4. Placed(t)'
    BY <2>2, Zenon DEF Placed
  <2>5. ASSUME NEW u \in Threads \ {t} PROVE Placed(u)'
    <3>1. /\ scopes'[u] = scopes[u] /\ pc'[u] = pc[u]
          /\ op'[u] = op[u] /\ count'[u] = count[u]
      BY <2>1, <2>3, Zenon
    <3>2. Placed(u)
      BY Zenon DEF IInv, Places
    <3> QED BY <3>1, <3>2, Zenon DEF Placed
  <2> QED BY <2>4, <2>5, Zenon DEF Places
<1>12. ASSUME NEW t \in Threads, Drained(t) PROVE Places'
  BY <1>types, <1>12, Zenon DEF IInv, Places, Placed, Drained
<1>13. ASSUME NEW t \in Threads, willReleaseLock(t) PROVE Places'
  BY <1>types, <1>13, Zenon DEF IInv, Places, Placed, willReleaseLock
<1>14. ASSUME NEW t \in Threads, Unlock(t) PROVE Places'
  <2>1. CASE op[t] = "grab"
    <3>1. Goto(t, "yield") /\ UNCHANGED <<op, count>>
      BY <1>14, <2>1, Zenon DEF Unlock
    <3> QED BY <1>types, <1>14, <2>1, <3>1, Zenon DEF IInv, Places, Placed, Unlock
  <2>2. CASE op[t] # "grab"
    <3>1. Return(t)
      BY <1>14, <2>2, Zenon DEF Unlock
    <3> QED BY <1>types, <1>14, <2>2, <3>1, Zenon DEF IInv, Places, Placed, Unlock
  <2> QED BY <2>1, <2>2, Zenon
<1>15. ASSUME NEW t \in Threads, dropAllLocks(t) PROVE Places'
  <2>1. \A u \in Threads \ {t} : scopes'[u] = scopes[u]
    BY <1>15, Zenon DEF IInv, TypeOK, dropAllLocks, Push
  <2>2. pc'[t] = "willRelease" /\ op'[t] = "drop"
    BY <1>types, <1>15, DropReleases, Zenon DEF dropAllLocks
  <2>3. \A u \in Threads \ {t} : pc'[u] = pc[u] /\ op'[u] = op[u] /\ count'[u] = count[u]
    BY <1>types, <1>15, DropReleases, Zenon DEF dropAllLocks
  <2>4. Placed(t)'
    BY <2>2, Zenon DEF Placed
  <2>5. ASSUME NEW u \in Threads \ {t} PROVE Placed(u)'
    <3>1. /\ scopes'[u] = scopes[u] /\ pc'[u] = pc[u]
          /\ op'[u] = op[u] /\ count'[u] = count[u]
      BY <2>1, <2>3, Zenon
    <3>2. Placed(u)
      BY Zenon DEF IInv, Places
    <3> QED BY <3>1, <3>2, Zenon DEF Placed
  <2> QED BY <2>4, <2>5, Zenon DEF Places
<1>16. ASSUME NEW t \in Threads, grabAllLocks(t) PROVE Places'
  <2>1. Len(scopes[t]) \in DOMAIN scopes[t]
    BY <1>16, TopFacts, Zenon DEF IInv, grabAllLocks
  <2>2. InScope(t, "drop") /\ Top(t).count > 0
    BY <1>16, <2>1, Zenon DEF IInv, Notes, grabAllLocks, Top
  <2>3. pc'[t] \in {"own", "check"} /\ op'[t] = "grab" /\ count'[t] > 0
    BY <1>types, <1>16, <2>2, Zenon DEF grabAllLocks, lock
  <2>4. \A u \in Threads \ {t} : pc'[u] = pc[u] /\ op'[u] = op[u] /\ count'[u] = count[u]
    BY <1>types, <1>16, Zenon DEF grabAllLocks, lock
  <2>5. UNCHANGED scopes
    BY <1>16, Zenon DEF grabAllLocks, lock
  <2>6. Placed(t)'
    BY <2>2, <2>3, <2>5, Zenon DEF Placed
  <2>7. ASSUME NEW u \in Threads \ {t} PROVE Placed(u)'
    BY <2>4, <2>5 DEF IInv, Places, Placed
  <2> QED BY <2>6, <2>7, Zenon DEF Places
<1>17. ASSUME NEW t \in Threads, NotMyTurn(t) PROVE Places'
  <2>1. /\ pc' = [pc EXCEPT ![t] = "willRelease"] /\ pc[t] = "grab"
        /\ UNCHANGED <<op, count, scopes>>
    BY <1>17, TurnReleases, Zenon DEF NotMyTurn
  <2> QED BY <1>types, <2>1, Zenon DEF IInv, Places, Placed
<1>18. ASSUME NEW t \in Threads, TryAgain(t) PROVE Places'
  BY <1>types, <1>18, SMTT(20) DEF IInv, Places, Placed, TryAgain, lock, Mut!Acquire
<1>19. ASSUME NEW t \in Threads, Grabbed(t) PROVE Places'
  <2>1. \A u \in Threads \ {t} : scopes'[u] = scopes[u]
    BY <1>19, Zenon DEF IInv, TypeOK, Grabbed, Pop
  <2>2. pc'[t] = "run" /\ op'[t] = "none"
    BY <1>types, <1>19, Zenon DEF Grabbed
  <2>3. \A u \in Threads \ {t} : pc'[u] = pc[u] /\ op'[u] = op[u] /\ count'[u] = count[u]
    BY <1>types, <1>19, Zenon DEF Grabbed
  <2>4. Placed(t)'
    BY <2>2, Zenon DEF Placed
  <2>5. ASSUME NEW u \in Threads \ {t} PROVE Placed(u)'
    <3>1. /\ scopes'[u] = scopes[u] /\ pc'[u] = pc[u]
          /\ op'[u] = op[u] /\ count'[u] = count[u]
      BY <2>1, <2>3, Zenon
    <3>2. Placed(u)
      BY Zenon DEF IInv, Places
    <3> QED BY <3>1, <3>2, Zenon DEF Placed
  <2> QED BY <2>4, <2>5, Zenon DEF Places
<1>20. ASSUME NEW t \in Threads, queueMicrotask(t) PROVE Places'
  BY <1>types, <1>20, Zenon DEF IInv, Places, Placed, queueMicrotask
<1>21. CASE UNCHANGED vars
  BY <1>21, Zenon DEF IInv, Places, Placed, vars
<1>22. ASSUME NEW t \in Threads, doWork(t) PROVE Places'
  BY <1>types, <1>22, Zenon DEF IInv, Places, Placed, doWork
<1>23. ASSUME NEW t \in Threads, WorkDone(t) PROVE Places'
  BY <1>types, <1>23, Zenon DEF IInv, Places, Placed, WorkDone
<1> HIDE DEF Places
<1> QED BY <1>1, <1>2, <1>3, <1>4, <1>5, <1>6, <1>7, <1>8, <1>9, <1>10, <1>11, <1>12, <1>13,
   <1>14, <1>15, <1>16, <1>17, <1>18, <1>19, <1>20, <1>21, <1>22, <1>23, Zenon
   DEF Next, Proceed, Leave

\* Every step keeps what the open scopes have noted
LEMMA NotesStep ==
    ASSUME IInv, [Next]_vars
    PROVE  Notes'
<1> USE DEF At, Goto, Call, Return, owner, state, tasks
<1>types. /\ pc \in [Threads -> {"run", "check", "compare", "block", "own", "acquired",
                               "drain", "willRelease", "unlock", "grab", "yield"}]
          /\ op \in [Threads -> {"none", "lock", "unlock", "doWork", "drop", "grab"}]
          /\ count \in [Threads -> Nat] /\ held \in [Threads -> Nat] /\ m_lockCount \in Nat
  BY Zenon DEF IInv, TypeOK
<1>notes. \A u \in Threads : \A i \in DOMAIN scopes[u] :
              /\ scopes[u][i].kind = "drop" =>
                     scopes[u][i].count > 0 /\ savedStackPointerAtVMEntry[u] = u
              /\ scopes[u][i].kind = "task" =>
                     scopes[u][i].count = 1 /\ scopes[u][i].by \in {"unlock", "doWork"}
  BY Zenon DEF IInv, Notes
<1>1. ASSUME NEW t \in Threads, JSLockHolder(t) PROVE Notes'
  BY <1>1, Zenon DEF IInv, Notes, JSLockHolder, lock, Mut!Acquire, Make
<1>2. ASSUME NEW t \in Threads, LoadHasOwnerThread(t) PROVE Notes'
  BY <1>2, Zenon DEF IInv, Notes, LoadHasOwnerThread
<1>3. ASSUME NEW t \in Threads, LoadOwnerThread(t) PROVE Notes'
  BY <1>3, Zenon DEF IInv, Notes, LoadOwnerThread
<1>4. ASSUME NEW t \in Threads, LockAgain(t) PROVE Notes'
  BY <1>4, Zenon DEF IInv, Notes, LockAgain
<1>5. ASSUME NEW t \in Threads, BlockingLock(t) PROVE Notes'
  BY <1>5, Zenon DEF IInv, Notes, BlockingLock, Mut!Acquire
<1>6. ASSUME NEW t \in Threads, SetOwnerThread(t) PROVE Notes'
  BY <1>6, Zenon DEF IInv, Notes, SetOwnerThread
<1>7. ASSUME NEW t \in Threads, SetHasOwnerThread(t) PROVE Notes'
  BY <1>7, Zenon DEF IInv, Notes, SetHasOwnerThread, didAcquireLock
<1>8. ASSUME NEW t \in Threads, UnlockOne(t) PROVE Notes'
  BY <1>8, Zenon DEF IInv, Notes, UnlockOne, Outer
<1>9. ASSUME NEW t \in Threads, UnlockLast(t) PROVE Notes'
  BY <1>9, Zenon DEF IInv, Notes, UnlockLast, BeginRelease, Outer
<1>10. ASSUME NEW t \in Threads, RunMicrotask(t) PROVE Notes'
  <2> DEFINE x == [kind |-> "task", by |-> op[t], count |-> held[t], depth |-> m_lockDropDepth]
  <2>1. /\ x \in Scopes /\ x.kind = "task"
        /\ x.by = op[t] /\ x.by \in {"unlock", "doWork"}
        /\ x.count = held[t] /\ x.depth = m_lockDropDepth
    BY <1>types, <1>10, DrainFacts, Zenon DEF IInv, TypeOK, Scopes, RunMicrotask
  <2>2. Push(t, x)
    BY <1>10, Zenon DEF RunMicrotask
  <2> HIDE DEF x
  <2>3. /\ Len(scopes[t]) \in Nat /\ Len(scopes'[t]) = Len(scopes[t]) + 1
        /\ \A u \in Threads \ {t} : scopes'[u] = scopes[u]
        /\ \A u \in Threads : \A i \in DOMAIN scopes[u] :
               i \in DOMAIN scopes'[u] /\ scopes'[u][i] = scopes[u][i]
        /\ \A u \in Threads : \A i \in DOMAIN scopes'[u] :
               \/ i \in DOMAIN scopes[u]
               \/ u = t /\ i = Len(scopes[t]) + 1
        /\ Len(scopes[t]) + 1 \in DOMAIN scopes'[t] \ DOMAIN scopes[t]
        /\ scopes'[t][Len(scopes[t]) + 1] = x
    BY <2>1, <2>2, Pushed, Zenon DEF IInv
  <2>4. held[t] = 1
    BY <1>10, DrainFacts, Zenon DEF RunMicrotask
  <2>5. ASSUME NEW u \in Threads, NEW i \in DOMAIN scopes'[u]
        PROVE  /\ scopes'[u][i].kind = "drop" =>
                      scopes'[u][i].count > 0 /\ savedStackPointerAtVMEntry'[u] = u
               /\ scopes'[u][i].kind = "task" =>
                      scopes'[u][i].count = 1 /\ scopes'[u][i].by \in {"unlock", "doWork"}
    <3>1. CASE i \in DOMAIN scopes[u]
      <4>1. scopes'[u][i] = scopes[u][i]
        BY <2>3, <3>1, Zenon
      <4>2. UNCHANGED savedStackPointerAtVMEntry
        BY <1>10, Zenon DEF RunMicrotask
      <4> QED BY <1>notes, <3>1, <4>1, <4>2, SMTT(20)
    <3>2. CASE u = t /\ i = Len(scopes[t]) + 1
      BY <1>10, <2>1, <2>3, <2>4, <3>2, Zenon DEF IInv, TypeOK, RunMicrotask
    <3> QED BY <2>3, <2>5, <3>1, <3>2, Zenon
  <2> QED BY <2>5, Zenon DEF Notes
<1>11. ASSUME NEW t \in Threads, MicrotaskEnds(t) PROVE Notes'
  <2>1. scopes[t] # <<>> /\ Pop(t)
    BY <1>types, <1>11, Zenon DEF IInv, Places, Placed, InScope, MicrotaskEnds
  <2>2. /\ Len(scopes[t]) \in Nat \ {0} /\ Len(scopes'[t]) = Len(scopes[t]) - 1
        /\ \A u \in Threads \ {t} : scopes'[u] = scopes[u]
        /\ \A u \in Threads : \A i \in DOMAIN scopes'[u] :
               i \in DOMAIN scopes[u] /\ scopes'[u][i] = scopes[u][i]
        /\ \A u \in Threads : \A i \in DOMAIN scopes[u] :
               \/ i \in DOMAIN scopes'[u]
               \/ u = t /\ i = Len(scopes[t])
        /\ Len(scopes[t]) \in DOMAIN scopes[t] \ DOMAIN scopes'[t]
    BY <2>1, Popped, Zenon DEF IInv
  <2>3. UNCHANGED savedStackPointerAtVMEntry
    BY <1>11, Zenon DEF MicrotaskEnds
  <2> SUFFICES ASSUME NEW u \in Threads, NEW i \in DOMAIN scopes'[u]
               PROVE  /\ scopes'[u][i].kind = "drop" =>
                             scopes'[u][i].count > 0 /\ savedStackPointerAtVMEntry'[u] = u
                      /\ scopes'[u][i].kind = "task" =>
                             scopes'[u][i].count = 1 /\ scopes'[u][i].by \in {"unlock", "doWork"}
    BY Zenon DEF Notes
  <2>4. i \in DOMAIN scopes[u] /\ scopes'[u][i] = scopes[u][i]
    BY <2>2, Zenon
  <2> QED BY <1>notes, <2>3, <2>4
<1>12. ASSUME NEW t \in Threads, Drained(t) PROVE Notes'
  BY <1>12, Zenon DEF IInv, Notes, Drained
<1>13. ASSUME NEW t \in Threads, willReleaseLock(t) PROVE Notes'
  BY <1>13, Zenon DEF IInv, Notes, willReleaseLock
<1>14. ASSUME NEW t \in Threads, Unlock(t) PROVE Notes'
  BY <1>14, Zenon DEF IInv, Notes, Unlock, Mut!Release
<1>15. ASSUME NEW t \in Threads, dropAllLocks(t) PROVE Notes'
  <2> DEFINE x == [kind |-> "drop", by |-> "drop", count |-> m_lockCount,
                   depth |-> m_lockDropDepth + 1]
  <2>1. /\ x \in Scopes /\ x.kind = "drop"
        /\ x.count = m_lockCount /\ x.depth = m_lockDropDepth + 1
    BY <1>types DEF IInv, TypeOK, Scopes
  <2>2. Push(t, x)
    BY <1>15, Zenon DEF dropAllLocks
  <2> HIDE DEF x
  <2>3. /\ Len(scopes[t]) \in Nat /\ Len(scopes'[t]) = Len(scopes[t]) + 1
        /\ \A u \in Threads \ {t} : scopes'[u] = scopes[u]
        /\ \A u \in Threads : \A i \in DOMAIN scopes[u] :
               i \in DOMAIN scopes'[u] /\ scopes'[u][i] = scopes[u][i]
        /\ \A u \in Threads : \A i \in DOMAIN scopes'[u] :
               \/ i \in DOMAIN scopes[u]
               \/ u = t /\ i = Len(scopes[t]) + 1
        /\ Len(scopes[t]) + 1 \in DOMAIN scopes'[t] \ DOMAIN scopes[t]
        /\ scopes'[t][Len(scopes[t]) + 1] = x
    BY <2>1, <2>2, Pushed, Zenon DEF IInv
  <2>4. m_lockCount > 0 /\ stackPointerAtVMEntry = t
    BY <1>types, <1>15, Zenon DEF IInv, Holding, Counts, Counted, Places, Placed, VMState, Has, Owns,
       currentThreadIsHoldingLock, dropAllLocks
  <2>5. ASSUME NEW u \in Threads, NEW i \in DOMAIN scopes'[u]
        PROVE  /\ scopes'[u][i].kind = "drop" =>
                      scopes'[u][i].count > 0 /\ savedStackPointerAtVMEntry'[u] = u
               /\ scopes'[u][i].kind = "task" =>
                      scopes'[u][i].count = 1 /\ scopes'[u][i].by \in {"unlock", "doWork"}
    <3>1. CASE i \in DOMAIN scopes[u]
      <4>1. scopes'[u][i] = scopes[u][i]
        BY <2>3, <3>1, Zenon
      <4>2. savedStackPointerAtVMEntry'[u] \in {u, savedStackPointerAtVMEntry[u]}
        BY <1>15, <2>4, Zenon DEF IInv, TypeOK, dropAllLocks
      <4> QED BY <1>notes, <3>1, <4>1, <4>2, Zenon
    <3>2. CASE u = t /\ i = Len(scopes[t]) + 1
      BY <1>15, <2>1, <2>3, <2>4, <3>2, Zenon DEF IInv, TypeOK, dropAllLocks
    <3> QED BY <2>3, <2>5, <3>1, <3>2, Zenon
  <2> QED BY <2>5, Zenon DEF Notes
<1>16. ASSUME NEW t \in Threads, grabAllLocks(t) PROVE Notes'
  BY <1>16, Zenon DEF IInv, Notes, grabAllLocks, lock, Mut!Acquire
<1>17. ASSUME NEW t \in Threads, NotMyTurn(t) PROVE Notes'
  BY <1>17, Zenon DEF IInv, Notes, NotMyTurn
<1>18. ASSUME NEW t \in Threads, TryAgain(t) PROVE Notes'
  BY <1>18, Zenon DEF IInv, Notes, TryAgain, lock, Mut!Acquire
<1>19. ASSUME NEW t \in Threads, Grabbed(t) PROVE Notes'
  <2>1. scopes[t] # <<>> /\ Pop(t)
    BY <1>types, <1>19, Zenon DEF IInv, Places, Placed, InScope, Grabbed
  <2>2. /\ Len(scopes[t]) \in Nat \ {0} /\ Len(scopes'[t]) = Len(scopes[t]) - 1
        /\ \A u \in Threads \ {t} : scopes'[u] = scopes[u]
        /\ \A u \in Threads : \A i \in DOMAIN scopes'[u] :
               i \in DOMAIN scopes[u] /\ scopes'[u][i] = scopes[u][i]
        /\ \A u \in Threads : \A i \in DOMAIN scopes[u] :
               \/ i \in DOMAIN scopes'[u]
               \/ u = t /\ i = Len(scopes[t])
        /\ Len(scopes[t]) \in DOMAIN scopes[t] \ DOMAIN scopes'[t]
    BY <2>1, Popped, Zenon DEF IInv
  <2>3. UNCHANGED savedStackPointerAtVMEntry
    BY <1>19, Zenon DEF Grabbed
  <2> SUFFICES ASSUME NEW u \in Threads, NEW i \in DOMAIN scopes'[u]
               PROVE  /\ scopes'[u][i].kind = "drop" =>
                             scopes'[u][i].count > 0 /\ savedStackPointerAtVMEntry'[u] = u
                      /\ scopes'[u][i].kind = "task" =>
                             scopes'[u][i].count = 1 /\ scopes'[u][i].by \in {"unlock", "doWork"}
    BY Zenon DEF Notes
  <2>4. i \in DOMAIN scopes[u] /\ scopes'[u][i] = scopes[u][i]
    BY <2>2, Zenon
  <2> QED BY <1>notes, <2>3, <2>4
<1>20. ASSUME NEW t \in Threads, queueMicrotask(t) PROVE Notes'
  BY <1>20, Zenon DEF IInv, Notes, queueMicrotask
<1>21. CASE UNCHANGED vars
  BY <1>21, Zenon DEF IInv, Notes, vars
<1>22. ASSUME NEW t \in Threads, doWork(t) PROVE Notes'
  BY <1>22, Zenon DEF IInv, Notes, doWork
<1>23. ASSUME NEW t \in Threads, WorkDone(t) PROVE Notes'
  BY <1>23, Zenon DEF IInv, Notes, WorkDone
<1> HIDE DEF Notes
<1> QED BY <1>1, <1>2, <1>3, <1>4, <1>5, <1>6, <1>7, <1>8, <1>9, <1>10, <1>11, <1>12, <1>13,
   <1>14, <1>15, <1>16, <1>17, <1>18, <1>19, <1>20, <1>21, <1>22, <1>23, Zenon
   DEF Next, Proceed, Leave

-----------------------------------------------------------------------------
\* Every step keeps the VM set up for the owner
LEMMA VMStateStep ==
    ASSUME IInv, [Next]_vars
    PROVE  VMState'
<1> USE DEF At, Goto, Call, Return, owner, state, tasks, currentThreadIsHoldingLock
<1>1. ASSUME NEW t \in Threads, JSLockHolder(t) PROVE VMState'
  BY <1>1, Zenon DEF IInv, VMState, JSLockHolder, lock, Mut!Acquire, Make
<1>2. ASSUME NEW t \in Threads, LoadHasOwnerThread(t) PROVE VMState'
  BY <1>2, Zenon DEF IInv, VMState, LoadHasOwnerThread
<1>3. ASSUME NEW t \in Threads, LoadOwnerThread(t) PROVE VMState'
  BY <1>3, Zenon DEF IInv, VMState, LoadOwnerThread
<1>4. ASSUME NEW t \in Threads, LockAgain(t) PROVE VMState'
  BY <1>4, Zenon DEF IInv, VMState, LockAgain
<1>5. ASSUME NEW t \in Threads, BlockingLock(t) PROVE VMState'
  BY <1>5, Zenon DEF IInv, VMState, BlockingLock, Mut!Acquire
<1>6. ASSUME NEW t \in Threads, SetOwnerThread(t) PROVE VMState'
  <2>1. ~m_hasOwnerThread
    BY <1>6, Zenon DEF IInv, Holding, Has, Owns, SetOwnerThread
  <2> QED BY <1>6, <2>1, Zenon DEF IInv, VMState, SetOwnerThread
<1>7. ASSUME NEW t \in Threads, SetHasOwnerThread(t) PROVE VMState'
  <2>1. ~m_hasOwnerThread /\ m_ownerThread = t
    BY <1>7, Zenon DEF IInv, Holding, Has, Owns, SetHasOwnerThread
  <2>2. atomStringTable[t] = t /\ atomStringTable \in [Threads -> Threads \cup {VM}]
    BY <2>1, Zenon DEF IInv, TypeOK, VMState
  <2>3. t \in machineThreads' /\ machineThreads \subseteq machineThreads'
    BY <1>7, NamesAssumption, Zenon DEF IInv, VMState, SetHasOwnerThread, didAcquireLock
  <2> QED BY <1>7, <2>1, <2>2, <2>3, Zenon DEF IInv, VMState, SetHasOwnerThread, didAcquireLock
<1>8. ASSUME NEW t \in Threads, UnlockOne(t) PROVE VMState'
  BY <1>8, Zenon DEF IInv, VMState, UnlockOne, Outer
<1>9. ASSUME NEW t \in Threads, UnlockLast(t) PROVE VMState'
  BY <1>9, Zenon DEF IInv, VMState, UnlockLast, BeginRelease, Outer
<1>10. ASSUME NEW t \in Threads, RunMicrotask(t) PROVE VMState'
  BY <1>10, Zenon DEF IInv, VMState, RunMicrotask
<1>11. ASSUME NEW t \in Threads, MicrotaskEnds(t) PROVE VMState'
  BY <1>11, Zenon DEF IInv, VMState, MicrotaskEnds
<1>12. ASSUME NEW t \in Threads, Drained(t) PROVE VMState'
  BY <1>12, Zenon DEF IInv, VMState, Drained
<1>13. ASSUME NEW t \in Threads, willReleaseLock(t) PROVE VMState'
  <2>1. m_hasOwnerThread /\ m_ownerThread = t
    BY <1>13, Zenon DEF IInv, Holding, Owns, willReleaseLock
  <2>2. m_entryAtomStringTable = t /\ atomStringTable \in [Threads -> Threads \cup {VM}]
    BY <2>1, Zenon DEF IInv, TypeOK, VMState
  <2> QED BY <1>13, <2>1, <2>2, Zenon DEF IInv, VMState, willReleaseLock
<1>14. ASSUME NEW t \in Threads, Unlock(t) PROVE VMState'
  BY <1>14, Zenon DEF IInv, VMState, Unlock, Mut!Release
<1>15. ASSUME NEW t \in Threads, dropAllLocks(t) PROVE VMState'
  BY <1>15, Zenon DEF IInv, VMState, dropAllLocks, Make
<1>16. ASSUME NEW t \in Threads, grabAllLocks(t) PROVE VMState'
  BY <1>16, Zenon DEF IInv, VMState, grabAllLocks, lock, Mut!Acquire
<1>17. ASSUME NEW t \in Threads, NotMyTurn(t) PROVE VMState'
  BY <1>17, Zenon DEF IInv, VMState, NotMyTurn
<1>18. ASSUME NEW t \in Threads, TryAgain(t) PROVE VMState'
  BY <1>18, Zenon DEF IInv, VMState, TryAgain, lock, Mut!Acquire
<1>19. ASSUME NEW t \in Threads, Grabbed(t) PROVE VMState'
  <2>1. m_hasOwnerThread /\ m_ownerThread = t
    BY <1>19, Zenon DEF IInv, Holding, Owns, Grabbed
  <2>2. InScope(t, "drop")
    BY <1>19, Zenon DEF IInv, Places, Placed, Grabbed
  <2>3. savedStackPointerAtVMEntry[t] = t
    BY <2>2, TopFacts, Zenon DEF IInv, InScope, Notes
  <2> QED BY <1>19, <2>1, <2>3, Zenon DEF IInv, VMState, Grabbed
<1>20. ASSUME NEW t \in Threads, queueMicrotask(t) PROVE VMState'
  BY <1>20, Zenon DEF IInv, VMState, queueMicrotask
<1>21. CASE UNCHANGED vars
  BY <1>21, Zenon DEF IInv, VMState, vars
<1>22. ASSUME NEW t \in Threads, doWork(t) PROVE VMState'
  BY <1>22, Zenon DEF IInv, VMState, doWork
<1>23. ASSUME NEW t \in Threads, WorkDone(t) PROVE VMState'
  BY <1>23, Zenon DEF IInv, VMState, WorkDone
<1> HIDE DEF VMState
<1> QED BY <1>1, <1>2, <1>3, <1>4, <1>5, <1>6, <1>7, <1>8, <1>9, <1>10, <1>11, <1>12, <1>13,
   <1>14, <1>15, <1>16, <1>17, <1>18, <1>19, <1>20, <1>21, <1>22, <1>23, Zenon
   DEF Next, Proceed, Leave

\* Every step keeps the drops in order
LEMMA DropsStep ==
    ASSUME IInv, [Next]_vars
    PROVE  DropsInOrder'
<1> USE DEF At, Goto, Call, Return, owner, state, tasks
<1>types. /\ pc \in [Threads -> {"run", "check", "compare", "block", "own", "acquired",
                               "drain", "willRelease", "unlock", "grab", "yield"}]
          /\ op \in [Threads -> {"none", "lock", "unlock", "doWork", "drop", "grab"}]
          /\ count \in [Threads -> Nat] /\ held \in [Threads -> Nat] /\ m_lockCount \in Nat
  BY Zenon DEF IInv, TypeOK
<1>1. ASSUME NEW t \in Threads, JSLockHolder(t) PROVE DropsInOrder'
  BY <1>1 DEF IInv, DropsInOrder, JSLockHolder, lock, Mut!Acquire, Make
<1>2. ASSUME NEW t \in Threads, LoadHasOwnerThread(t) PROVE DropsInOrder'
  BY <1>2 DEF IInv, DropsInOrder, LoadHasOwnerThread
<1>3. ASSUME NEW t \in Threads, LoadOwnerThread(t) PROVE DropsInOrder'
  BY <1>3 DEF IInv, DropsInOrder, LoadOwnerThread
<1>4. ASSUME NEW t \in Threads, LockAgain(t) PROVE DropsInOrder'
  BY <1>4 DEF IInv, DropsInOrder, LockAgain
<1>5. ASSUME NEW t \in Threads, BlockingLock(t) PROVE DropsInOrder'
  BY <1>5 DEF IInv, DropsInOrder, BlockingLock, Mut!Acquire
<1>6. ASSUME NEW t \in Threads, SetOwnerThread(t) PROVE DropsInOrder'
  BY <1>6 DEF IInv, DropsInOrder, SetOwnerThread
<1>7. ASSUME NEW t \in Threads, SetHasOwnerThread(t) PROVE DropsInOrder'
  BY <1>7 DEF IInv, DropsInOrder, SetHasOwnerThread, didAcquireLock
<1>8. ASSUME NEW t \in Threads, UnlockOne(t) PROVE DropsInOrder'
  BY <1>8 DEF IInv, DropsInOrder, UnlockOne, Outer
<1>9. ASSUME NEW t \in Threads, UnlockLast(t) PROVE DropsInOrder'
  BY <1>9 DEF IInv, DropsInOrder, UnlockLast, BeginRelease, Outer
<1>10. ASSUME NEW t \in Threads, RunMicrotask(t) PROVE DropsInOrder'
  <2> DEFINE x == [kind |-> "task", by |-> op[t], count |-> held[t], depth |-> m_lockDropDepth]
  <2>1. /\ x \in Scopes /\ x.kind = "task"
        /\ x.by = op[t] /\ x.by \in {"unlock", "doWork"}
        /\ x.count = held[t] /\ x.depth = m_lockDropDepth
    BY <1>types, <1>10, DrainFacts, Zenon DEF IInv, TypeOK, Scopes, RunMicrotask
  <2>2. Push(t, x)
    BY <1>10, Zenon DEF RunMicrotask
  <2> HIDE DEF x
  <2>3. /\ Len(scopes[t]) \in Nat /\ Len(scopes'[t]) = Len(scopes[t]) + 1
        /\ \A u \in Threads \ {t} : scopes'[u] = scopes[u]
        /\ \A u \in Threads : \A i \in DOMAIN scopes[u] :
               i \in DOMAIN scopes'[u] /\ scopes'[u][i] = scopes[u][i]
        /\ \A u \in Threads : \A i \in DOMAIN scopes'[u] :
               \/ i \in DOMAIN scopes[u]
               \/ u = t /\ i = Len(scopes[t]) + 1
        /\ Len(scopes[t]) + 1 \in DOMAIN scopes'[t] \ DOMAIN scopes[t]
        /\ scopes'[t][Len(scopes[t]) + 1] = x
    BY <2>1, <2>2, Pushed, Zenon DEF IInv
  <2>4. UNCHANGED m_lockDropDepth
    BY <1>10, Zenon DEF RunMicrotask
  <2>5. ASSUME NEW n \in 1 .. m_lockDropDepth
        PROVE  \E u \in Threads : \E i \in DOMAIN scopes'[u] :
                   scopes'[u][i].kind = "drop" /\ scopes'[u][i].depth = n
    <3>1. PICK u \in Threads : \E i \in DOMAIN scopes[u] :
                   scopes[u][i].kind = "drop" /\ scopes[u][i].depth = n
      BY Zenon DEF IInv, DropsInOrder
    <3>2. PICK i \in DOMAIN scopes[u] : scopes[u][i].kind = "drop" /\ scopes[u][i].depth = n
      BY <3>1, Zenon
    <3>3. i \in DOMAIN scopes'[u] /\ scopes'[u][i] = scopes[u][i]
      BY <2>3, <3>2, Zenon
    <3> QED BY <3>2, <3>3, Zenon
  <2>6. ASSUME NEW u \in Threads, NEW v \in Threads,
               NEW i \in DOMAIN scopes'[u], NEW j \in DOMAIN scopes'[v],
               scopes'[u][i].kind = "drop", scopes'[v][j].kind = "drop"
        PROVE  /\ scopes'[u][i].depth \in 1 .. m_lockDropDepth
               /\ scopes'[u][i].depth = scopes'[v][j].depth => u = v /\ i = j
    <3>1. i \in DOMAIN scopes[u] /\ scopes'[u][i] = scopes[u][i]
      BY <2>1, <2>3, <2>6, Zenon
    <3>2. j \in DOMAIN scopes[v] /\ scopes'[v][j] = scopes[v][j]
      BY <2>1, <2>3, <2>6, Zenon
    <3> QED BY <2>6, <3>1, <3>2 DEF IInv, DropsInOrder
  <2> QED BY <2>4, <2>5, <2>6 DEF DropsInOrder
<1>11. ASSUME NEW t \in Threads, MicrotaskEnds(t) PROVE DropsInOrder'
  <2>1. scopes[t] # <<>> /\ Pop(t)
    BY <1>types, <1>11, Zenon DEF IInv, Places, Placed, InScope, MicrotaskEnds
  <2>2. /\ Len(scopes[t]) \in Nat \ {0} /\ Len(scopes'[t]) = Len(scopes[t]) - 1
        /\ \A u \in Threads \ {t} : scopes'[u] = scopes[u]
        /\ \A u \in Threads : \A i \in DOMAIN scopes'[u] :
               i \in DOMAIN scopes[u] /\ scopes'[u][i] = scopes[u][i]
        /\ \A u \in Threads : \A i \in DOMAIN scopes[u] :
               \/ i \in DOMAIN scopes'[u]
               \/ u = t /\ i = Len(scopes[t])
        /\ Len(scopes[t]) \in DOMAIN scopes[t] \ DOMAIN scopes'[t]
    BY <2>1, Popped, Zenon DEF IInv
  <2>3. scopes[t][Len(scopes[t])].kind = "task"
    BY <1>11, Zenon DEF MicrotaskEnds, InScope
  <2>4. UNCHANGED m_lockDropDepth
    BY <1>11, Zenon DEF MicrotaskEnds
  <2>5. ASSUME NEW n \in 1 .. m_lockDropDepth
        PROVE  \E u \in Threads : \E i \in DOMAIN scopes'[u] :
                   scopes'[u][i].kind = "drop" /\ scopes'[u][i].depth = n
    <3>1. PICK u \in Threads : \E i \in DOMAIN scopes[u] :
                   scopes[u][i].kind = "drop" /\ scopes[u][i].depth = n
      BY Zenon DEF IInv, DropsInOrder
    <3>2. PICK i \in DOMAIN scopes[u] : scopes[u][i].kind = "drop" /\ scopes[u][i].depth = n
      BY <3>1, Zenon
    <3>3. i \in DOMAIN scopes'[u] /\ scopes'[u][i] = scopes[u][i]
      BY <2>2, <2>3, <3>2, Zenon
    <3> QED BY <3>2, <3>3, Zenon
  <2>6. ASSUME NEW u \in Threads, NEW v \in Threads,
               NEW i \in DOMAIN scopes'[u], NEW j \in DOMAIN scopes'[v],
               scopes'[u][i].kind = "drop", scopes'[v][j].kind = "drop"
        PROVE  /\ scopes'[u][i].depth \in 1 .. m_lockDropDepth
               /\ scopes'[u][i].depth = scopes'[v][j].depth => u = v /\ i = j
    <3>1. /\ i \in DOMAIN scopes[u] /\ scopes'[u][i] = scopes[u][i]
          /\ j \in DOMAIN scopes[v] /\ scopes'[v][j] = scopes[v][j]
      BY <2>2, Zenon
    <3> QED BY <2>6, <3>1 DEF IInv, DropsInOrder
  <2> QED BY <2>4, <2>5, <2>6 DEF DropsInOrder
<1>12. ASSUME NEW t \in Threads, Drained(t) PROVE DropsInOrder'
  BY <1>12 DEF IInv, DropsInOrder, Drained
<1>13. ASSUME NEW t \in Threads, willReleaseLock(t) PROVE DropsInOrder'
  BY <1>13 DEF IInv, DropsInOrder, willReleaseLock
<1>14. ASSUME NEW t \in Threads, Unlock(t) PROVE DropsInOrder'
  BY <1>14 DEF IInv, DropsInOrder, Unlock, Mut!Release
<1>15. ASSUME NEW t \in Threads, dropAllLocks(t) PROVE DropsInOrder'
  <2> DEFINE x == [kind |-> "drop", by |-> "drop", count |-> m_lockCount,
                   depth |-> m_lockDropDepth + 1]
  <2>1. /\ x \in Scopes /\ x.kind = "drop"
        /\ x.count = m_lockCount /\ x.depth = m_lockDropDepth + 1
    BY <1>types DEF IInv, TypeOK, Scopes
  <2>2. Push(t, x)
    BY <1>15, Zenon DEF dropAllLocks
  <2> HIDE DEF x
  <2>3. /\ Len(scopes[t]) \in Nat /\ Len(scopes'[t]) = Len(scopes[t]) + 1
        /\ \A u \in Threads \ {t} : scopes'[u] = scopes[u]
        /\ \A u \in Threads : \A i \in DOMAIN scopes[u] :
               i \in DOMAIN scopes'[u] /\ scopes'[u][i] = scopes[u][i]
        /\ \A u \in Threads : \A i \in DOMAIN scopes'[u] :
               \/ i \in DOMAIN scopes[u]
               \/ u = t /\ i = Len(scopes[t]) + 1
        /\ Len(scopes[t]) + 1 \in DOMAIN scopes'[t] \ DOMAIN scopes[t]
        /\ scopes'[t][Len(scopes[t]) + 1] = x
    BY <2>1, <2>2, Pushed, Zenon DEF IInv
  <2>4. m_lockDropDepth \in Nat
    BY <1>types, <1>15, Zenon DEF IInv, TypeOK, dropAllLocks
  <2>5. ASSUME NEW n \in 1 .. m_lockDropDepth'
        PROVE  \E u \in Threads : \E i \in DOMAIN scopes'[u] :
                   scopes'[u][i].kind = "drop" /\ scopes'[u][i].depth = n
    <3>1. CASE n = m_lockDropDepth + 1
      BY <2>1, <2>3, <3>1, Zenon
    <3>2. CASE n \in 1 .. m_lockDropDepth
      BY <2>3, <3>2 DEF IInv, DropsInOrder
    <3>3. m_lockDropDepth' = m_lockDropDepth + 1
      BY <1>15, Zenon DEF dropAllLocks
    <3>4. n = m_lockDropDepth + 1 \/ n \in 1 .. m_lockDropDepth
      BY <2>4, <3>3
    <3> QED BY <3>1, <3>2, <3>4, Zenon
  <2>6. ASSUME NEW u \in Threads, NEW i \in DOMAIN scopes'[u], scopes'[u][i].kind = "drop"
        PROVE  /\ scopes'[u][i].depth \in 1 .. m_lockDropDepth'
               /\ scopes'[u][i].depth = m_lockDropDepth' => u = t /\ i = Len(scopes[t]) + 1
               /\ scopes'[u][i].depth # m_lockDropDepth' => i \in DOMAIN scopes[u]
    <3>1. CASE i \in DOMAIN scopes[u]
      BY <1>15, <2>3, <2>4, <2>6, <3>1 DEF IInv, DropsInOrder, dropAllLocks
    <3>2. CASE i \notin DOMAIN scopes[u]
      BY <1>15, <2>1, <2>3, <2>4, <2>6, <3>2 DEF dropAllLocks
    <3> QED BY <3>1, <3>2, Zenon
  <2> QED BY <1>15, <2>3, <2>5, <2>6 DEF IInv, DropsInOrder
<1>16. ASSUME NEW t \in Threads, grabAllLocks(t) PROVE DropsInOrder'
  BY <1>16 DEF IInv, DropsInOrder, grabAllLocks, lock, Mut!Acquire
<1>17. ASSUME NEW t \in Threads, NotMyTurn(t) PROVE DropsInOrder'
  BY <1>17 DEF IInv, DropsInOrder, NotMyTurn
<1>18. ASSUME NEW t \in Threads, TryAgain(t) PROVE DropsInOrder'
  BY <1>18 DEF IInv, DropsInOrder, TryAgain, lock, Mut!Acquire
<1>19. ASSUME NEW t \in Threads, Grabbed(t) PROVE DropsInOrder'
  <2>1. scopes[t] # <<>> /\ Pop(t)
    BY <1>types, <1>19, Zenon DEF IInv, Places, Placed, InScope, Grabbed
  <2>2. /\ Len(scopes[t]) \in Nat \ {0} /\ Len(scopes'[t]) = Len(scopes[t]) - 1
        /\ \A u \in Threads \ {t} : scopes'[u] = scopes[u]
        /\ \A u \in Threads : \A i \in DOMAIN scopes'[u] :
               i \in DOMAIN scopes[u] /\ scopes'[u][i] = scopes[u][i]
        /\ \A u \in Threads : \A i \in DOMAIN scopes[u] :
               \/ i \in DOMAIN scopes'[u]
               \/ u = t /\ i = Len(scopes[t])
        /\ Len(scopes[t]) \in DOMAIN scopes[t] \ DOMAIN scopes'[t]
    BY <2>1, Popped, Zenon DEF IInv
  <2>3. /\ m_lockDropDepth \in Nat \ {0} /\ m_lockDropDepth' = m_lockDropDepth - 1
        /\ scopes[t][Len(scopes[t])].kind = "drop"
        /\ scopes[t][Len(scopes[t])].depth = m_lockDropDepth
    BY <1>19, <2>2 DEF IInv, TypeOK, Places, Placed, InScope, Top, DropsInOrder, Grabbed
  <2>4. ASSUME NEW n \in 1 .. m_lockDropDepth'
        PROVE  \E u \in Threads : \E i \in DOMAIN scopes'[u] :
                   scopes'[u][i].kind = "drop" /\ scopes'[u][i].depth = n
    <3>1. n \in 1 .. m_lockDropDepth /\ n # m_lockDropDepth
      BY <2>3
    <3>2. PICK u \in Threads : \E i \in DOMAIN scopes[u] :
            scopes[u][i].kind = "drop" /\ scopes[u][i].depth = n
      BY <3>1, Zenon DEF IInv, DropsInOrder
    <3> QED BY <2>2, <2>3, <3>1, <3>2
  <2>5. ASSUME NEW u \in Threads, NEW i \in DOMAIN scopes'[u], scopes'[u][i].kind = "drop"
        PROVE  scopes'[u][i].depth \in 1 .. m_lockDropDepth'
    <3>1. scopes[u][i].depth \in 1 .. m_lockDropDepth
      BY <2>2, <2>5 DEF IInv, DropsInOrder
    <3>2. scopes[u][i].depth # m_lockDropDepth
      BY <2>2, <2>3, <2>5 DEF IInv, DropsInOrder
    <3> QED BY <2>2, <2>3, <2>5, <3>1, <3>2
  <2> QED BY <2>2, <2>4, <2>5 DEF IInv, DropsInOrder
<1>20. ASSUME NEW t \in Threads, queueMicrotask(t) PROVE DropsInOrder'
  BY <1>20 DEF IInv, DropsInOrder, queueMicrotask
<1>21. CASE UNCHANGED vars
  BY <1>21 DEF IInv, DropsInOrder, vars
<1>22. ASSUME NEW t \in Threads, doWork(t) PROVE DropsInOrder'
  BY <1>22 DEF IInv, DropsInOrder, doWork
<1>23. ASSUME NEW t \in Threads, WorkDone(t) PROVE DropsInOrder'
  BY <1>23 DEF IInv, DropsInOrder, WorkDone
<1> HIDE DEF DropsInOrder
<1> QED BY <1>1, <1>2, <1>3, <1>4, <1>5, <1>6, <1>7, <1>8, <1>9, <1>10, <1>11, <1>12, <1>13,
   <1>14, <1>15, <1>16, <1>17, <1>18, <1>19, <1>20, <1>21, <1>22, <1>23, Zenon
   DEF Next, Proceed, Leave

\* Every step keeps the queue of microtasks empty while nobody is there to run them
LEMMA QuietStep ==
    ASSUME IInv, [Next]_vars
    PROVE  Quiet'
<1> USE DEF At, Goto, Call, Return, owner, state, tasks, Has, Owns, currentThreadIsHoldingLock
<1>types. /\ pc \in [Threads -> {"run", "check", "compare", "block", "own", "acquired",
                               "drain", "willRelease", "unlock", "grab", "yield"}]
          /\ op \in [Threads -> {"none", "lock", "unlock", "doWork", "drop", "grab"}]
          /\ count \in [Threads -> Nat] /\ held \in [Threads -> Nat] /\ m_lockCount \in Nat
  BY Zenon DEF IInv, TypeOK
<1>1. ASSUME NEW t \in Threads, JSLockHolder(t) PROVE Quiet'
  BY <1>types, <1>1 DEF IInv, Quiet, Holding, Counts, Counted, JSLockHolder, lock, Mut!Acquire,
     Make
<1>2. ASSUME NEW t \in Threads, LoadHasOwnerThread(t) PROVE Quiet'
  BY <1>types, <1>2 DEF IInv, Quiet, Holding, Counts, Counted, LoadHasOwnerThread
<1>3. ASSUME NEW t \in Threads, LoadOwnerThread(t) PROVE Quiet'
  BY <1>types, <1>3 DEF IInv, Quiet, Holding, Counts, Counted, LoadOwnerThread
<1>4. ASSUME NEW t \in Threads, LockAgain(t) PROVE Quiet'
  BY <1>types, <1>4 DEF IInv, Quiet, Holding, Counts, Counted, LockAgain
<1>5. ASSUME NEW t \in Threads, BlockingLock(t) PROVE Quiet'
  BY <1>types, <1>5, Zenon DEF IInv, Quiet, Holding, Counts, Counted, BlockingLock, Mut!Acquire
<1>6. ASSUME NEW t \in Threads, SetOwnerThread(t) PROVE Quiet'
  BY <1>types, <1>6 DEF IInv, Quiet, Holding, Counts, Counted, SetOwnerThread
<1>7. ASSUME NEW t \in Threads, SetHasOwnerThread(t) PROVE Quiet'
  <2>1. CASE op[t] = "grab"
    <3>1. Goto(t, "grab") /\ UNCHANGED <<op, count>> /\ held' = held
      BY <1>7, <2>1, Zenon DEF SetHasOwnerThread
    <3> QED BY <1>types, <1>7, <2>1, <3>1, Zenon DEF IInv, Quiet, Holding, Counts, Counted, Places,
       Placed, SetHasOwnerThread
  <2>2. CASE op[t] # "grab"
    <3>1. Return(t) /\ held' = [held EXCEPT ![t] = count[t]]
      BY <1>7, <2>2, Zenon DEF SetHasOwnerThread
    <3> QED BY <1>types, <1>7, <2>2, <3>1, Zenon DEF IInv, Quiet, Holding, Counts, Counted, Places,
       Placed, SetHasOwnerThread
  <2> QED BY <2>1, <2>2, Zenon
<1>8. ASSUME NEW t \in Threads, UnlockOne(t) PROVE Quiet'
  <2>1. held[t] > 1
    BY <1>types, <1>8, OuterFacts DEF IInv, Counts, Counted, Places, Placed, UnlockOne
  <2> QED BY <1>types, <1>8, <2>1 DEF IInv, Quiet, Holding, Counts, Counted, UnlockOne
<1>9. ASSUME NEW t \in Threads, UnlockLast(t) PROVE Quiet'
  <2>1. held[t] = 1
    BY <1>types, <1>9, OuterFacts DEF IInv, Counts, Counted, Places, Placed, UnlockLast, BeginRelease
  <2> QED BY <1>types, <1>9, <2>1 DEF IInv, Quiet, Holding, Counts, Counted, UnlockLast, BeginRelease
<1>10. ASSUME NEW t \in Threads, RunMicrotask(t) PROVE Quiet'
  <2>1. held[t] = 1
    BY <1>types, <1>10, Zenon DEF IInv, Counts, Counted, Places, Placed, RunMicrotask
  <2> QED BY <1>types, <1>10, <2>1 DEF IInv, Quiet, Holding, Counts, Counted, RunMicrotask
<1>11. ASSUME NEW t \in Threads, MicrotaskEnds(t) PROVE Quiet'
  <2>1. held[t] = 1
    BY <1>types, <1>11, OuterFacts, Zenon DEF IInv, Counts, Counted, Places, Placed, MicrotaskEnds
  <2> QED BY <1>types, <1>11, <2>1 DEF IInv, Quiet, Holding, Counts, Counted, MicrotaskEnds
<1>12. ASSUME NEW t \in Threads, Drained(t) PROVE Quiet'
  BY <1>types, <1>12, Zenon DEF IInv, Quiet, Holding, Counts, Counted, Drained
<1>13. ASSUME NEW t \in Threads, willReleaseLock(t) PROVE Quiet'
  BY <1>types, <1>13, Zenon DEF IInv, Quiet, Holding, Counts, Counted, willReleaseLock
<1>14. ASSUME NEW t \in Threads, Unlock(t) PROVE Quiet'
  <2>1. Has(t) /\ pc[t] = "unlock"
    BY <1>14, Zenon DEF Unlock, Has
  <2>2. \A u \in Threads : Has(u) => u = t
    BY <2>1, Zenon DEF IInv, Holding
  <2>3. UNCHANGED <<microtasks, m_lockDropDepth>>
    BY <1>14, Zenon DEF Unlock
  <2> QED BY <2>1, <2>2, <2>3, Zenon DEF IInv, Quiet
<1>15. ASSUME NEW t \in Threads, dropAllLocks(t) PROVE Quiet'
  <2>1. m_lockDropDepth' # 0
    BY <1>15 DEF IInv, TypeOK, dropAllLocks
  <2> QED BY <2>1, Zenon DEF Quiet
<1>16. ASSUME NEW t \in Threads, grabAllLocks(t) PROVE Quiet'
  BY <1>types, <1>16 DEF IInv, Quiet, Holding, Counts, Counted, grabAllLocks, lock, Mut!Acquire
<1>17. ASSUME NEW t \in Threads, NotMyTurn(t) PROVE Quiet'
  <2>1. m_lockDropDepth' # 0
    BY <1>17, TurnReleases, Zenon DEF NotMyTurn
  <2> QED BY <2>1, Zenon DEF Quiet
<1>18. ASSUME NEW t \in Threads, TryAgain(t) PROVE Quiet'
  BY <1>types, <1>18 DEF IInv, Quiet, Holding, Counts, Counted, TryAgain, lock, Mut!Acquire
<1>19. ASSUME NEW t \in Threads, Grabbed(t) PROVE Quiet'
  <2>1. held'[t] > 0 /\ pc'[t] = "run"
    BY <1>types, <1>19, Zenon DEF IInv, Places, Placed, Grabbed
  <2> QED BY <2>1, Zenon DEF Quiet
<1>20. ASSUME NEW t \in Threads, queueMicrotask(t) PROVE Quiet'
  BY <1>types, <1>20, Zenon DEF IInv, Quiet, Holding, Counts, Counted, queueMicrotask
<1>21. CASE UNCHANGED vars
  BY <1>21, Zenon DEF IInv, Quiet, Holding, Counts, Counted, vars
<1>22. ASSUME NEW t \in Threads, doWork(t) PROVE Quiet'
  BY <1>types, <1>22 DEF IInv, Quiet, Holding, Counts, Counted, doWork
<1>23. ASSUME NEW t \in Threads, WorkDone(t) PROVE Quiet'
  <2>1. held[t] = 1
    BY <1>23, DrainFacts, Zenon DEF WorkDone
  <2> QED BY <1>types, <1>23, <2>1 DEF IInv, Quiet, Holding, Counts, Counted, WorkDone
<1> HIDE DEF Quiet
<1> QED BY <1>1, <1>2, <1>3, <1>4, <1>5, <1>6, <1>7, <1>8, <1>9, <1>10, <1>11, <1>12, <1>13,
   <1>14, <1>15, <1>16, <1>17, <1>18, <1>19, <1>20, <1>21, <1>22, <1>23, Zenon
   DEF Next, Proceed, Leave

\* When the holder of the lock is in no microtask, every open one is inside a DropAllLocks
LEMMA TasksDropped ==
    ASSUME IInv, NEW t \in Threads, Has(t), ~(pc[t] # "drain" /\ InScope(t, "task")),
           NEW u \in Threads, NEW i \in DOMAIN scopes[u], scopes[u][i].kind = "task"
    PROVE  /\ scopes[u][i].depth \in Nat /\ scopes[u][i].depth < m_lockDropDepth
           /\ i < Len(scopes[u]) /\ scopes[u][i + 1].kind = "drop"
           /\ scopes[u][i + 1].depth = scopes[u][i].depth + 1
<1>1. Apart(u, i) /\ m_lockDropDepth \in Nat
  BY Zenon DEF IInv, TypeOK, Tasks
<1>2. scopes[u][i].depth \in Nat
  <2>1. scopes[u] \in Seq(Scopes)
    BY Zenon DEF IInv, TypeOK
  <2>2. scopes[u][i] \in Scopes
    BY <2>1
  <2> QED BY <2>2 DEF Scopes
<1>3. scopes[u][i].depth # m_lockDropDepth
  <2> SUFFICES ASSUME scopes[u][i].depth = m_lockDropDepth PROVE FALSE
    BY Zenon
  <2>1. i = Len(scopes[u]) /\ pc[u] \in {"run", "check", "compare"} /\ held[u] > 0
    BY <1>1, Zenon DEF Apart
  <2>2. u = t
    BY <2>1, Zenon DEF IInv, Holding, Has
  <2>3. scopes[t] # <<>>
    BY <2>2
  <2> QED BY <2>1, <2>2, <2>3, Zenon DEF InScope
<1>4. scopes[u][i].depth < m_lockDropDepth
  BY <1>1, <1>2, <1>3 DEF Apart
<1> QED BY <1>1, <1>2, <1>4, Zenon DEF Apart

\* A step of the holder that is in no microtask leaves the open ones where they are
LEMMA OutsideTasks ==
    ASSUME IInv, NEW t \in Threads, Has(t), ~(pc[t] # "drain" /\ InScope(t, "task")),
           UNCHANGED <<scopes, m_lockDropDepth>>,
           \A u \in Threads \ {t} : pc'[u] = pc[u] /\ op'[u] = op[u],
           pc'[t] = "drain" /\ op'[t] = "unlock" => m_lockDropDepth = 0
    PROVE  Tasks'
<1>1. ASSUME NEW u \in Threads, NEW i \in DOMAIN scopes'[u], scopes'[u][i].kind = "task"
      PROVE  Apart(u, i)'
  <2>1. i \in DOMAIN scopes[u] /\ scopes[u][i].kind = "task"
    BY <1>1, Zenon
  <2>2. /\ scopes[u][i].depth \in Nat /\ scopes[u][i].depth < m_lockDropDepth
        /\ i < Len(scopes[u]) /\ scopes[u][i + 1].kind = "drop"
        /\ scopes[u][i + 1].depth = scopes[u][i].depth + 1
    BY <2>1, TasksDropped, Zenon
  <2>3. Apart(u, i) /\ m_lockDropDepth \in Nat
    BY <2>1, Zenon DEF IInv, TypeOK, Tasks
  <2>4. scopes'[u] = scopes[u] /\ m_lockDropDepth' = m_lockDropDepth
    BY Zenon
  <2>5. scopes[u][i].depth <= m_lockDropDepth /\ scopes[u][i].depth # m_lockDropDepth
    BY <2>2, <2>3
  <2>6. scopes[u][i].by = "unlock" => scopes[u][i].depth = 0
    BY <2>3, Zenon DEF Apart
  <2> QED BY <2>2, <2>4, <2>5, <2>6, Zenon DEF Apart
<1>2. ASSUME NEW u \in Threads, pc'[u] = "drain", op'[u] = "unlock"
      PROVE  m_lockDropDepth' = 0
  BY <1>2, Zenon DEF IInv, Tasks
<1> QED BY <1>1, <1>2, Zenon DEF Tasks

\* A step that opens and closes no scope leaves microtasks apart, if the owner stays one
LEMMA SameScopes ==
    ASSUME Tasks, NEW t \in Threads, UNCHANGED <<scopes, m_lockDropDepth>>,
           \A u \in Threads \ {t} : pc'[u] = pc[u] /\ op'[u] = op[u] /\ held'[u] = held[u],
           pc[t] \in {"run", "check", "compare"} /\ held[t] > 0 =>
               pc'[t] \in {"run", "check", "compare"} /\ held'[t] > 0,
           pc'[t] # "drain"
    PROVE  Tasks'
<1>1. ASSUME NEW u \in Threads, NEW i \in DOMAIN scopes'[u], scopes'[u][i].kind = "task"
      PROVE  Apart(u, i)'
  <2>1. Apart(u, i)
    BY <1>1, Zenon DEF Tasks
  <2>2. pc[u] \in {"run", "check", "compare"} /\ held[u] > 0 =>
            pc'[u] \in {"run", "check", "compare"} /\ held'[u] > 0
    BY Zenon
  <2> QED BY <2>1, <2>2, Zenon DEF Apart
<1>2. ASSUME NEW u \in Threads, pc'[u] = "drain", op'[u] = "unlock"
      PROVE  m_lockDropDepth' = 0
  BY <1>2, Zenon DEF Tasks
<1> QED BY <1>1, <1>2, Zenon DEF Tasks

\* Every step keeps microtasks apart
LEMMA TasksStep ==
    ASSUME IInv, [Next]_vars
    PROVE  Tasks'
<1> USE DEF At, Goto, Call, Return, owner, state, tasks
<1>types. /\ pc \in [Threads -> {"run", "check", "compare", "block", "own", "acquired",
                               "drain", "willRelease", "unlock", "grab", "yield"}]
          /\ op \in [Threads -> {"none", "lock", "unlock", "doWork", "drop", "grab"}]
          /\ count \in [Threads -> Nat] /\ held \in [Threads -> Nat] /\ m_lockCount \in Nat
  BY Zenon DEF IInv, TypeOK
<1>1. ASSUME NEW t \in Threads, JSLockHolder(t) PROVE Tasks'
  <2>1. /\ UNCHANGED <<scopes, m_lockDropDepth>> /\ pc'[t] # "drain"
        /\ \A u \in Threads \ {t} : pc'[u] = pc[u] /\ op'[u] = op[u] /\ held'[u] = held[u]
    BY <1>types, <1>1, Zenon DEF JSLockHolder, lock, Mut!Acquire
  <2>2. pc[t] \in {"run", "check", "compare"} /\ held[t] > 0 =>
            pc'[t] \in {"run", "check", "compare"} /\ held'[t] > 0
    BY <1>types, <1>1 DEF IInv, Holding, Counts, Counted, Places, Placed, Has, Owns,
       currentThreadIsHoldingLock, JSLockHolder, lock, Mut!Acquire
  <2> QED BY <2>1, <2>2, SameScopes, Zenon DEF IInv
<1>2. ASSUME NEW t \in Threads, LoadHasOwnerThread(t) PROVE Tasks'
  <2>1. /\ UNCHANGED <<scopes, m_lockDropDepth>> /\ pc'[t] # "drain"
        /\ \A u \in Threads \ {t} : pc'[u] = pc[u] /\ op'[u] = op[u] /\ held'[u] = held[u]
    BY <1>types, <1>2, Zenon DEF LoadHasOwnerThread
  <2>2. pc[t] \in {"run", "check", "compare"} /\ held[t] > 0 =>
            pc'[t] \in {"run", "check", "compare"} /\ held'[t] > 0
    BY <1>types, <1>2 DEF IInv, Holding, Counts, Counted, Places, Placed, Has, Owns,
       currentThreadIsHoldingLock, LoadHasOwnerThread
  <2> QED BY <2>1, <2>2, SameScopes, Zenon DEF IInv
<1>3. ASSUME NEW t \in Threads, LoadOwnerThread(t) PROVE Tasks'
  <2>1. /\ UNCHANGED <<scopes, m_lockDropDepth>> /\ pc'[t] # "drain"
        /\ \A u \in Threads \ {t} : pc'[u] = pc[u] /\ op'[u] = op[u] /\ held'[u] = held[u]
    BY <1>types, <1>3, Zenon DEF LoadOwnerThread
  <2>2. pc[t] \in {"run", "check", "compare"} /\ held[t] > 0 =>
            pc'[t] \in {"run", "check", "compare"} /\ held'[t] > 0
    BY <1>types, <1>3, Zenon DEF IInv, Holding, Counts, Counted, Places, Placed, Has, Owns,
       currentThreadIsHoldingLock, LoadOwnerThread
  <2> QED BY <2>1, <2>2, SameScopes, Zenon DEF IInv
<1>4. ASSUME NEW t \in Threads, LockAgain(t) PROVE Tasks'
  <2>1. /\ UNCHANGED <<scopes, m_lockDropDepth>> /\ pc'[t] # "drain"
        /\ \A u \in Threads \ {t} : pc'[u] = pc[u] /\ op'[u] = op[u] /\ held'[u] = held[u]
    BY <1>types, <1>4, Zenon DEF LockAgain
  <2>2. pc[t] \in {"run", "check", "compare"} /\ held[t] > 0 =>
            pc'[t] \in {"run", "check", "compare"} /\ held'[t] > 0
    BY <1>types, <1>4 DEF IInv, Holding, Counts, Counted, Places, Placed, Has, Owns,
       currentThreadIsHoldingLock, LockAgain
  <2> QED BY <2>1, <2>2, SameScopes, Zenon DEF IInv
<1>5. ASSUME NEW t \in Threads, BlockingLock(t) PROVE Tasks'
  <2>1. /\ UNCHANGED <<scopes, m_lockDropDepth>> /\ pc'[t] # "drain"
        /\ \A u \in Threads \ {t} : pc'[u] = pc[u] /\ op'[u] = op[u] /\ held'[u] = held[u]
    BY <1>types, <1>5, Zenon DEF BlockingLock, Mut!Acquire
  <2>2. pc[t] \in {"run", "check", "compare"} /\ held[t] > 0 =>
            pc'[t] \in {"run", "check", "compare"} /\ held'[t] > 0
    BY <1>types, <1>5, Zenon DEF IInv, Holding, Counts, Counted, Places, Placed, Has, Owns,
       currentThreadIsHoldingLock, BlockingLock, Mut!Acquire
  <2> QED BY <2>1, <2>2, SameScopes, Zenon DEF IInv
<1>6. ASSUME NEW t \in Threads, SetOwnerThread(t) PROVE Tasks'
  <2>1. /\ UNCHANGED <<scopes, m_lockDropDepth>> /\ pc'[t] # "drain"
        /\ \A u \in Threads \ {t} : pc'[u] = pc[u] /\ op'[u] = op[u] /\ held'[u] = held[u]
    BY <1>types, <1>6, Zenon DEF SetOwnerThread
  <2>2. pc[t] \in {"run", "check", "compare"} /\ held[t] > 0 =>
            pc'[t] \in {"run", "check", "compare"} /\ held'[t] > 0
    BY <1>types, <1>6, Zenon DEF IInv, Holding, Counts, Counted, Places, Placed, Has, Owns,
       currentThreadIsHoldingLock, SetOwnerThread
  <2> QED BY <2>1, <2>2, SameScopes, Zenon DEF IInv
<1>7. ASSUME NEW t \in Threads, SetHasOwnerThread(t) PROVE Tasks'
  <2>1. /\ UNCHANGED <<scopes, m_lockDropDepth>> /\ pc'[t] # "drain"
        /\ \A u \in Threads \ {t} : pc'[u] = pc[u] /\ op'[u] = op[u] /\ held'[u] = held[u]
    BY <1>types, <1>7, Zenon DEF SetHasOwnerThread
  <2>2. pc[t] \in {"run", "check", "compare"} /\ held[t] > 0 =>
            pc'[t] \in {"run", "check", "compare"} /\ held'[t] > 0
    BY <1>types, <1>7, Zenon DEF IInv, Holding, Counts, Counted, Places, Placed, Has, Owns,
       currentThreadIsHoldingLock, SetHasOwnerThread
  <2> QED BY <2>1, <2>2, SameScopes, Zenon DEF IInv
<1>8. ASSUME NEW t \in Threads, UnlockOne(t) PROVE Tasks'
  <2>1. /\ UNCHANGED <<scopes, m_lockDropDepth>> /\ pc'[t] # "drain"
        /\ \A u \in Threads \ {t} : pc'[u] = pc[u] /\ op'[u] = op[u] /\ held'[u] = held[u]
    BY <1>types, <1>8, Zenon DEF UnlockOne
  <2>2. pc[t] \in {"run", "check", "compare"} /\ held[t] > 0 =>
            pc'[t] \in {"run", "check", "compare"} /\ held'[t] > 0
    BY <1>types, <1>8, OuterFacts DEF IInv, Holding, Counts, Counted, Places, Placed, Has, Owns,
       currentThreadIsHoldingLock, UnlockOne
  <2> QED BY <2>1, <2>2, SameScopes, Zenon DEF IInv
<1>9. ASSUME NEW t \in Threads, UnlockLast(t) PROVE Tasks'
  <2>1. pc[t] = "run" /\ held[t] > Outer(t) /\ m_lockCount = 1
    BY <1>9, Zenon DEF UnlockLast
  <2>2. /\ op[t] # "grab" /\ Outer(t) \in {0, 1} /\ (InScope(t, "task") => Outer(t) = 1)
        /\ Owns(t) => m_lockCount = held[t]
    BY <2>1, OuterFacts, Zenon DEF IInv, Places, Placed, Counts, Counted
  <2>3. Has(t) /\ ~InScope(t, "task")
    BY <1>types, <2>1, <2>2 DEF Has, Owns
  <2>4. /\ UNCHANGED <<scopes, m_lockDropDepth>>
        /\ \A u \in Threads \ {t} : pc'[u] = pc[u] /\ op'[u] = op[u]
        /\ pc'[t] = "drain" /\ op'[t] = "unlock" => m_lockDropDepth = 0
    BY <1>types, <1>9, Zenon DEF UnlockLast, BeginRelease
  <2> QED BY <2>3, <2>4, OutsideTasks, Zenon
<1>10. ASSUME NEW t \in Threads, RunMicrotask(t) PROVE Tasks'
  <2> DEFINE x == [kind |-> "task", by |-> op[t], count |-> held[t], depth |-> m_lockDropDepth]
  <2>1. /\ x \in Scopes /\ x.kind = "task" /\ x.by = op[t] /\ x.depth = m_lockDropDepth
        /\ held[t] = 1 /\ m_lockDropDepth \in Nat /\ pc[t] = "drain"
    BY <1>types, <1>10, DrainFacts, Zenon DEF IInv, TypeOK, Scopes, RunMicrotask
  <2>2. Push(t, x)
    BY <1>10, Zenon DEF RunMicrotask
  <2> HIDE DEF x
  <2>3. /\ Len(scopes[t]) \in Nat /\ Len(scopes'[t]) = Len(scopes[t]) + 1
        /\ \A u \in Threads \ {t} : scopes'[u] = scopes[u]
        /\ \A u \in Threads : \A i \in DOMAIN scopes[u] :
               i \in DOMAIN scopes'[u] /\ scopes'[u][i] = scopes[u][i]
        /\ \A u \in Threads : \A i \in DOMAIN scopes'[u] :
               \/ i \in DOMAIN scopes[u]
               \/ u = t /\ i = Len(scopes[t]) + 1
        /\ Len(scopes[t]) + 1 \in DOMAIN scopes'[t] \ DOMAIN scopes[t]
        /\ scopes'[t][Len(scopes[t]) + 1] = x
    BY <2>1, <2>2, Pushed, Zenon DEF IInv
  <2>4. /\ UNCHANGED m_lockDropDepth /\ pc'[t] = "run" /\ held'[t] = 1
        /\ \A u \in Threads \ {t} : pc'[u] = pc[u] /\ op'[u] = op[u]
    BY <1>types, <1>10, <2>1, Zenon DEF RunMicrotask
  <2>5. ASSUME NEW u \in Threads, NEW i \in DOMAIN scopes'[u], scopes'[u][i].kind = "task"
        PROVE  Apart(u, i)'
    <3>1. CASE i \in DOMAIN scopes[u]
      <4>1. scopes'[u][i] = scopes[u][i]
        BY <2>3, <3>1, Zenon
      <4>2. /\ scopes[u][i].depth \in Nat /\ scopes[u][i].depth < m_lockDropDepth
            /\ i < Len(scopes[u]) /\ scopes[u][i + 1].kind = "drop"
            /\ scopes[u][i + 1].depth = scopes[u][i].depth + 1
        BY <2>1, <2>5, <3>1, <4>1, TasksDropped, Zenon DEF Has
      <4>3. i + 1 \in DOMAIN scopes[u] /\ i \in Nat /\ Len(scopes[u]) \in Nat
        BY <3>1, <4>2, ScopesFacts DEF IInv
      <4>4. scopes'[u][i + 1] = scopes[u][i + 1] /\ Len(scopes[u]) <= Len(scopes'[u])
        BY <2>3, <4>3
      <4>5. Apart(u, i)
        BY <2>5, <3>1, <4>1, Zenon DEF IInv, Tasks
      <4>6. i < Len(scopes'[u])
        BY <2>3, <4>2, <4>3
      <4> QED BY <2>1, <2>4, <4>1, <4>2, <4>4, <4>5, <4>6 DEF Apart
    <3>2. CASE u = t /\ i = Len(scopes[t]) + 1
      <4>1. op[t] = "unlock" => m_lockDropDepth = 0
        BY <2>1, Zenon DEF IInv, Tasks
      <4> QED BY <2>1, <2>3, <2>4, <3>2, <4>1 DEF Apart
    <3> QED BY <2>3, <2>5, <3>1, <3>2, Zenon
  <2>6. ASSUME NEW u \in Threads, pc'[u] = "drain", op'[u] = "unlock"
        PROVE  m_lockDropDepth' = 0
    BY <2>4, <2>6, Zenon DEF IInv, Tasks
  <2> QED BY <2>5, <2>6, Zenon DEF Tasks
<1>11. ASSUME NEW t \in Threads, MicrotaskEnds(t) PROVE Tasks'
  <2>1. scopes[t] # <<>> /\ Pop(t)
    BY <1>types, <1>11, Zenon DEF IInv, Places, Placed, InScope, MicrotaskEnds
  <2>2. /\ Len(scopes[t]) \in Nat \ {0} /\ Len(scopes'[t]) = Len(scopes[t]) - 1
        /\ \A u \in Threads \ {t} : scopes'[u] = scopes[u]
        /\ \A u \in Threads : \A i \in DOMAIN scopes'[u] :
               i \in DOMAIN scopes[u] /\ scopes'[u][i] = scopes[u][i]
        /\ \A u \in Threads : \A i \in DOMAIN scopes[u] :
               \/ i \in DOMAIN scopes'[u]
               \/ u = t /\ i = Len(scopes[t])
        /\ Len(scopes[t]) \in DOMAIN scopes[t] \ DOMAIN scopes'[t]
    BY <2>1, Popped, Zenon DEF IInv
  <2>3. /\ scopes[t][Len(scopes[t])].kind = "task" /\ Has(t)
        /\ m_lockDropDepth \in Nat /\ UNCHANGED m_lockDropDepth
        /\ op'[t] = scopes[t][Len(scopes[t])].by
        /\ \A u \in Threads \ {t} : pc'[u] = pc[u] /\ op'[u] = op[u]
    <3>1. pc[t] = "run" /\ held[t] > 0
      BY <1>types, <1>11, OuterFacts DEF IInv, MicrotaskEnds
    <3>2. Has(t)
      BY <3>1, Zenon DEF Has
    <3> QED BY <1>types, <1>11, <3>2, Zenon DEF IInv, TypeOK, MicrotaskEnds, InScope, Top
  <2>4. ASSUME NEW u \in Threads, NEW i \in DOMAIN scopes'[u], scopes'[u][i].kind = "task"
        PROVE  Apart(u, i)'
    <3>1. i \in DOMAIN scopes[u] /\ scopes[u][i].kind = "task" /\ scopes'[u][i] = scopes[u][i]
      BY <2>2, <2>4, Zenon
    <3>2. Apart(u, i)
      BY <3>1, Zenon DEF IInv, Tasks
    <3>3. ASSUME scopes[u][i].depth = m_lockDropDepth PROVE FALSE
      <4>1. i = Len(scopes[u]) /\ pc[u] \in {"run", "check", "compare"} /\ held[u] > 0
        BY <3>2, <3>3, Zenon DEF Apart
      <4>2. u = t
        BY <2>3, <4>1, Zenon DEF IInv, Holding, Has
      <4> QED BY <2>2, <2>4, <4>1, <4>2, Zenon
    <3>4. scopes[u][i].depth < m_lockDropDepth =>
              /\ i < Len(scopes'[u]) /\ scopes'[u][i + 1].kind = "drop"
              /\ scopes'[u][i + 1].depth = scopes[u][i].depth + 1
      <4> SUFFICES ASSUME scopes[u][i].depth < m_lockDropDepth
                   PROVE  /\ i < Len(scopes'[u]) /\ scopes'[u][i + 1].kind = "drop"
                          /\ scopes'[u][i + 1].depth = scopes[u][i].depth + 1
        BY Zenon
      <4>1. /\ i < Len(scopes[u]) /\ scopes[u][i + 1].kind = "drop"
            /\ scopes[u][i + 1].depth = scopes[u][i].depth + 1
        BY <3>2, Zenon DEF Apart
      <4>2. i + 1 \in DOMAIN scopes[u] /\ i \in Nat /\ Len(scopes[u]) \in Nat
        BY <3>1, <4>1, ScopesFacts DEF IInv
      <4>3. ~(u = t /\ i + 1 = Len(scopes[t]))
        BY <2>3, <4>1
      <4>4. scopes'[u][i + 1] = scopes[u][i + 1]
        BY <2>2, <4>2, <4>3, Zenon
      <4>5. i < Len(scopes'[u])
        BY <2>2, <4>1, <4>2, <4>3
      <4> QED BY <4>1, <4>4, <4>5, Zenon
    <3> QED BY <2>3, <3>1, <3>2, <3>3, <3>4, Zenon DEF Apart
  <2>5. ASSUME NEW u \in Threads, pc'[u] = "drain", op'[u] = "unlock"
        PROVE  m_lockDropDepth' = 0
    <3>1. CASE u = t
      <4>1. Apart(t, Len(scopes[t]))
        BY <2>2, <2>3, Zenon DEF IInv, Tasks
      <4>2. scopes[t][Len(scopes[t])].depth = 0
        BY <2>3, <2>5, <3>1, <4>1, Zenon DEF Apart
      <4> QED BY <2>2, <2>3, <4>1, <4>2 DEF Apart
    <3>2. CASE u # t
      BY <2>3, <2>5, <3>2, Zenon DEF IInv, Tasks
    <3> QED BY <3>1, <3>2, Zenon
  <2> QED BY <2>4, <2>5, Zenon DEF Tasks
<1>12. ASSUME NEW t \in Threads, Drained(t) PROVE Tasks'
  <2>1. /\ UNCHANGED <<scopes, m_lockDropDepth>> /\ pc'[t] # "drain"
        /\ \A u \in Threads \ {t} : pc'[u] = pc[u] /\ op'[u] = op[u] /\ held'[u] = held[u]
    BY <1>types, <1>12, Zenon DEF Drained
  <2>2. pc[t] \in {"run", "check", "compare"} /\ held[t] > 0 =>
            pc'[t] \in {"run", "check", "compare"} /\ held'[t] > 0
    BY <1>types, <1>12, Zenon DEF IInv, Holding, Counts, Counted, Places, Placed, Has, Owns,
       currentThreadIsHoldingLock, Drained
  <2> QED BY <2>1, <2>2, SameScopes, Zenon DEF IInv
<1>13. ASSUME NEW t \in Threads, willReleaseLock(t) PROVE Tasks'
  <2>1. /\ UNCHANGED <<scopes, m_lockDropDepth>> /\ pc'[t] # "drain"
        /\ \A u \in Threads \ {t} : pc'[u] = pc[u] /\ op'[u] = op[u] /\ held'[u] = held[u]
    BY <1>types, <1>13, Zenon DEF willReleaseLock
  <2>2. pc[t] \in {"run", "check", "compare"} /\ held[t] > 0 =>
            pc'[t] \in {"run", "check", "compare"} /\ held'[t] > 0
    BY <1>types, <1>13, Zenon DEF IInv, Holding, Counts, Counted, Places, Placed, Has, Owns,
       currentThreadIsHoldingLock, willReleaseLock
  <2> QED BY <2>1, <2>2, SameScopes, Zenon DEF IInv
<1>14. ASSUME NEW t \in Threads, Unlock(t) PROVE Tasks'
  <2>1. /\ UNCHANGED <<scopes, m_lockDropDepth>> /\ pc'[t] # "drain"
        /\ \A u \in Threads \ {t} : pc'[u] = pc[u] /\ op'[u] = op[u] /\ held'[u] = held[u]
    BY <1>types, <1>14, Zenon DEF Unlock, Mut!Release
  <2>2. pc[t] \in {"run", "check", "compare"} /\ held[t] > 0 =>
            pc'[t] \in {"run", "check", "compare"} /\ held'[t] > 0
    BY <1>types, <1>14, Zenon DEF IInv, Holding, Counts, Counted, Places, Placed, Has, Owns,
       currentThreadIsHoldingLock, Unlock, Mut!Release
  <2> QED BY <2>1, <2>2, SameScopes, Zenon DEF IInv
<1>15. ASSUME NEW t \in Threads, dropAllLocks(t) PROVE Tasks'
  <2> DEFINE x == [kind |-> "drop", by |-> "drop", count |-> m_lockCount,
                   depth |-> m_lockDropDepth + 1]
  <2>1. /\ x \in Scopes /\ x.kind = "drop" /\ x.depth = m_lockDropDepth + 1
        /\ m_lockDropDepth \in Nat /\ m_lockDropDepth' = m_lockDropDepth + 1
    BY <1>types, <1>15 DEF IInv, TypeOK, Scopes, dropAllLocks
  <2>2. Push(t, x)
    BY <1>15, Zenon DEF dropAllLocks
  <2> HIDE DEF x
  <2>3. /\ Len(scopes[t]) \in Nat /\ Len(scopes'[t]) = Len(scopes[t]) + 1
        /\ \A u \in Threads \ {t} : scopes'[u] = scopes[u]
        /\ \A u \in Threads : \A i \in DOMAIN scopes[u] :
               i \in DOMAIN scopes'[u] /\ scopes'[u][i] = scopes[u][i]
        /\ \A u \in Threads : \A i \in DOMAIN scopes'[u] :
               \/ i \in DOMAIN scopes[u]
               \/ u = t /\ i = Len(scopes[t]) + 1
        /\ Len(scopes[t]) + 1 \in DOMAIN scopes'[t] \ DOMAIN scopes[t]
        /\ scopes'[t][Len(scopes[t]) + 1] = x
    BY <2>1, <2>2, Pushed, Zenon DEF IInv
  <2>4. ASSUME NEW u \in Threads,
               pc[u] = "drain" \/ (pc[u] \in {"run", "check", "compare"} /\ held[u] > 0)
        PROVE  u = t
    BY <1>types, <1>15, <2>4, Zenon DEF IInv, Holding, Counts, Counted, Places, Placed, Has, Owns,
       currentThreadIsHoldingLock, dropAllLocks
  <2>5. ASSUME NEW u \in Threads, NEW i \in DOMAIN scopes'[u], scopes'[u][i].kind = "task"
        PROVE  Apart(u, i)'
    <3>1. i \in DOMAIN scopes[u] /\ scopes[u][i].kind = "task" /\ scopes'[u][i] = scopes[u][i]
      BY <2>1, <2>3, <2>5, Zenon
    <3>2. Apart(u, i) /\ scopes[u][i].depth \in Nat
      <4>1. scopes[u] \in Seq(Scopes)
        BY Zenon DEF IInv, TypeOK
      <4>2. scopes[u][i] \in Scopes
        BY <3>1, <4>1
      <4>3. scopes[u][i].depth \in Nat
        BY <4>2 DEF Scopes
      <4> QED BY <3>1, <4>3, Zenon DEF IInv, Tasks
    <3>3. /\ i < Len(scopes'[u]) /\ scopes'[u][i + 1].kind = "drop"
          /\ scopes'[u][i + 1].depth = scopes[u][i].depth + 1
      <4>1. CASE scopes[u][i].depth = m_lockDropDepth
        <5>1. i = Len(scopes[u]) /\ u = t
          BY <2>4, <3>2, <4>1, Zenon DEF Apart
        <5> QED BY <2>1, <2>3, <4>1, <5>1
      <4>2. CASE scopes[u][i].depth < m_lockDropDepth
        <5>1. /\ i < Len(scopes[u]) /\ scopes[u][i + 1].kind = "drop"
              /\ scopes[u][i + 1].depth = scopes[u][i].depth + 1
          BY <3>2, <4>2, Zenon DEF Apart
        <5>2. i + 1 \in DOMAIN scopes[u] /\ i \in Nat /\ Len(scopes[u]) \in Nat
          BY <3>1, <5>1, ScopesFacts DEF IInv
        <5>3. Len(scopes[u]) <= Len(scopes'[u])
          BY <2>3, <5>2
        <5> QED BY <2>3, <5>1, <5>2, <5>3
      <4> QED BY <2>1, <3>2, <4>1, <4>2 DEF Apart
    <3>4. scopes[u][i].depth < m_lockDropDepth'
      BY <2>1, <3>2 DEF Apart
    <3> QED BY <2>1, <3>1, <3>2, <3>3, <3>4 DEF Apart
  <2>6. \A u \in Threads : pc'[u] # "drain"
    BY <1>types, <1>15, <2>4, DropReleases, Zenon
  <2> QED BY <2>5, <2>6, Zenon DEF Tasks
<1>16. ASSUME NEW t \in Threads, grabAllLocks(t) PROVE Tasks'
  <2>1. /\ UNCHANGED <<scopes, m_lockDropDepth>> /\ pc'[t] # "drain"
        /\ \A u \in Threads \ {t} : pc'[u] = pc[u] /\ op'[u] = op[u] /\ held'[u] = held[u]
    BY <1>types, <1>16, Zenon DEF grabAllLocks, lock, Mut!Acquire
  <2>2. pc[t] \in {"run", "check", "compare"} /\ held[t] > 0 =>
            pc'[t] \in {"run", "check", "compare"} /\ held'[t] > 0
    BY <1>types, <1>16 DEF IInv, Holding, Counts, Counted, Places, Placed, Has, Owns,
       currentThreadIsHoldingLock, grabAllLocks, lock, Mut!Acquire
  <2> QED BY <2>1, <2>2, SameScopes, Zenon DEF IInv
<1>17. ASSUME NEW t \in Threads, NotMyTurn(t) PROVE Tasks'
  <2>1. /\ UNCHANGED <<scopes, m_lockDropDepth>> /\ pc'[t] # "drain"
        /\ \A u \in Threads \ {t} : pc'[u] = pc[u] /\ op'[u] = op[u] /\ held'[u] = held[u]
    BY <1>types, <1>17, TurnReleases, Zenon DEF NotMyTurn
  <2>2. pc[t] \in {"run", "check", "compare"} /\ held[t] > 0 =>
            pc'[t] \in {"run", "check", "compare"} /\ held'[t] > 0
    BY <1>types, <1>17, TurnReleases, Zenon DEF IInv, Holding, Counts, Counted, Places, Placed, Has,
       Owns, currentThreadIsHoldingLock, NotMyTurn
  <2> QED BY <2>1, <2>2, SameScopes, Zenon DEF IInv
<1>18. ASSUME NEW t \in Threads, TryAgain(t) PROVE Tasks'
  <2>1. /\ UNCHANGED <<scopes, m_lockDropDepth>> /\ pc'[t] # "drain"
        /\ \A u \in Threads \ {t} : pc'[u] = pc[u] /\ op'[u] = op[u] /\ held'[u] = held[u]
    BY <1>types, <1>18, Zenon DEF TryAgain, lock, Mut!Acquire
  <2>2. pc[t] \in {"run", "check", "compare"} /\ held[t] > 0 =>
            pc'[t] \in {"run", "check", "compare"} /\ held'[t] > 0
    BY <1>types, <1>18, Zenon DEF IInv, Holding, Counts, Counted, Places, Placed, Has, Owns,
       currentThreadIsHoldingLock, TryAgain, lock, Mut!Acquire
  <2> QED BY <2>1, <2>2, SameScopes, Zenon DEF IInv
<1>19. ASSUME NEW t \in Threads, Grabbed(t) PROVE Tasks'
  <2>1. scopes[t] # <<>> /\ Pop(t)
    BY <1>types, <1>19, Zenon DEF IInv, Places, Placed, InScope, Grabbed
  <2>2. /\ Len(scopes[t]) \in Nat \ {0} /\ Len(scopes'[t]) = Len(scopes[t]) - 1
        /\ \A u \in Threads \ {t} : scopes'[u] = scopes[u]
        /\ \A u \in Threads : \A i \in DOMAIN scopes'[u] :
               i \in DOMAIN scopes[u] /\ scopes'[u][i] = scopes[u][i]
        /\ \A u \in Threads : \A i \in DOMAIN scopes[u] :
               \/ i \in DOMAIN scopes'[u]
               \/ u = t /\ i = Len(scopes[t])
        /\ Len(scopes[t]) \in DOMAIN scopes[t] \ DOMAIN scopes'[t]
    BY <2>1, Popped, Zenon DEF IInv
  <2>3. /\ m_lockDropDepth \in Nat \ {0} /\ m_lockDropDepth' = m_lockDropDepth - 1
        /\ scopes[t][Len(scopes[t])].kind = "drop"
        /\ scopes[t][Len(scopes[t])].depth = m_lockDropDepth
    BY <1>19, <2>2 DEF IInv, TypeOK, Places, Placed, InScope, Top, DropsInOrder, Grabbed
  <2>4. Has(t) /\ ~InScope(t, "task")
    BY <1>19, <2>3, Zenon DEF Has, InScope, Grabbed
  <2>5. held'[t] > 0 /\ pc'[t] = "run"
    BY <1>types, <1>19, Zenon DEF IInv, Places, Placed, Grabbed
  <2>6. ASSUME NEW u \in Threads, NEW i \in DOMAIN scopes'[u], scopes'[u][i].kind = "task"
        PROVE  Apart(u, i)'
    <3>1. i \in DOMAIN scopes[u] /\ scopes[u][i].kind = "task" /\ scopes'[u][i] = scopes[u][i]
      BY <2>2, <2>6, Zenon
    <3>2. /\ scopes[u][i].depth \in Nat /\ scopes[u][i].depth < m_lockDropDepth
          /\ i < Len(scopes[u]) /\ scopes[u][i + 1].kind = "drop"
          /\ scopes[u][i + 1].depth = scopes[u][i].depth + 1
      BY <2>4, <3>1, TasksDropped, Zenon
    <3>3. i + 1 \in DOMAIN scopes[u] /\ i \in Nat /\ Len(scopes[u]) \in Nat
      BY <3>1, <3>2, ScopesFacts DEF IInv
    <3>4. scopes[u][i].by = "unlock" => scopes[u][i].depth = 0
      BY <3>1, Zenon DEF IInv, Tasks, Apart
    <3>5. CASE scopes[u][i].depth + 1 = m_lockDropDepth
      <4>1. u = t /\ i + 1 = Len(scopes[t])
        <5>1. scopes[u][i + 1].depth = scopes[t][Len(scopes[t])].depth
          BY <2>3, <3>2, <3>5
        <5>2. ASSUME NEW j \in DOMAIN scopes[u], scopes[u][j].kind = "drop",
                     scopes[u][j].depth = scopes[t][Len(scopes[t])].depth
              PROVE  u = t /\ j = Len(scopes[t])
          <6>1. \A v, w \in Threads : \A m \in DOMAIN scopes[v], n \in DOMAIN scopes[w] :
                    scopes[v][m].kind = "drop" /\ scopes[w][n].kind = "drop"
                    /\ scopes[v][m].depth = scopes[w][n].depth => v = w /\ m = n
            BY DEF IInv, DropsInOrder
          <6>2. Len(scopes[t]) \in DOMAIN scopes[t] /\ scopes[t][Len(scopes[t])].kind = "drop"
            BY <2>2, <2>3, Zenon
          <6> QED BY <5>2, <6>1, <6>2, Zenon
        <5> QED BY <3>2, <3>3, <5>1, <5>2, Zenon
      <4>2. /\ scopes[u][i].depth = m_lockDropDepth'
            /\ scopes[u][i].depth <= m_lockDropDepth' /\ ~(scopes[u][i].depth < m_lockDropDepth')
        BY <2>3, <3>2, <3>5
      <4>3. i = Len(scopes'[u])
        BY <2>2, <3>3, <4>1
      <4>4. pc'[u] \in {"run", "check", "compare"} /\ held'[u] > 0
        BY <2>5, <4>1, Zenon
      <4> QED BY <3>1, <3>4, <4>2, <4>3, <4>4, Zenon DEF Apart
    <3>6. CASE scopes[u][i].depth + 1 # m_lockDropDepth
      <4>1. ~(u = t /\ i + 1 = Len(scopes[t]))
        BY <2>3, <3>2, <3>6
      <4>2. scopes'[u][i + 1] = scopes[u][i + 1]
        BY <2>2, <3>3, <4>1, Zenon
      <4>3. i < Len(scopes'[u])
        BY <2>2, <3>2, <3>3, <4>1
      <4>4. scopes[u][i].depth < m_lockDropDepth'
        BY <2>3, <3>2, <3>6
      <4> QED BY <2>3, <3>1, <3>2, <3>4, <4>2, <4>3, <4>4 DEF Apart
    <3> QED BY <3>5, <3>6, Zenon
  <2>7. ASSUME NEW u \in Threads PROVE pc'[u] # "drain"
    <3>1. pc[u] = "drain" => u = t
      BY <2>4, Zenon DEF IInv, Holding, Has
    <3>2. u # t => pc'[u] = pc[u]
      BY <1>types, <1>19, Zenon DEF Grabbed
    <3> QED BY <2>5, <3>1, <3>2, Zenon
  <2> QED BY <2>6, <2>7, Zenon DEF Tasks
<1>20. ASSUME NEW t \in Threads, queueMicrotask(t) PROVE Tasks'
  <2>1. /\ UNCHANGED <<scopes, m_lockDropDepth>> /\ pc'[t] # "drain"
        /\ \A u \in Threads \ {t} : pc'[u] = pc[u] /\ op'[u] = op[u] /\ held'[u] = held[u]
    BY <1>types, <1>20, Zenon DEF queueMicrotask
  <2>2. pc[t] \in {"run", "check", "compare"} /\ held[t] > 0 =>
            pc'[t] \in {"run", "check", "compare"} /\ held'[t] > 0
    BY <1>types, <1>20, Zenon DEF IInv, Holding, Counts, Counted, Places, Placed, Has, Owns,
       currentThreadIsHoldingLock, queueMicrotask
  <2> QED BY <2>1, <2>2, SameScopes, Zenon DEF IInv
<1>21. CASE UNCHANGED vars
  BY <1>21, Zenon DEF IInv, Tasks, Apart, vars
<1>22. ASSUME NEW t \in Threads, doWork(t) PROVE Tasks'
  <2>1. pc[t] = "run" /\ held[t] = 1 /\ Outer(t) = 0
    BY <1>22, Zenon DEF doWork
  <2>2. Has(t) /\ ~InScope(t, "task")
    BY <2>1, OuterFacts DEF Has
  <2>3. /\ UNCHANGED <<scopes, m_lockDropDepth>> /\ op'[t] = "doWork"
        /\ \A u \in Threads \ {t} : pc'[u] = pc[u] /\ op'[u] = op[u]
    BY <1>types, <1>22, Zenon DEF doWork
  <2> QED BY <2>2, <2>3, OutsideTasks, Zenon
<1>23. ASSUME NEW t \in Threads, WorkDone(t) PROVE Tasks'
  <2>1. Has(t) /\ pc[t] = "drain"
    BY <1>23, Zenon DEF Has, WorkDone
  <2>2. /\ UNCHANGED <<scopes, m_lockDropDepth>> /\ pc'[t] = "run"
        /\ \A u \in Threads \ {t} : pc'[u] = pc[u] /\ op'[u] = op[u]
    BY <1>types, <1>23, Zenon DEF WorkDone
  <2> QED BY <2>1, <2>2, OutsideTasks, Zenon
<1> HIDE DEF Tasks
<1> QED BY <1>1, <1>2, <1>3, <1>4, <1>5, <1>6, <1>7, <1>8, <1>9, <1>10, <1>11, <1>12, <1>13,
   <1>14, <1>15, <1>16, <1>17, <1>18, <1>19, <1>20, <1>21, <1>22, <1>23, Zenon
   DEF Next, Proceed, Leave

-----------------------------------------------------------------------------
\* A new JSLock and the threads that have not used it satisfy the invariant
LEMMA InitInv == Init => IInv
<1> SUFFICES ASSUME Init PROVE IInv
  BY Zenon
<1>1. LockTypes
  <2>1. /\ m_hasOwnerThread \in BOOLEAN /\ m_shouldReleaseHeapAccess \in BOOLEAN
        /\ heapAccess \in BOOLEAN
    BY Zenon DEF Init
  <2>2. 0 \in 0 .. 0 /\ 0 \in 0 .. MaxMicrotasks
    BY BoundsAssumption
  <2>3. /\ m_lock \in SUBSET Threads /\ machineThreads \in SUBSET Threads
        /\ m_lockCount \in Nat /\ m_lockDropDepth \in Nat
        /\ microtasks \in 0 .. enqueued /\ enqueued \in 0 .. MaxMicrotasks
    BY <2>2, Zenon DEF Init
  <2>4. /\ m_ownerThread = Null /\ m_entryAtomStringTable = Null
        /\ m_lastOwnerThread = Null /\ stackPointerAtVMEntry = Null
    BY Zenon DEF Init
  <2> QED BY <2>1, <2>3, <2>4, Zenon DEF LockTypes
<1>2. ThreadTypes
  <2>1. <<>> \in Seq(Scopes) /\ 0 \in 0 .. MaxScopes
    BY BoundsAssumption
  <2> QED BY <2>1, Zenon DEF Init, ThreadTypes
<1>3. Holding /\ Counts
  BY NamesAssumption DEF Init, Holding, Counts, Counted, Has, Owns, currentThreadIsHoldingLock
<1>4. Places /\ VMState /\ Quiet
  BY Zenon DEF Init, Places, Placed, VMState, Quiet, currentThreadIsHoldingLock
<1>5. \A t \in Threads : DOMAIN scopes[t] = {}
  <2>1. DOMAIN <<>> = {}
    <3>1. Len(<<>>) = 0 /\ <<>> \in Seq(Scopes)
      OBVIOUS
    <3> QED BY <3>1
  <2> QED BY <2>1, Zenon DEF Init
<1>6. Notes /\ DropsInOrder
  BY <1>5 DEF Init, Notes, DropsInOrder
<1>7. Tasks
  BY <1>5, Zenon DEF Init, Tasks
<1> QED BY <1>1, <1>2, <1>3, <1>4, <1>6, <1>7, Types, Zenon DEF IInv

\* Every operation of every thread keeps it
LEMMA Invariance == Spec => []IInv
<1>1. IInv /\ [Next]_vars => IInv'
  <2> SUFFICES ASSUME IInv, [Next]_vars PROVE IInv'
    BY Zenon
  <2>1. TypeOK'
    <3>1. LockTypes' /\ ThreadTypes'
      BY LockTypeStep, ThreadTypeStep, Zenon
    <3> QED BY <3>1, Zenon DEF TypeOK, LockTypes, ThreadTypes
  <2>2. Holding' /\ Counts' /\ Places' /\ Notes'
    BY HoldingStep, CountsStep, PlacesStep, NotesStep, Zenon
  <2>3. VMState' /\ DropsInOrder' /\ Quiet' /\ Tasks'
    BY VMStateStep, DropsStep, QuietStep, TasksStep, Zenon
  <2> QED BY <2>1, <2>2, <2>3, Zenon DEF IInv
<1> QED BY InitInv, <1>1, PTL DEF Spec

\* The variables of the lock, of the VM and of the threads keep their types: counts and depths
\* never go below zero (unlock, grabAllLocks).
THEOREM JSLockTypeCorrect == Spec => []TypeOK
<1>1. IInv => TypeOK
  BY Zenon DEF IInv
<1> QED BY Invariance, <1>1, PTL

\* Whoever has a JSLockHolder open has the lock, alone and with as many levels as it opened, also
\* after other threads had it inside a DropAllLocks (lock, unlock, dropAllLocks, grabAllLocks).
THEOREM HoldersHaveTheLock == Spec => []HolderHasLock
<1>1. IInv => HolderHasLock
  <2> SUFFICES ASSUME IInv, NEW t \in Threads
               PROVE  /\ held[t] > 0 => m_lock = {t}
                      /\ At(t, "run") => /\ currentThreadIsHoldingLock(t) <=> held[t] > 0
                                         /\ held[t] > 0 => m_lockCount = held[t]
    BY Zenon DEF HolderHasLock
  <2>1. held[t] \in Nat /\ pc[t] \in {"run", "check", "compare", "block", "own", "acquired",
                                     "drain", "willRelease", "unlock", "grab", "yield"}
    BY Zenon DEF IInv, TypeOK
  <2>2. held[t] > 0 => Has(t)
    BY <2>1 DEF IInv, Counts, Counted, Places, Placed, Has
  <2>3. Has(t) => m_lock = {t}
    BY Zenon DEF IInv, Holding
  <2>4. At(t, "run") => (Owns(t) <=> held[t] > 0) /\ op[t] # "grab"
    BY Zenon DEF IInv, Places, Placed, At, Owns
  <2> QED BY <2>2, <2>3, <2>4, Zenon DEF IInv, Holding, Counts, Counted
<1> QED BY Invariance, <1>1, PTL

\* The VM is set up for the thread that runs JavaScript in it: heap access, stack, atom strings
\* and the registration of the thread (didAcquireLock, willReleaseLock, grabAllLocks).
THEOREM VMIsReady == Spec => []VMFollowsHolder
<1>1. IInv => VMFollowsHolder
  <2> SUFFICES ASSUME IInv, NEW t \in Threads
               PROVE  /\ At(t, "run") /\ held[t] > 0 =>
                            /\ heapAccess /\ stackPointerAtVMEntry = t
                            /\ atomStringTable[t] = VM /\ t \in machineThreads
                      /\ At(t, "run") /\ held[t] = 0 => atomStringTable[t] = t
                      /\ At(t, "acquired") =>
                            stackPointerAtVMEntry = Null /\ m_entryAtomStringTable = Null
    BY Zenon DEF VMFollowsHolder
  <2>1. At(t, "run") /\ held[t] > 0 => Owns(t)
    BY Zenon DEF At, Owns
  <2>2. At(t, "run") /\ held[t] = 0 => ~Owns(t)
    BY DEF At, Owns
  <2>3. At(t, "acquired") => ~m_hasOwnerThread
    BY Zenon DEF IInv, Holding, At, Has, Owns, currentThreadIsHoldingLock
  <2> QED BY <2>1, <2>2, <2>3, Zenon DEF IInv, Holding, VMState, currentThreadIsHoldingLock
<1> QED BY Invariance, <1>1, PTL

\* There is always exactly one DropAllLocks whose turn it is to take its levels back, on whatever
\* threads they are (dropAllLocks, grabAllLocks).
THEOREM DropsAreOrdered == Spec => []DropsInOrder
<1>1. IInv => DropsInOrder
  BY Zenon DEF IInv
<1> QED BY Invariance, <1>1, PTL

\* The last thread out has run all microtasks (willReleaseLock).
THEOREM NoMicrotaskIsLeft == Spec => []MicrotasksDrained
<1>1. IInv => MicrotasksDrained
  BY Zenon DEF IInv, Holding, Quiet, MicrotasksDrained
<1> QED BY Invariance, <1>1, PTL

\* A microtask starts while another is open only from doWork, and only inside a DropAllLocks that
\* the open one made: unlock, although it lets other threads in and out of the VM while a
\* microtask has dropped the lock, never starts one then (willReleaseLock, drainMicrotasks).
THEOREM MicrotasksDoNotNest == Spec => OneMicrotask
<1> DEFINE A == microtasks' < microtasks =>
                    \A t \in Threads : \A i \in DOMAIN scopes[t] : scopes[t][i].kind = "task" =>
                        /\ \E u \in Threads : At(u, "drain") /\ op[u] = "doWork"
                        /\ i < Len(scopes[t]) /\ scopes[t][i + 1].kind = "drop"
<1>1. IInv /\ [Next]_vars => [A]_vars
  <2> SUFFICES ASSUME IInv, [Next]_vars, microtasks' < microtasks
               PROVE  \A t \in Threads : \A i \in DOMAIN scopes[t] : scopes[t][i].kind = "task" =>
                          /\ \E u \in Threads : At(u, "drain") /\ op[u] = "doWork"
                          /\ i < Len(scopes[t]) /\ scopes[t][i + 1].kind = "drop"
    BY Zenon
  <2>1. ~UNCHANGED tasks
    <3>1. microtasks \in Nat
      BY BoundsAssumption DEF IInv, TypeOK
    <3> QED BY <3>1 DEF tasks
  <2>2. PICK t \in Threads : RunMicrotask(t)
    <3>1. \/ UNCHANGED vars
          \/ \E t \in Threads : Proceed(t) \/ BlockingLock(t) \/ Leave(t) \/ JSLockHolder(t)
                                \/ doWork(t) \/ dropAllLocks(t) \/ queueMicrotask(t)
      BY Zenon DEF Next
    <3>2. ~UNCHANGED vars
      BY <2>1, Zenon DEF vars
    <3>3. ASSUME NEW t \in Threads PROVE ~queueMicrotask(t)
      <4>1. microtasks \in Nat
        BY BoundsAssumption DEF IInv, TypeOK
      <4>2. queueMicrotask(t) => microtasks' = microtasks + 1
        BY Zenon DEF queueMicrotask
      <4> QED BY <4>1, <4>2
    <3>4. ASSUME NEW t \in Threads, Proceed(t) PROVE RunMicrotask(t)
      <4>1. LoadHasOwnerThread(t) => UNCHANGED tasks
        BY Zenon DEF LoadHasOwnerThread
      <4>2. LoadOwnerThread(t) => UNCHANGED tasks
        BY Zenon DEF LoadOwnerThread
      <4>3. LockAgain(t) => UNCHANGED tasks
        BY Zenon DEF LockAgain
      <4>4. SetOwnerThread(t) => UNCHANGED tasks
        BY Zenon DEF SetOwnerThread
      <4>5. SetHasOwnerThread(t) => UNCHANGED tasks
        BY Zenon DEF SetHasOwnerThread
      <4>6. Drained(t) => UNCHANGED tasks
        BY Zenon DEF Drained
      <4>7. willReleaseLock(t) => UNCHANGED tasks
        BY Zenon DEF willReleaseLock
      <4>8. Unlock(t) => UNCHANGED tasks
        BY Zenon DEF Unlock
      <4>9. NotMyTurn(t) => UNCHANGED tasks
        BY Zenon DEF NotMyTurn
      <4>10. TryAgain(t) => UNCHANGED tasks
        BY Zenon DEF TryAgain, lock
      <4>11. Grabbed(t) => UNCHANGED tasks
        BY Zenon DEF Grabbed
      <4>12. WorkDone(t) => UNCHANGED tasks
        BY Zenon DEF WorkDone
      <4> QED BY <2>1, <3>4, <4>1, <4>2, <4>3, <4>4, <4>5, <4>6, <4>7, <4>8, <4>9, <4>10, <4>11,
         <4>12, Zenon DEF Proceed
    <3>5. ASSUME NEW t \in Threads PROVE ~Leave(t)
      <4>1. UnlockOne(t) => UNCHANGED tasks
        BY Zenon DEF UnlockOne
      <4>2. UnlockLast(t) => UNCHANGED tasks
        BY Zenon DEF UnlockLast
      <4>3. MicrotaskEnds(t) => UNCHANGED tasks
        BY Zenon DEF MicrotaskEnds
      <4>4. grabAllLocks(t) => UNCHANGED tasks
        BY Zenon DEF grabAllLocks, lock
      <4> QED BY <2>1, <4>1, <4>2, <4>3, <4>4, Zenon DEF Leave
    <3>6. ASSUME NEW t \in Threads
          PROVE  ~(BlockingLock(t) \/ JSLockHolder(t) \/ doWork(t) \/ dropAllLocks(t))
      <4>1. BlockingLock(t) => UNCHANGED tasks
        BY Zenon DEF BlockingLock
      <4>2. JSLockHolder(t) => UNCHANGED tasks
        BY Zenon DEF JSLockHolder, lock
      <4>3. dropAllLocks(t) => UNCHANGED tasks
        BY Zenon DEF dropAllLocks
      <4>4. doWork(t) => UNCHANGED tasks
        BY Zenon DEF doWork
      <4> QED BY <2>1, <4>1, <4>2, <4>3, <4>4, Zenon
    <3> QED BY <3>1, <3>2, <3>3, <3>4, <3>5, <3>6, Zenon
  <2>3. /\ At(t, "drain") /\ Has(t) /\ op[t] \in {"unlock", "doWork"}
        /\ op[t] = "unlock" => m_lockDropDepth = 0
    BY <2>2, DrainFacts, Zenon DEF IInv, Tasks, Has, RunMicrotask, At
  <2> SUFFICES ASSUME NEW v \in Threads, NEW i \in DOMAIN scopes[v], scopes[v][i].kind = "task"
               PROVE  /\ op[t] = "doWork"
                      /\ i < Len(scopes[v]) /\ scopes[v][i + 1].kind = "drop"
    BY <2>3, Zenon
  <2>4. /\ scopes[v][i].depth \in Nat /\ scopes[v][i].depth < m_lockDropDepth
        /\ i < Len(scopes[v]) /\ scopes[v][i + 1].kind = "drop"
    BY <2>3, TasksDropped, Zenon DEF At
  <2>5. m_lockDropDepth # 0
    BY <2>4
  <2> QED BY <2>3, <2>4, <2>5, Zenon
<1> QED BY Invariance, <1>1, PTL DEF Spec, OneMicrotask

=============================================================================

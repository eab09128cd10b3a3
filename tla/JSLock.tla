------------------------------- MODULE JSLock -------------------------------
(***************************************************************************)
(* JSC::JSLock (runtime/JSLock.cpp, JSLock.h): the recursive API lock of a *)
(* VM, the state of the VM and of the thread that taking and releasing it  *)
(* moves, and JSLock::DropAllLocks, which gives up every level of the lock *)
(* for a while and takes them back in the reverse of the order in which    *)
(* threads gave theirs up.                                                 *)
(*                                                                         *)
(* m_lock is a WTF::Lock: its steps are those of Mutex, which Lock         *)
(* implements.  The clients are threads that nest JSLockHolder and         *)
(* DropAllLocks objects, microtasks that run while the last JSLockHolder   *)
(* of a thread lets go of the lock, and DeferredWorkTimer, which runs      *)
(* them on the VM's run loop.  A stack pointer is modelled by the thread   *)
(* whose stack it points into.                                             *)
(***************************************************************************)
EXTENDS Naturals, Sequences

CONSTANTS Threads, Null, VM,
          RunLoop,        \* the thread that runs the run loop of the VM
          MaxScopes,      \* bound on the JSLockHolders and DropAllLocks a thread makes, and the
                          \* deferred work it does, before it has closed all of them
          MaxMicrotasks   \* bound on the microtasks that are ever enqueued

ASSUME NamesAssumption == Null \notin Threads /\ VM \notin Threads \cup {Null}
ASSUME BoundsAssumption == {MaxScopes, MaxMicrotasks} \subseteq Nat

VARIABLES m_lock,              \* the threads that hold the WTF::Lock
          m_ownerThread, m_hasOwnerThread, m_lockCount, m_lockDropDepth,
          m_entryAtomStringTable, m_shouldReleaseHeapAccess, m_lastOwnerThread,
          heapAccess,          \* Heap::hasAccess
          stackPointerAtVMEntry, machineThreads,
          microtasks,          \* the length of m_microtaskQueue
          enqueued,            \* how many microtasks were ever enqueued
          atomStringTable, savedStackPointerAtVMEntry,   \* of each Thread
          pc, op, count,       \* where a thread is, in what operation, for how many levels
          held,                \* JSLockHolders the thread has open since its last drop
          scopes,              \* its open DropAllLocks and running microtasks, outermost first
          made                 \* how many scopes it made since it had none open

owner == <<m_lock, m_ownerThread, m_hasOwnerThread>>
state == <<m_entryAtomStringTable, m_shouldReleaseHeapAccess, m_lastOwnerThread, heapAccess,
        stackPointerAtVMEntry, machineThreads, atomStringTable>>
tasks == <<microtasks, enqueued>>
vars == <<owner, m_lockCount, m_lockDropDepth, state, tasks, savedStackPointerAtVMEntry,
          pc, op, count, held, scopes, made>>

\* What a scope has noted: whose it is, and m_lockCount and m_lockDropDepth as it began
Scopes == [kind : {"drop", "task"}, by : {"drop", "unlock", "doWork"}, count : Nat, depth : Nat]

TypeOK ==
    /\ m_lock \in SUBSET Threads
    /\ m_ownerThread \in Threads \cup {Null} /\ m_hasOwnerThread \in BOOLEAN
    /\ m_lockCount \in Nat /\ m_lockDropDepth \in Nat
    /\ m_entryAtomStringTable \in Threads \cup {VM, Null}
    /\ m_shouldReleaseHeapAccess \in BOOLEAN /\ heapAccess \in BOOLEAN
    /\ m_lastOwnerThread \in Threads \cup {Null}
    /\ stackPointerAtVMEntry \in Threads \cup {Null}
    /\ machineThreads \in SUBSET Threads
    /\ microtasks \in 0 .. enqueued /\ enqueued \in 0 .. MaxMicrotasks
    /\ atomStringTable \in [Threads -> Threads \cup {VM}]
    /\ savedStackPointerAtVMEntry \in [Threads -> Threads \cup {Null}]
    /\ pc \in [Threads -> {"run", "check", "compare", "block", "own", "acquired",
                           "drain", "willRelease", "unlock", "grab", "yield"}]
    /\ op \in [Threads -> {"none", "lock", "unlock", "doWork", "drop", "grab"}]
    /\ count \in [Threads -> Nat]
    /\ held \in [Threads -> Nat]
    /\ scopes \in [Threads -> Seq(Scopes)]
    /\ made \in [Threads -> 0 .. MaxScopes]

Init ==
    /\ m_lock = {} /\ m_ownerThread = Null /\ m_hasOwnerThread = FALSE
    /\ m_lockCount = 0 /\ m_lockDropDepth = 0
    /\ m_entryAtomStringTable = Null
    /\ m_shouldReleaseHeapAccess = FALSE /\ heapAccess = FALSE
    /\ m_lastOwnerThread = Null /\ stackPointerAtVMEntry = Null
    /\ machineThreads = {}
    /\ microtasks = 0 /\ enqueued = 0
    /\ atomStringTable = [t \in Threads |-> t]
    /\ savedStackPointerAtVMEntry = [t \in Threads |-> Null]
    /\ pc = [t \in Threads |-> "run"]
    /\ op = [t \in Threads |-> "none"]
    /\ count = [t \in Threads |-> 0]
    /\ held = [t \in Threads |-> 0]
    /\ scopes = [t \in Threads |-> <<>>]
    /\ made = [t \in Threads |-> 0]

Mut == INSTANCE Mutex WITH holders <- m_lock

At(t, l) == pc[t] = l
Goto(t, l) == pc' = [pc EXCEPT ![t] = l]
Call(t, o, n) == op' = [op EXCEPT ![t] = o] /\ count' = [count EXCEPT ![t] = n]
\* The operation is over, and the client of the lock goes on
Return(t) == Goto(t, "run") /\ Call(t, "none", 0)

currentThreadIsHoldingLock(t) == m_hasOwnerThread /\ m_ownerThread = t

InScope(t, k) == scopes[t] # <<>> /\ scopes[t][Len(scopes[t])].kind = k
Top(t) == scopes[t][Len(scopes[t])]
Push(t, s) == scopes' = [scopes EXCEPT ![t] = Append(@, s)]
Pop(t) == scopes' = [scopes EXCEPT ![t] = SubSeq(@, 1, Len(@) - 1)]

Make(t) == made[t] < MaxScopes /\ made' = [made EXCEPT ![t] = @ + 1]

\* The levels that were there when the microtask began are not its to release
Outer(t) == IF InScope(t, "task") THEN Top(t).count ELSE 0

-----------------------------------------------------------------------------
(* lock(lockCount)                                                          *)

\* Its tryLock, for n levels
lock(t, o, n) ==
    /\ Call(t, o, n)
    /\ \/ Mut!Acquire(t) /\ Goto(t, "own")
       \/ m_lock # {} /\ Goto(t, "check") /\ UNCHANGED m_lock
    /\ UNCHANGED <<m_ownerThread, m_hasOwnerThread, m_lockCount, m_lockDropDepth, state, tasks,
                   savedStackPointerAtVMEntry, held, scopes>>

JSLockHolder(t) ==
    /\ At(t, "run")
    /\ Make(t)
    /\ lock(t, "lock", 1)

\* currentThreadIsHoldingLock, asked without m_lock: two loads, in this order
LoadHasOwnerThread(t) ==
    /\ At(t, "check")
    /\ Goto(t, IF m_hasOwnerThread THEN "compare" ELSE "block")
    /\ UNCHANGED <<owner, m_lockCount, m_lockDropDepth, state, tasks, savedStackPointerAtVMEntry,
                   op, count, held, scopes, made>>

LoadOwnerThread(t) ==
    /\ At(t, "compare")
    /\ m_ownerThread # t
    /\ Goto(t, "block")
    /\ UNCHANGED <<owner, m_lockCount, m_lockDropDepth, state, tasks, savedStackPointerAtVMEntry,
                   op, count, held, scopes, made>>

LockAgain(t) ==
    /\ At(t, "compare")
    /\ m_ownerThread = t
    /\ m_lockCount' = m_lockCount + count[t]
    /\ held' = [held EXCEPT ![t] = @ + count[t]]
    /\ Return(t)
    /\ UNCHANGED <<owner, m_lockDropDepth, state, tasks, savedStackPointerAtVMEntry, scopes, made>>

BlockingLock(t) ==
    /\ At(t, "block")
    /\ Mut!Acquire(t)
    /\ Goto(t, "own")
    /\ UNCHANGED <<m_ownerThread, m_hasOwnerThread, m_lockCount, m_lockDropDepth, state, tasks,
                   savedStackPointerAtVMEntry, op, count, held, scopes, made>>

\* The store before the storeStoreFence
SetOwnerThread(t) ==
    /\ At(t, "own")
    /\ m_ownerThread' = t
    /\ Goto(t, "acquired")
    /\ UNCHANGED <<m_lock, m_hasOwnerThread, m_lockCount, m_lockDropDepth, state, tasks,
                   savedStackPointerAtVMEntry, op, count, held, scopes, made>>

didAcquireLock(t) ==
    /\ m_entryAtomStringTable' = atomStringTable[t]
    /\ atomStringTable' = [atomStringTable EXCEPT ![t] = VM]
    /\ m_shouldReleaseHeapAccess' = ~heapAccess
    /\ heapAccess' = TRUE
    /\ stackPointerAtVMEntry' = t
    /\ m_lastOwnerThread' = t
    /\ machineThreads' = machineThreads \cup {u \in {t} : u # m_lastOwnerThread}

SetHasOwnerThread(t) ==
    /\ At(t, "acquired")
    /\ m_hasOwnerThread' = TRUE
    /\ m_lockCount' = count[t]
    /\ didAcquireLock(t)
    /\ IF op[t] = "grab"
         THEN Goto(t, "grab") /\ UNCHANGED <<op, count, held>>
         ELSE Return(t) /\ held' = [held EXCEPT ![t] = count[t]]
    /\ UNCHANGED <<m_lock, m_ownerThread, m_lockDropDepth, tasks, savedStackPointerAtVMEntry,
                   scopes, made>>

-----------------------------------------------------------------------------
(* unlock(unlockCount)                                                      *)

\* ~JSLockHolder, when the thread keeps other levels
UnlockOne(t) ==
    /\ At(t, "run") /\ held[t] > Outer(t)
    /\ m_lockCount # 1
    /\ m_lockCount' = m_lockCount - 1
    /\ held' = [held EXCEPT ![t] = @ - 1]
    /\ UNCHANGED <<owner, m_lockDropDepth, state, tasks, savedStackPointerAtVMEntry, pc, op, count,
                   scopes, made>>

\* Mutant: microtasks are drained whoever has dropped the lock
UnlockDrains(t) ==
    /\ At(t, "run") /\ held[t] > Outer(t)
    /\ m_lockCount = 1
    /\ Call(t, "unlock", 1)
    /\ Goto(t, "drain")
    /\ UNCHANGED <<owner, m_lockCount, m_lockDropDepth, state, tasks, savedStackPointerAtVMEntry,
                   held, scopes, made>>

\* The beginning of willReleaseLock: nothing is drained while a thread has
\* dropped its locks
BeginRelease(t, depth) == Goto(t, IF depth = 0 THEN "drain" ELSE "willRelease")

\* ~JSLockHolder of the last level
UnlockLast(t) ==
    /\ At(t, "run") /\ held[t] > Outer(t)
    /\ m_lockCount = 1
    /\ Call(t, "unlock", 1)
    /\ BeginRelease(t, m_lockDropDepth)
    /\ UNCHANGED <<owner, m_lockCount, m_lockDropDepth, state, tasks, savedStackPointerAtVMEntry,
                   held, scopes, made>>

\* timerDidFire has taken the lock, and doWork has run a task of its own: it
\* drains the microtasks, whoever has dropped the lock
doWork(t) ==
    /\ At(t, "run") /\ t = RunLoop
    /\ held[t] = 1 /\ Outer(t) = 0
    /\ Make(t)
    /\ Call(t, "doWork", 1)
    /\ Goto(t, "drain")
    /\ UNCHANGED <<owner, m_lockCount, m_lockDropDepth, state, tasks, savedStackPointerAtVMEntry,
                   held, scopes>>

\* drainMicrotasks: the microtasks run in this thread, one after the other
RunMicrotask(t) ==
    /\ At(t, "drain")
    /\ microtasks > 0
    /\ microtasks' = microtasks - 1
    /\ Push(t, [kind |-> "task", by |-> op[t], count |-> held[t], depth |-> m_lockDropDepth])
    /\ Return(t)
    /\ UNCHANGED <<owner, m_lockCount, m_lockDropDepth, state, enqueued, savedStackPointerAtVMEntry,
                   held, made>>

MicrotaskEnds(t) ==
    /\ At(t, "run") /\ InScope(t, "task") /\ held[t] = Outer(t)
    /\ Pop(t)
    /\ Goto(t, "drain") /\ Call(t, Top(t).by, 1)
    /\ UNCHANGED <<owner, m_lockCount, m_lockDropDepth, state, tasks, savedStackPointerAtVMEntry,
                   held, made>>

\* Mutant: one microtask is enough
DrainedSome(t) ==
    /\ At(t, "drain") /\ op[t] # "doWork"
    /\ Goto(t, "willRelease")
    /\ UNCHANGED <<owner, m_lockCount, m_lockDropDepth, state, tasks, savedStackPointerAtVMEntry,
                   op, count, held, scopes, made>>

Drained(t) ==
    /\ At(t, "drain") /\ op[t] # "doWork"
    /\ microtasks = 0
    /\ Goto(t, "willRelease")
    /\ UNCHANGED <<owner, m_lockCount, m_lockDropDepth, state, tasks, savedStackPointerAtVMEntry,
                   op, count, held, scopes, made>>

\* doWork goes on to its next task, or returns to timerDidFire
WorkDone(t) ==
    /\ At(t, "drain") /\ op[t] = "doWork"
    /\ microtasks = 0
    /\ Return(t)
    /\ UNCHANGED <<owner, m_lockCount, m_lockDropDepth, state, tasks, savedStackPointerAtVMEntry,
                   held, scopes, made>>

\* Mutant: the stack pointer of the VM is left as it was
KeepStackPointer(t) ==
    /\ At(t, "willRelease")
    /\ UNCHANGED stackPointerAtVMEntry
    /\ heapAccess' = (heapAccess /\ ~m_shouldReleaseHeapAccess)
    /\ atomStringTable' = [atomStringTable EXCEPT ![t] = m_entryAtomStringTable]
    /\ m_entryAtomStringTable' = Null
    /\ m_lockCount' = m_lockCount - count[t]
    /\ m_hasOwnerThread' = FALSE
    /\ Goto(t, "unlock")
    /\ UNCHANGED <<m_lock, m_ownerThread, m_lockDropDepth, m_shouldReleaseHeapAccess,
                   m_lastOwnerThread, machineThreads, tasks, savedStackPointerAtVMEntry,
                   op, count, held, scopes, made>>

\* Mutant: unlock leaves the mark that there is an owner
ReleaseKeepsOwner(t) ==
    /\ At(t, "willRelease")
    /\ stackPointerAtVMEntry' = Null
    /\ heapAccess' = (heapAccess /\ ~m_shouldReleaseHeapAccess)
    /\ atomStringTable' = [atomStringTable EXCEPT ![t] = m_entryAtomStringTable]
    /\ m_entryAtomStringTable' = Null
    /\ m_lockCount' = m_lockCount - count[t]
    /\ UNCHANGED m_hasOwnerThread
    /\ Goto(t, "unlock")
    /\ UNCHANGED <<m_lock, m_ownerThread, m_lockDropDepth, m_shouldReleaseHeapAccess,
                   m_lastOwnerThread, machineThreads, tasks, savedStackPointerAtVMEntry,
                   op, count, held, scopes, made>>

\* The rest of willReleaseLock, and unlock up to the release of m_lock
willReleaseLock(t) ==
    /\ At(t, "willRelease")
    /\ stackPointerAtVMEntry' = Null
    /\ heapAccess' = (heapAccess /\ ~m_shouldReleaseHeapAccess)
    /\ atomStringTable' = [atomStringTable EXCEPT ![t] = m_entryAtomStringTable]
    /\ m_entryAtomStringTable' = Null
    /\ m_lockCount' = m_lockCount - count[t]
    /\ m_hasOwnerThread' = FALSE
    /\ Goto(t, "unlock")
    /\ UNCHANGED <<m_lock, m_ownerThread, m_lockDropDepth, m_shouldReleaseHeapAccess,
                   m_lastOwnerThread, machineThreads, tasks, savedStackPointerAtVMEntry,
                   op, count, held, scopes, made>>

Unlock(t) ==
    /\ At(t, "unlock")
    /\ Mut!Release(t)
    /\ held' = [held EXCEPT ![t] = IF op[t] = "unlock" THEN @ - 1 ELSE 0]
    /\ made' = [made EXCEPT ![t] = IF scopes[t] = <<>> THEN 0 ELSE @]
    /\ IF op[t] = "grab" THEN Goto(t, "yield") /\ UNCHANGED <<op, count>> ELSE Return(t)
    /\ UNCHANGED <<m_ownerThread, m_hasOwnerThread, m_lockCount, m_lockDropDepth, state, tasks,
                   savedStackPointerAtVMEntry, scopes>>

-----------------------------------------------------------------------------
(* DropAllLocks                                                             *)

\* dropAllLocks up to its unlock(m_lockCount).  In a thread that does not hold
\* the lock, neither it nor its grabAllLocks does anything
dropAllLocks(t) ==
    /\ At(t, "run")
    /\ Make(t)
    /\ currentThreadIsHoldingLock(t)
    /\ m_lockDropDepth' = m_lockDropDepth + 1
    /\ Push(t, [kind |-> "drop", by |-> "drop", count |-> m_lockCount, depth |-> m_lockDropDepth'])
    /\ savedStackPointerAtVMEntry' = [savedStackPointerAtVMEntry EXCEPT ![t] = stackPointerAtVMEntry]
    /\ Call(t, "drop", m_lockCount)
    /\ BeginRelease(t, m_lockDropDepth')
    /\ UNCHANGED <<owner, m_lockCount, state, tasks, held>>

\* ~DropAllLocks: grabAllLocks up to its first tryLock
grabAllLocks(t) ==
    /\ At(t, "run") /\ InScope(t, "drop") /\ held[t] = 0
    /\ lock(t, "grab", Top(t).count)
    /\ UNCHANGED made

\* Mutant: wait for the turn with the lock held
WaitWithLock(t) ==
    /\ At(t, "grab")
    /\ Top(t).depth # m_lockDropDepth
    /\ UNCHANGED vars

\* Another thread dropped its locks later and has not taken them back
NotMyTurn(t) ==
    /\ At(t, "grab")
    /\ Top(t).depth # m_lockDropDepth
    /\ BeginRelease(t, m_lockDropDepth)
    /\ UNCHANGED <<owner, m_lockCount, m_lockDropDepth, state, tasks, savedStackPointerAtVMEntry,
                   op, count, held, scopes, made>>

\* After Thread::yield
TryAgain(t) ==
    /\ At(t, "yield")
    /\ lock(t, "grab", count[t])
    /\ UNCHANGED made

\* Mutant: the depth stays as it is
GrabbedDeep(t) ==
    /\ At(t, "grab")
    /\ Top(t).depth = m_lockDropDepth
    /\ UNCHANGED m_lockDropDepth
    /\ stackPointerAtVMEntry' = savedStackPointerAtVMEntry[t]
    /\ held' = [held EXCEPT ![t] = count[t]]
    /\ Pop(t)
    /\ Return(t)
    /\ UNCHANGED <<owner, m_lockCount, m_entryAtomStringTable, m_shouldReleaseHeapAccess,
                   m_lastOwnerThread, heapAccess, machineThreads, atomStringTable, tasks,
                   savedStackPointerAtVMEntry, made>>

Grabbed(t) ==
    /\ At(t, "grab")
    /\ Top(t).depth = m_lockDropDepth
    /\ m_lockDropDepth' = m_lockDropDepth - 1
    /\ stackPointerAtVMEntry' = savedStackPointerAtVMEntry[t]
    /\ held' = [held EXCEPT ![t] = count[t]]
    /\ Pop(t)
    /\ Return(t)
    /\ UNCHANGED <<owner, m_lockCount, m_entryAtomStringTable, m_shouldReleaseHeapAccess,
                   m_lastOwnerThread, heapAccess, machineThreads, atomStringTable, tasks,
                   savedStackPointerAtVMEntry, made>>

-----------------------------------------------------------------------------
\* JavaScript that runs under the lock
queueMicrotask(t) ==
    /\ At(t, "run") /\ held[t] > 0
    /\ enqueued < MaxMicrotasks
    /\ microtasks' = microtasks + 1 /\ enqueued' = enqueued + 1
    /\ UNCHANGED <<owner, m_lockCount, m_lockDropDepth, state, savedStackPointerAtVMEntry,
                   pc, op, count, held, scopes, made>>

\* The thread is inside the code of JSLock
Proceed(t) ==
    \/ LoadHasOwnerThread(t) \/ LoadOwnerThread(t) \/ LockAgain(t)
    \/ SetOwnerThread(t) \/ SetHasOwnerThread(t)
    \/ RunMicrotask(t) \/ Drained(t) \/ WorkDone(t) \/ willReleaseLock(t) \/ Unlock(t)
    \/ NotMyTurn(t) \/ TryAgain(t) \/ Grabbed(t)

\* The client closes its innermost scope
Leave(t) == UnlockOne(t) \/ UnlockLast(t) \/ MicrotaskEnds(t) \/ grabAllLocks(t)

Next == \E t \in Threads :
    \/ Proceed(t) \/ BlockingLock(t) \/ Leave(t)
    \/ JSLockHolder(t) \/ doWork(t) \/ dropAllLocks(t) \/ queueMicrotask(t)

Spec == Init /\ [][Next]_vars

\* The scheduler runs every thread; whoever waits for m_lock gets it in the end
\* (the fair unlocks of WTF::Lock); and code inside a scope comes to its end
Fairness == \A t \in Threads :
    WF_vars(Proceed(t)) /\ SF_vars(BlockingLock(t)) /\ WF_vars(Leave(t))

FairSpec == Spec /\ Fairness

-----------------------------------------------------------------------------
\* A client inside a JSLockHolder has the lock, alone, with exactly the levels
\* it opened since its last DropAllLocks, also after the lock was dropped under
\* it and taken back; one that has none open does not hold the lock (lock,
\* unlock, dropAllLocks and grabAllLocks against each other and against the
\* two loads of currentThreadIsHoldingLock)
HolderHasLock ==
    \A t \in Threads :
        /\ held[t] > 0 => m_lock = {t}
        /\ At(t, "run") => /\ currentThreadIsHoldingLock(t) <=> held[t] > 0
                           /\ held[t] > 0 => m_lockCount = held[t]

\* Whoever runs JavaScript does so with the state of the VM set up for it: heap
\* access, its own stack as the stack of the VM (RELEASE_ASSERT of
\* didAcquireLock, ErrorHandlingScope), the atom strings of the VM, and a stack
\* that the collector scans.  A client that holds nothing has its own table
VMFollowsHolder ==
    \A t \in Threads :
        /\ At(t, "run") /\ held[t] > 0 =>
              /\ heapAccess /\ stackPointerAtVMEntry = t
              /\ atomStringTable[t] = VM /\ t \in machineThreads
        /\ At(t, "run") /\ held[t] = 0 => atomStringTable[t] = t
        /\ At(t, "acquired") => stackPointerAtVMEntry = Null /\ m_entryAtomStringTable = Null

\* m_lockDropDepth counts the DropAllLocks that have levels to take back, and
\* each of them is the only one at its depth: so there is always exactly one
\* whose turn it is in grabAllLocks
DropsInOrder ==
    /\ \A n \in 1 .. m_lockDropDepth : \E t \in Threads : \E i \in DOMAIN scopes[t] :
           scopes[t][i].kind = "drop" /\ scopes[t][i].depth = n
    /\ \A t, u \in Threads : \A i \in DOMAIN scopes[t], j \in DOMAIN scopes[u] :
           scopes[t][i].kind = "drop" /\ scopes[u][j].kind = "drop" =>
               /\ scopes[t][i].depth \in 1 .. m_lockDropDepth
               /\ scopes[t][i].depth = scopes[u][j].depth => t = u /\ i = j

\* No microtask is left behind: when the lock is free and nobody has dropped it,
\* the queue is empty, although a thread that unlocks while another one has
\* dropped its locks drains nothing (willReleaseLock)
MicrotasksDrained == m_lock = {} /\ m_lockDropDepth = 0 => microtasks = 0

\* Microtasks do not nest: unlock starts none before every other one has ended,
\* in any thread, whether that one has dropped the lock or calls out and comes
\* back; and DeferredWorkTimer, which drains whoever has dropped the lock
\* (DeferredWorkTimer.cpp:123), starts one only while each of the others is
\* inside a DropAllLocks of its own
OneMicrotask ==
    [][microtasks' < microtasks =>
           \A t \in Threads : \A i \in DOMAIN scopes[t] : scopes[t][i].kind = "task" =>
               /\ \E u \in Threads : At(u, "drain") /\ op[u] = "doWork"
               /\ i < Len(scopes[t]) /\ scopes[t][i + 1].kind = "drop"]_vars

\* Nobody waits forever in lock, through the retries of grabAllLocks that take
\* the lock and give it up again; and a DropAllLocks that wants its levels back
\* gets them, whatever else happens under the lock, unless other threads go on
\* dropping it forever
LockAndGrabReturn ==
    \A t \in Threads :
        /\ op[t] = "lock" ~> At(t, "run") /\ held[t] > 0
        /\ \/ []<><<\E u \in Threads \ {t} : dropAllLocks(u)>>_vars
           \/ op[t] = "grab" ~> At(t, "run") /\ held[t] > 0
=============================================================================

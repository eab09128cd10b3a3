----------------------------- MODULE JSLockInv -----------------------------
(***************************************************************************)
(* The inductive invariant of JSLock, for JSLockProofs.                    *)
(***************************************************************************)
EXTENDS JSLock

\* The thread is between the acquisition and the release of m_lock
Has(t) ==
    \/ pc[t] \in {"own", "acquired", "drain", "willRelease", "unlock", "grab"}
    \/ pc[t] \in {"run", "check", "compare"} /\ held[t] > 0

\* It is also marked as the owner
Owns(t) ==
    \/ pc[t] \in {"drain", "willRelease", "grab"}
    \/ pc[t] \in {"run", "check", "compare"} /\ held[t] > 0

\* m_lock has one holder; the mark of the owner is set for it alone, and a thread that is about
\* to compare m_ownerThread with itself finds itself there only if it is the owner
Holding ==
    /\ \A t \in Threads : t \in m_lock <=> Has(t)
    /\ \A t, u \in m_lock : t = u
    /\ \A t \in Threads : Owns(t) <=> currentThreadIsHoldingLock(t)
    /\ m_hasOwnerThread => m_ownerThread \in Threads
    /\ \A t \in Threads : /\ pc[t] = "acquired" => m_ownerThread = t
                          /\ pc[t] = "compare" /\ held[t] = 0 => m_ownerThread # t

\* m_lockCount is what the owner opened, or what it is about to open again or to release
Counted(t) ==
    /\ pc[t] \in {"block", "own", "acquired", "yield"} \/ op[t] = "grab" => held[t] = 0
    /\ Owns(t) => m_lockCount > 0 /\ (op[t] # "grab" => m_lockCount = held[t])
    /\ pc[t] \in {"drain", "willRelease", "grab"} => m_lockCount = count[t]
    /\ pc[t] = "unlock" /\ op[t] = "unlock" => held[t] = 1

Counts == \A t \in Threads : Counted(t)

\* Which operation is where, and for how many levels
Placed(t) ==
    /\ pc[t] = "run" <=> op[t] = "none"
    /\ pc[t] \in {"check", "compare", "block", "own", "acquired"} => op[t] \in {"lock", "grab"}
    /\ pc[t] = "drain" => op[t] \in {"unlock", "doWork"}
    /\ pc[t] \in {"willRelease", "unlock"} => op[t] \in {"unlock", "drop", "grab"}
    /\ pc[t] \in {"grab", "yield"} => op[t] = "grab"
    /\ op[t] = "doWork" => pc[t] = "drain"
    /\ op[t] \in {"lock", "unlock", "doWork"} => count[t] = 1
    /\ op[t] = "grab" => count[t] > 0 /\ InScope(t, "drop")

Places == \A t \in Threads : Placed(t)

\* What the open scopes have noted
Notes ==
    \A t \in Threads : \A i \in DOMAIN scopes[t] :
        /\ scopes[t][i].kind = "drop" =>
               scopes[t][i].count > 0 /\ savedStackPointerAtVMEntry[t] = t
        /\ scopes[t][i].kind = "task" =>
               scopes[t][i].count = 1 /\ scopes[t][i].by \in {"unlock", "doWork"}

\* The VM is set up for the owner, and for nobody when there is none
VMState ==
    /\ m_hasOwnerThread =>
           /\ stackPointerAtVMEntry = m_ownerThread /\ m_entryAtomStringTable = m_ownerThread
           /\ heapAccess /\ m_ownerThread \in machineThreads
    /\ ~m_hasOwnerThread => stackPointerAtVMEntry = Null /\ m_entryAtomStringTable = Null
    /\ \A t \in Threads :
           atomStringTable[t] = IF currentThreadIsHoldingLock(t) THEN VM ELSE t
    /\ m_lastOwnerThread \in machineThreads \cup {Null}

\* When nobody has dropped the lock, it is released with no microtask left
Quiet ==
    m_lockDropDepth = 0
    /\ (\A t \in Threads : Has(t) => pc[t] \in {"own", "acquired", "willRelease", "unlock"})
    => microtasks = 0

\* A microtask runs in the owner at the depth at which it began, or the first lock drop that is
\* deeper is the one it made; and one that unlock drains began at depth 0
Apart(t, i) ==
    /\ scopes[t][i].depth <= m_lockDropDepth
    /\ scopes[t][i].by = "unlock" => scopes[t][i].depth = 0
    /\ scopes[t][i].depth = m_lockDropDepth =>
           i = Len(scopes[t]) /\ pc[t] \in {"run", "check", "compare"} /\ held[t] > 0
    /\ scopes[t][i].depth < m_lockDropDepth =>
           /\ i < Len(scopes[t]) /\ scopes[t][i + 1].kind = "drop"
           /\ scopes[t][i + 1].depth = scopes[t][i].depth + 1

Tasks ==
    /\ \A t \in Threads : \A i \in DOMAIN scopes[t] : scopes[t][i].kind = "task" => Apart(t, i)
    /\ \A t \in Threads : pc[t] = "drain" /\ op[t] = "unlock" => m_lockDropDepth = 0

\* The inductive invariant
IInv ==
    /\ TypeOK /\ Holding /\ Counts /\ Places /\ Notes
    /\ VMState /\ DropsInOrder /\ Quiet /\ Tasks

=============================================================================

------------------------------- MODULE Mutex -------------------------------
(***************************************************************************)
(* What every lock of WTF promises its clients, whatever its algorithm:    *)
(* the lock is taken by one thread at a time, only when it is free, and    *)
(* is given up only by the thread that holds it.  WordLock and Lock are    *)
(* shown to implement this module.                                         *)
(***************************************************************************)
CONSTANT Threads

VARIABLE holders  \* the set of threads between lock() and unlock()

Init == holders = {}

\* lock() returns in thread t
Acquire(t) == /\ holders = {}
              /\ holders' = {t}

\* unlock() takes effect in thread t
Release(t) == /\ holders = {t}
              /\ holders' = {}

Next == \E t \in Threads : Acquire(t) \/ Release(t)

Spec == Init /\ [][Next]_holders

============================================================================

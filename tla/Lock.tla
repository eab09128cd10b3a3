-------------------------------- MODULE Lock --------------------------------
(***************************************************************************)
(* WTF::Lock (wtf/Lock.h, wtf/LockAlgorithm.h, wtf/LockAlgorithmInlines.h):*)
(* a lock in two bits of a byte, with its parked threads in the queue that *)
(* ParkingLot keeps for the byte's address.  The parking lot is used by    *)
(* what it promises (module Parking, which ParkingLot implements): the     *)
(* validation of compareAndPark and the callback of unparkOne run in one   *)
(* step with the queue's update.                                           *)
(*                                                                         *)
(* A load followed by a weak compare-and-exchange that, when it fails,     *)
(* loads again is one step: the failure changes nothing.                   *)
(***************************************************************************)
EXTENDS Naturals, Sequences

CONSTANTS Threads, Null,
          SpinLimit,    \* spinLimit, 40 in the code
          MaxRetries    \* maxRetries of tryLockWithTimeout

ASSUME NullAssumption == Null \notin Threads
ASSUME BoundsAssumption == SpinLimit \in Nat /\ MaxRetries \in Nat

VARIABLES isHeld, hasParked,   \* the two bits of m_byte
          waiters, taken,      \* the parking lot
          token,               \* ThreadData::token: what the unlocker left to a thread it took
          pc, spinCount,
          fairness,            \* why t unlocks: Unfair, Fair, or Fair and for a safepoint
          target               \* the thread that t has taken and not woken yet

byte == <<isHeld, hasParked>>
lot == <<waiters, taken, token>>
vars == <<byte, lot, pc, spinCount, fairness, target>>

Byte == "m_byte"
PL == INSTANCE Parking WITH Addresses <- {Byte}
queue == waiters[Byte]

Labels == {"idle", "relock", "lockSlow", "park", "parked", "held", "unlockSlow", "unpark", "wake",
           "retry"}

TypeOK ==
    /\ isHeld \in BOOLEAN /\ hasParked \in BOOLEAN
    /\ waiters \in [{Byte} -> Seq(Threads)] /\ taken \subseteq Threads
    /\ token \in [Threads -> {"None", "BargingOpportunity", "DirectHandoff"}]
    /\ pc \in [Threads -> Labels]
    /\ spinCount \in [Threads -> 0 .. SpinLimit]
    /\ fairness \in [Threads -> {"Unfair", "Fair", "Safepoint"}]
    /\ target \in [Threads -> Threads \cup {Null}]

Init ==
    /\ isHeld = FALSE /\ hasParked = FALSE
    /\ PL!Init /\ token = [t \in Threads |-> "None"]
    /\ pc = [t \in Threads |-> "idle"]
    /\ spinCount = [t \in Threads |-> 0]
    /\ fairness = [t \in Threads |-> "Unfair"]
    /\ target = [t \in Threads |-> Null]

Goto(t, l) == pc' = [pc EXCEPT ![t] = l]

\* The byte becomes held by t, which returns from lock() or tryLock()
TakeLock(t) ==
    /\ isHeld' = TRUE
    /\ UNCHANGED hasParked
    /\ Goto(t, "held")
    /\ spinCount' = [spinCount EXCEPT ![t] = 0]

----------------------------------------------------------------------------
(* lock() and tryLock()                                                    *)

\* lockFastAssumingZero: the weak exchange fails on any bit, or for no reason
lock(t) ==
    /\ pc[t] = "idle"
    /\ \/ ~isHeld /\ ~hasParked /\ TakeLock(t)
       \/ Goto(t, "lockSlow") /\ UNCHANGED <<byte, spinCount>>
    /\ UNCHANGED <<lot, fairness, target>>

\* Mutant: relock without looking at the held bit
RelockAnyway(t) ==
    /\ pc[t] = "relock"
    /\ TakeLock(t)
    /\ UNCHANGED <<lot, fairness, target>>

\* lockFast, after a safepoint has unlocked
Relock(t) ==
    /\ pc[t] = "relock"
    /\ IF isHeld THEN Goto(t, "lockSlow") /\ UNCHANGED <<byte, spinCount>> ELSE TakeLock(t)
    /\ UNCHANGED <<lot, fairness, target>>

tryLock(t) ==
    /\ pc[t] = "idle"
    /\ ~isHeld
    /\ TakeLock(t)
    /\ UNCHANGED <<lot, fairness, target>>

\* lockSlow: barge in
Barge(t) ==
    /\ pc[t] = "lockSlow"
    /\ ~isHeld
    /\ TakeLock(t)
    /\ UNCHANGED <<lot, fairness, target>>

\* lockSlow: nobody is parked, so spin around
Spin(t) ==
    /\ pc[t] = "lockSlow"
    /\ isHeld /\ ~hasParked
    /\ spinCount[t] < SpinLimit
    /\ spinCount' = [spinCount EXCEPT ![t] = @ + 1]
    /\ UNCHANGED <<byte, lot, pc, fairness, target>>

\* lockSlow: set the parked bit, unless it is set
SetParked(t) ==
    /\ pc[t] = "lockSlow"
    /\ isHeld
    /\ hasParked \/ spinCount[t] >= SpinLimit
    /\ hasParked' = TRUE
    /\ Goto(t, "park")
    /\ UNCHANGED <<isHeld, lot, spinCount, fairness, target>>

\* What compareAndPark expects of the byte
ExpectedByte == isHeld /\ hasParked

compareAndPark(t) ==
    /\ pc[t] = "park"
    /\ IF ExpectedByte
         THEN PL!Park(t, Byte) /\ Goto(t, "parked")
         ELSE UNCHANGED <<waiters, taken>> /\ Goto(t, "lockSlow")
    /\ UNCHANGED <<byte, token, spinCount, fairness, target>>

\* compareAndPark returns: with the lock, or to try again
Unparked(t) ==
    /\ pc[t] = "parked"
    /\ t \notin PL!Parked
    /\ IF token[t] = "DirectHandoff"
         THEN Goto(t, "held") /\ spinCount' = [spinCount EXCEPT ![t] = 0]
         ELSE Goto(t, "lockSlow") /\ UNCHANGED spinCount
    /\ token' = [token EXCEPT ![t] = "None"]
    /\ UNCHANGED <<byte, waiters, taken, fairness, target>>

----------------------------------------------------------------------------
(* unlock(), unlockFairly() and safepoint()                                *)

\* unlock() has done its work: return, or relock after a safepoint
Unlocked(t) ==
    /\ Goto(t, IF fairness[t] = "Safepoint" THEN "relock" ELSE "idle")
    /\ fairness' = [fairness EXCEPT ![t] = "Unfair"]

\* unlockFastAssumingZero: a weak exchange that wants nothing but the held bit
unlock(t, f) ==
    /\ pc[t] = "held"
    /\ \/ /\ isHeld /\ ~hasParked
          /\ isHeld' = FALSE
          /\ Goto(t, "idle")
          /\ UNCHANGED <<hasParked, fairness>>
       \/ /\ Goto(t, "unlockSlow")
          /\ fairness' = [fairness EXCEPT ![t] = f]
          /\ UNCHANGED byte
    /\ UNCHANGED <<lot, spinCount, target>>

\* safepointFast sees the parked bit; safepointSlow is unlockFairly() and lock()
safepoint(t) ==
    /\ pc[t] = "held"
    /\ hasParked
    /\ Goto(t, "unlockSlow")
    /\ fairness' = [fairness EXCEPT ![t] = "Safepoint"]
    /\ UNCHANGED <<byte, lot, spinCount, target>>

unlockSlow(t) ==
    /\ pc[t] = "unlockSlow"
    /\ IF hasParked
         THEN Goto(t, "unpark") /\ UNCHANGED <<byte, fairness>>
         ELSE isHeld' = FALSE /\ UNCHANGED hasParked /\ Unlocked(t)
    /\ UNCHANGED <<lot, spinCount, target>>

\* unparkOne finds nobody: clear both bits
UnparkNobody(t) ==
    /\ pc[t] = "unpark"
    /\ queue = <<>>
    /\ isHeld' = FALSE /\ hasParked' = FALSE
    /\ Unlocked(t)
    /\ UNCHANGED <<lot, spinCount, target>>

\* unparkOne takes the thread at the head of the queue and leaves it a token
TakeHead(t, k) ==
    /\ pc[t] = "unpark"
    /\ PL!Take(Byte, 1)
    /\ token' = [token EXCEPT ![queue[1]] = k]
    /\ target' = [target EXCEPT ![t] = queue[1]]
    /\ Goto(t, "wake")
    /\ UNCHANGED <<spinCount, fairness>>

\* Fair, or timeToBeFair: the byte stays as it is, the lock goes to that thread
HandOff(t) == TakeHead(t, "DirectHandoff") /\ UNCHANGED byte

\* Mutant: the parked bit is cleared with the held bit
ForgetParked(t) ==
    /\ fairness[t] = "Unfair"
    /\ TakeHead(t, "BargingOpportunity")
    /\ isHeld' = FALSE /\ hasParked' = FALSE

\* Release the lock and let that thread try.  mayHaveMoreThreads is true if the
\* queue has another thread, and may be true if the bucket has another address
ReleaseToBarge(t) ==
    /\ fairness[t] = "Unfair"
    /\ TakeHead(t, "BargingOpportunity")
    /\ isHeld' = FALSE
    /\ hasParked' \in (IF Len(queue) > 1 THEN {TRUE} ELSE BOOLEAN)

Wake(t) ==
    /\ pc[t] = "wake"
    /\ PL!Wake(target[t])
    /\ target' = [target EXCEPT ![t] = Null]
    /\ Unlocked(t)
    /\ UNCHANGED <<byte, token, spinCount>>

----------------------------------------------------------------------------
(* What a thread does inside lock() and unlock()                           *)
Proceed(t) ==
    \/ Relock(t) \/ Barge(t) \/ Spin(t) \/ SetParked(t) \/ compareAndPark(t) \/ Unparked(t)
    \/ unlockSlow(t) \/ UnparkNobody(t) \/ HandOff(t) \/ ReleaseToBarge(t) \/ Wake(t)

Release(t) == unlock(t, "Unfair") \/ unlock(t, "Fair")

Step(t) == lock(t) \/ tryLock(t) \/ Release(t) \/ safepoint(t) \/ Proceed(t)

Next == \E t \in Threads : Step(t)

Spec == Init /\ [][Next]_vars

\* The scheduler runs every thread, and critical sections end
Fairness == \A t \in Threads : WF_vars(Proceed(t)) /\ WF_vars(Release(t))

FairSpec == Spec /\ Fairness

----------------------------------------------------------------------------
(* tryLockWithTimeout(), which only crash analysis and debugging call, on  *)
(* a lock of their own: it is kept apart from Next                         *)

TryAgain(t) ==
    /\ pc[t] \in {"idle", "retry"}
    /\ isHeld
    /\ spinCount[t] <= MaxRetries
    /\ spinCount' = [spinCount EXCEPT ![t] = @ + 1]
    /\ Goto(t, "retry")
    /\ UNCHANGED <<byte, lot, fairness, target>>

TrySucceeds(t) ==
    /\ pc[t] = "retry"
    /\ ~isHeld
    /\ TakeLock(t)
    /\ UNCHANGED <<lot, fairness, target>>

\* The last try failed: return isHeld(), on which the caller adopts the lock
RetriesUsedUp(t) ==
    /\ pc[t] = "retry"
    /\ spinCount[t] > MaxRetries
    /\ Goto(t, IF isHeld THEN "held" ELSE "idle")
    /\ spinCount' = [spinCount EXCEPT ![t] = 0]
    /\ UNCHANGED <<byte, lot, fairness, target>>

tryLockWithTimeout(t) == TryAgain(t) \/ TrySucceeds(t) \/ RetriesUsedUp(t)

SpecWithTimeout == Init /\ [][\E t \in Threads : Step(t) \/ tryLockWithTimeout(t)]_vars

----------------------------------------------------------------------------
Holds(t) == pc[t] \in {"held", "unlockSlow", "unpark"}
Owns(t) == Holds(t) \/ token[t] = "DirectHandoff"

\* At most one thread is past lock() and not past unlock(), and the held bit
\* says whether there is one or the lock is on its way to a thread: the
\* RELEASE_ASSERT after a direct handoff and the CRASH checks of lockSlow and
\* unlockSlow hold
OneOwner ==
    /\ \A t, u \in Threads : Owns(t) /\ Owns(u) => t = u
    /\ isHeld <=> \E t \in Threads : Owns(t)
    /\ \A t \in Threads : pc[t] = "unpark" => hasParked

\* The parked bit never goes away under a parked thread
ParkedBitKept == queue # <<>> => hasParked

\* While threads are parked on a lock that nobody owns, some thread that was
\* woken or never slept is on its way to take it, and will wake the next one
NobodyForgotten ==
    queue # <<>> /\ ~isHeld =>
        \E t \in Threads : \/ pc[t] \in {"lockSlow", "park", "relock"}
                           \/ pc[t] = "parked" /\ token[t] = "BargingOpportunity"

\* Lock is a mutual exclusion
holders == {t \in Threads : Holds(t)}
M == INSTANCE Mutex
ImplementsMutex == M!Spec

\* If threads stop calling lock(), every thread that called it gets the lock
LockReturns ==
    <>[][\A t \in Threads : ~lock(t) /\ ~tryLock(t) /\ ~safepoint(t)]_vars =>
        \A t \in Threads : pc[t] = "lockSlow" ~> pc[t] = "held"

\* tryLockWithTimeout() is declared WTF_ACQUIRES_LOCK_IF(true): when it returns
\* true, nobody else has the lock
AcquiresLockIfTrue ==
    [][\A t \in Threads : pc[t] = "retry" /\ pc'[t] = "held" =>
            \A u \in Threads : Owns(u)' => u = t]_vars
=============================================================================

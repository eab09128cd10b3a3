----------------------------- MODULE LockProofs -----------------------------
(***************************************************************************)
(* Proofs for Lock, for any set of threads and any spin limit.             *)
(***************************************************************************)
EXTENDS Lock, SequenceTheorems, TLAPS

\* The threads in the queue are asleep, have not been taken and have no token,
\* and each stands there once
QueueConsistent ==
    /\ \A i \in 1 .. Len(queue) : /\ pc[queue[i]] = "parked"
                                  /\ token[queue[i]] = "None"
                                  /\ queue[i] \notin taken
    /\ \A i, j \in 1 .. Len(queue) : queue[i] = queue[j] => i = j

\* Only a sleeping thread has been taken or has a token
TokenConsistent ==
    \A t \in Threads : t \in taken \/ token[t] # "None" => pc[t] = "parked"

\* The inductive invariant.  OneOwner alone is not inductive: a direct handoff
\* must go to a thread that owns nothing and leaves the queue for good, which
\* QueueConsistent and TokenConsistent say; and a fast unlock may forget nobody
\* because ParkedBitKept says that nobody is parked.
IInv ==
    /\ TypeOK
    /\ QueueConsistent
    /\ TokenConsistent
    /\ OneOwner
    /\ ParkedBitKept
    /\ NobodyForgotten

\* What unparkOne does to the queue
LEMMA TakeFacts ==
    ASSUME TypeOK, PL!Take(Byte, 1)
    PROVE  /\ queue # <<>> /\ Len(queue) \in Nat /\ Len(queue) > 0
           /\ queue[1] \in Threads
           /\ queue' = Tail(queue)
           /\ waiters' \in [{Byte} -> Seq(Threads)]
           /\ taken' = taken \cup {queue[1]}
<1> DEFINE q == queue
<1>1. q \in Seq(Threads) /\ 1 \in 1 .. Len(q)
  BY Zenon DEF TypeOK, PL!Take, queue
<1>2. q # <<>> /\ Len(q) \in Nat /\ Len(q) > 0 /\ q[1] \in Threads
  BY <1>1
<1>3. Tail(q) = SubSeq(q, 2, Len(q)) /\ Tail(q) \in Seq(Threads)
  BY <1>1, <1>2, TailIsSubSeq, HeadTailProperties, Zenon
<1>4. queue' = SubSeq(q, 2, Len(q)) /\ waiters' = [waiters EXCEPT ![Byte] = SubSeq(q, 2, Len(q))]
  BY DEF TypeOK, PL!Take, queue
<1>5. PL!Elements(SubSeq(q, 1, 1)) = {q[1]}
  BY <1>1, <1>2 DEF PL!Elements
<1>6. taken' = taken \cup {q[1]}
  BY <1>5, Zenon DEF PL!Take, queue
<1>7. waiters' \in [{Byte} -> Seq(Threads)]
  BY <1>3, <1>4, Zenon DEF TypeOK
<1> QED BY <1>2, <1>3, <1>4, <1>6, <1>7, Zenon

\* What compareAndPark does to the queue
LEMMA ParkFacts ==
    ASSUME TypeOK, NEW t \in Threads, PL!Park(t, Byte)
    PROVE  /\ queue \in Seq(Threads)
           /\ queue' = Append(queue, t)
           /\ waiters' \in [{Byte} -> Seq(Threads)]
           /\ taken' = taken
           /\ \A i \in 1 .. Len(queue) : queue[i] # t
           /\ t \notin taken
<1>1. queue \in Seq(Threads)
  BY Zenon DEF TypeOK, queue
<1>2. queue' = Append(queue, t) /\ waiters' = [waiters EXCEPT ![Byte] = Append(queue, t)]
  BY Zenon DEF TypeOK, PL!Park, queue
<1>3. waiters' \in [{Byte} -> Seq(Threads)]
  BY <1>1, <1>2 DEF TypeOK
<1>4. t \notin taken /\ t \notin PL!Elements(queue)
  BY Zenon DEF PL!Park, PL!Parked, queue
<1>5. \A i \in 1 .. Len(queue) : queue[i] # t
  BY <1>1, <1>4 DEF PL!Elements
<1> QED BY <1>1, <1>2, <1>3, <1>4, <1>5, Zenon DEF PL!Park

\* The types are kept
LEMMA TypeStep ==
    ASSUME IInv, NEW t \in Threads, Step(t)
    PROVE  TypeOK'
<1> USE BoundsAssumption DEF IInv, TypeOK, Goto, byte, lot
<1>0. 0 \in 0 .. SpinLimit
  BY BoundsAssumption
<1>1. CASE lock(t)
  <2>1. CASE TakeLock(t)
    BY <1>0, <1>1, <2>1, Zenon DEF lock, TakeLock, Labels
  <2>2. CASE Goto(t, "lockSlow") /\ UNCHANGED <<byte, spinCount>>
    BY <1>1, <2>2, Zenon DEF lock, Labels
  <2> QED BY <1>1, <2>1, <2>2, Zenon DEF lock
<1>2. CASE Relock(t)
  <2>1. CASE isHeld
    BY <1>2, <2>1, Zenon DEF Relock, Labels
  <2>2. CASE ~isHeld
    BY <1>0, <1>2, <2>2, Zenon DEF Relock, TakeLock, Labels
  <2> QED BY <2>1, <2>2, Zenon
<1>3. CASE tryLock(t)
  BY <1>3, <1>0, Zenon DEF tryLock, TakeLock, Labels
<1>4. CASE Barge(t)
  BY <1>4, <1>0, Zenon DEF Barge, TakeLock, Labels
<1>5. CASE Spin(t)
  BY <1>5 DEF Spin, Labels
<1>6. CASE SetParked(t)
  BY <1>6, Zenon DEF SetParked, Labels
<1>7. CASE compareAndPark(t)
  BY <1>7, ParkFacts, Zenon DEF compareAndPark, ExpectedByte, Labels
<1>8. CASE Unparked(t)
  <2>1. CASE token[t] = "DirectHandoff"
    BY <1>0, <1>8, <2>1, ZenonT(40) DEF Unparked, Labels
  <2>2. CASE token[t] # "DirectHandoff"
    BY <1>8, <2>2, Zenon DEF Unparked, Labels
  <2> QED BY <2>1, <2>2, Zenon
<1>9. CASE unlock(t, "Unfair")
  BY <1>9, Zenon DEF unlock, Labels
<1>10. CASE unlock(t, "Fair")
  BY <1>10, Zenon DEF unlock, Labels
<1>11. CASE safepoint(t)
  BY <1>11, Zenon DEF safepoint, Labels
<1>12. CASE unlockSlow(t)
  BY <1>12, Zenon DEF unlockSlow, Unlocked, Labels
<1>13. CASE UnparkNobody(t)
  BY <1>13, Zenon DEF UnparkNobody, Unlocked, Labels
<1>14. CASE HandOff(t)
  BY <1>14, TakeFacts, Zenon DEF HandOff, TakeHead, Labels
<1>15. CASE ReleaseToBarge(t)
  BY <1>15, TakeFacts, Zenon DEF ReleaseToBarge, TakeHead, Labels
<1>16. CASE Wake(t)
  BY <1>16, Zenon DEF Wake, Unlocked, PL!Wake, Labels
<1> QED BY <1>1, <1>2, <1>3, <1>4, <1>5, <1>6, <1>7, <1>8, <1>9, <1>10, <1>11, <1>12, <1>13, <1>14, <1>15, <1>16, Zenon DEF Step, Release, Proceed

\* A thread that is not asleep moves, and the parking lot stays as it is
LEMMA AwakeMoves ==
    ASSUME IInv, NEW t \in Threads, NEW l \in Labels, pc[t] # "parked",
           pc' = [pc EXCEPT ![t] = l], waiters' = waiters, taken' \subseteq taken, token' = token
    PROVE  QueueConsistent' /\ TokenConsistent'
<1>1. queue \in Seq(Threads) /\ queue' = queue
  BY Zenon DEF IInv, TypeOK, queue
<1>2. \A i \in 1 .. Len(queue) : queue[i] \in Threads /\ queue[i] # t
  BY <1>1 DEF IInv, QueueConsistent
<1>3. QueueConsistent'
  BY <1>1, <1>2 DEF IInv, TypeOK, QueueConsistent
<1>4. TokenConsistent'
  BY Zenon DEF IInv, TypeOK, TokenConsistent
<1> QED BY <1>3, <1>4, Zenon

\* unparkOne takes a thread that sleeps without a token, and leaves it one
LEMMA HeadTaken ==
    ASSUME IInv, NEW t \in Threads, NEW k \in {"BargingOpportunity", "DirectHandoff"}, TakeHead(t, k)
    PROVE  QueueConsistent' /\ TokenConsistent'
<1> DEFINE h == queue[1]
<1>1. /\ pc[t] = "unpark" /\ pc' = [pc EXCEPT ![t] = "wake"]
      /\ PL!Take(Byte, 1) /\ token' = [token EXCEPT ![h] = k]
  BY Zenon DEF TakeHead, Goto
<1>2. /\ queue # <<>> /\ Len(queue) \in Nat /\ Len(queue) > 0 /\ h \in Threads
      /\ queue' = Tail(queue) /\ taken' = taken \cup {h}
  BY <1>1, TakeFacts, Zenon DEF IInv
<1>3. queue \in Seq(Threads) /\ pc \in [Threads -> Labels]
      /\ token \in [Threads -> {"None", "BargingOpportunity", "DirectHandoff"}]
  BY Zenon DEF IInv, TypeOK, queue
<1>4. pc[h] = "parked" /\ h # t
  BY <1>1, <1>2 DEF IInv, QueueConsistent
<1>5. Len(queue') = Len(queue) - 1 /\ \A i \in 1 .. Len(queue') : queue'[i] = queue[i + 1]
  BY <1>2, <1>3, HeadTailProperties, Zenon
<1>6. \A i \in 1 .. Len(queue') : i + 1 \in 1 .. Len(queue) /\ queue[i + 1] \in Threads
                                 /\ queue[i + 1] # h
  BY <1>2, <1>3, <1>5 DEF IInv, QueueConsistent
<1>7. \A i \in 1 .. Len(queue') : pc[queue[i + 1]] = "parked" /\ token[queue[i + 1]] = "None"
                                 /\ queue[i + 1] \notin taken
  BY <1>6, Zenon DEF IInv, QueueConsistent
<1>8. \A i \in 1 .. Len(queue') : /\ pc'[queue'[i]] = "parked"
                                 /\ token'[queue'[i]] = "None"
                                 /\ queue'[i] \notin taken'
  BY <1>1, <1>2, <1>3, <1>5, <1>6, <1>7
<1>9. \A i, j \in 1 .. Len(queue') : queue'[i] = queue'[j] => i = j
  BY <1>2, <1>5, <1>6 DEF IInv, QueueConsistent
<1>10. TokenConsistent'
  BY <1>1, <1>2, <1>3, <1>4, Zenon DEF IInv, TokenConsistent
<1> QED BY <1>8, <1>9, <1>10, Zenon DEF QueueConsistent

\* The queue and the tokens stay consistent
LEMMA LotStep ==
    ASSUME IInv, NEW t \in Threads, Step(t)
    PROVE  QueueConsistent' /\ TokenConsistent'
<1> USE DEF Goto, lot
<1>1. CASE lock(t)
  BY <1>1, AwakeMoves, Zenon DEF lock, TakeLock, Labels
<1>2. CASE Relock(t)
  BY <1>2, AwakeMoves, Zenon DEF Relock, TakeLock, Labels
<1>3. CASE tryLock(t)
  BY <1>3, AwakeMoves, Zenon DEF tryLock, TakeLock, Labels
<1>4. CASE Barge(t)
  BY <1>4, AwakeMoves, Zenon DEF Barge, TakeLock, Labels
<1>5. CASE Spin(t)
  BY <1>5, Zenon DEF Spin, IInv, QueueConsistent, TokenConsistent, queue
<1>6. CASE SetParked(t)
  BY <1>6, AwakeMoves, Zenon DEF SetParked, Labels
<1>7. CASE compareAndPark(t)
  <2>1. CASE ExpectedByte
    <3>1. PL!Park(t, Byte) /\ pc' = [pc EXCEPT ![t] = "parked"] /\ token' = token /\ pc[t] = "park"
      BY <1>7, <2>1, Zenon DEF compareAndPark
    <3>2. /\ queue \in Seq(Threads) /\ queue' = Append(queue, t) /\ taken' = taken
          /\ t \notin taken /\ \A i \in 1 .. Len(queue) : queue[i] # t
      BY <3>1, ParkFacts, Zenon DEF IInv
    <3>3. /\ Len(queue) \in Nat /\ Len(queue') = Len(queue) + 1
          /\ \A i \in 1 .. Len(queue) : queue'[i] = queue[i] /\ queue[i] \in Threads
          /\ queue'[Len(queue) + 1] = t
      BY <3>2, AppendProperties
    <3>4. token[t] = "None" /\ pc \in [Threads -> Labels]
      BY <3>1, Zenon DEF IInv, TokenConsistent, TypeOK
    <3>5. \A i \in 1 .. Len(queue') : /\ pc'[queue'[i]] = "parked"
                                     /\ token'[queue'[i]] = "None"
                                     /\ queue'[i] \notin taken'
      BY <3>1, <3>2, <3>3, <3>4 DEF IInv, QueueConsistent
    <3>6. \A i, j \in 1 .. Len(queue') : queue'[i] = queue'[j] => i = j
      BY <3>2, <3>3 DEF IInv, QueueConsistent
    <3>7. TokenConsistent'
      BY <3>1, <3>2, <3>4, Zenon DEF IInv, TokenConsistent
    <3> QED BY <3>5, <3>6, <3>7, Zenon DEF QueueConsistent
  <2>2. CASE ~ExpectedByte
    BY <1>7, <2>2, AwakeMoves, Zenon DEF compareAndPark, Labels
  <2> QED BY <2>1, <2>2, Zenon
<1>8. CASE Unparked(t)
  <2>1. /\ pc[t] = "parked" /\ waiters' = waiters /\ taken' = taken
        /\ token' = [token EXCEPT ![t] = "None"]
        /\ pc' = [pc EXCEPT ![t] = "held"] \/ pc' = [pc EXCEPT ![t] = "lockSlow"]
    BY <1>8, Zenon DEF Unparked
  <2>2. queue \in Seq(Threads) /\ queue' = queue
    BY <2>1, Zenon DEF IInv, TypeOK, queue
  <2>3. t \notin taken /\ \A i \in 1 .. Len(queue) : queue[i] \in Threads /\ queue[i] # t
    BY <1>8, <2>2 DEF Unparked, PL!Parked, PL!Elements, queue
  <2>4. QueueConsistent'
    BY <2>1, <2>2, <2>3 DEF IInv, TypeOK, QueueConsistent
  <2>5. TokenConsistent'
    BY <2>1, <2>3, Zenon DEF IInv, TypeOK, TokenConsistent
  <2> QED BY <2>4, <2>5, Zenon
<1>9. CASE unlock(t, "Unfair")
  BY <1>9, AwakeMoves, Zenon DEF unlock, Labels
<1>10. CASE unlock(t, "Fair")
  BY <1>10, AwakeMoves, Zenon DEF unlock, Labels
<1>11. CASE safepoint(t)
  BY <1>11, AwakeMoves, Zenon DEF safepoint, Labels
<1>12. CASE unlockSlow(t)
  BY <1>12, AwakeMoves, Zenon DEF unlockSlow, Unlocked, Labels
<1>13. CASE UnparkNobody(t)
  BY <1>13, AwakeMoves, Zenon DEF UnparkNobody, Unlocked, Labels
<1>14. CASE HandOff(t)
  BY <1>14, HeadTaken, Zenon DEF HandOff
<1>15. CASE ReleaseToBarge(t)
  BY <1>15, HeadTaken, Zenon DEF ReleaseToBarge
<1>16. CASE Wake(t)
  BY <1>16, AwakeMoves, Zenon DEF Wake, Unlocked, PL!Wake, Labels
<1> QED BY <1>1, <1>2, <1>3, <1>4, <1>5, <1>6, <1>7, <1>8, <1>9, <1>10, <1>11, <1>12, <1>13, <1>14, <1>15, <1>16, Zenon DEF Step, Release, Proceed

\* The lock has one owner, and the held bit says so
LEMMA OwnerStep ==
    ASSUME IInv, NEW t \in Threads, Step(t)
    PROVE  OneOwner'
<1> USE DEF IInv, TypeOK, OneOwner, Owns, Holds, Goto, byte, lot
<1>0. pc[t] # "parked" => token[t] = "None"
  BY Zenon DEF TokenConsistent
<1>1. CASE lock(t)
  <2>1. CASE ~isHeld /\ TakeLock(t)
    BY <1>1, <1>0, <2>1, Zenon DEF lock, TakeLock
  <2>2. CASE Goto(t, "lockSlow") /\ UNCHANGED <<byte, spinCount>>
    BY <1>1, <1>0, <2>2, Zenon DEF lock
  <2> QED BY <1>1, <2>1, <2>2, Zenon DEF lock
<1>2. CASE Relock(t)
  <2>1. CASE isHeld
    BY <1>2, <1>0, <2>1, ZenonT(40) DEF Relock
  <2>2. CASE ~isHeld
    BY <1>2, <1>0, <2>2 DEF Relock, TakeLock
  <2> QED BY <2>1, <2>2, Zenon
<1>3. CASE tryLock(t)
  BY <1>3, <1>0, Zenon DEF tryLock, TakeLock
<1>4. CASE Barge(t)
  BY <1>4, <1>0, Zenon DEF Barge, TakeLock
<1>5. CASE Spin(t)
  BY <1>5, <1>0, Zenon DEF Spin
<1>6. CASE SetParked(t)
  BY <1>6, <1>0, Zenon DEF SetParked
<1>7. CASE compareAndPark(t)
  BY <1>7, <1>0 DEF compareAndPark, ExpectedByte
<1>8. CASE Unparked(t)
  BY <1>8, <1>0 DEF Unparked
<1>9. CASE unlock(t, "Unfair")
  BY <1>9, <1>0, ZenonT(40) DEF unlock
<1>10. CASE unlock(t, "Fair")
  BY <1>10, <1>0, ZenonT(40) DEF unlock
<1>11. CASE safepoint(t)
  BY <1>11, <1>0, Zenon DEF safepoint
<1>12. CASE unlockSlow(t)
  <2>1. CASE hasParked
    BY <1>12, <1>0, <2>1, Zenon DEF unlockSlow
  <2>2. CASE ~hasParked
    <3>1. isHeld' = FALSE /\ pc[t] = "unlockSlow" /\ token' = token
      BY <1>12, <2>2, Zenon DEF unlockSlow
    <3>2. PICK l \in {"idle", "relock"} : pc' = [pc EXCEPT ![t] = l]
      BY <1>12, <2>2, Zenon DEF unlockSlow, Unlocked
    <3>3. \A u \in Threads : ~Owns(u)'
      BY <1>0, <3>1, <3>2, Zenon
    <3> QED BY <3>1, <3>3, Zenon
  <2> QED BY <2>1, <2>2, Zenon
<1>13. CASE UnparkNobody(t)
  BY <1>13, <1>0, Zenon DEF UnparkNobody, Unlocked
<1>14. CASE HandOff(t)
  <2> DEFINE h == queue[1]
  <2>1. /\ pc[t] = "unpark" /\ pc' = [pc EXCEPT ![t] = "wake"]
        /\ token' = [token EXCEPT ![h] = "DirectHandoff"]
    BY <1>14, Zenon DEF HandOff, TakeHead
  <2>2. h \in Threads /\ 1 \in 1 .. Len(queue)
    BY <1>14, TakeFacts DEF HandOff, TakeHead
  <2>3. pc[h] = "parked" /\ token[h] = "None"
    BY <2>2, Zenon DEF QueueConsistent
  <2> QED BY <1>14, <1>0, <2>1, <2>2, <2>3, Zenon DEF HandOff
<1>15. CASE ReleaseToBarge(t)
  <2> DEFINE h == queue[1]
  <2>1. /\ pc[t] = "unpark" /\ pc' = [pc EXCEPT ![t] = "wake"]
        /\ token' = [token EXCEPT ![h] = "BargingOpportunity"]
    BY <1>15, Zenon DEF ReleaseToBarge, TakeHead
  <2>2. h \in Threads /\ 1 \in 1 .. Len(queue)
    BY <1>15, TakeFacts DEF ReleaseToBarge, TakeHead
  <2>3. pc[h] = "parked" /\ token[h] = "None"
    BY <2>2, Zenon DEF QueueConsistent
  <2> QED BY <1>15, <1>0, <2>1, <2>2, <2>3, Zenon DEF ReleaseToBarge
<1>16. CASE Wake(t)
  BY <1>16, <1>0, Zenon DEF Wake, Unlocked, PL!Wake
<1> QED BY <1>1, <1>2, <1>3, <1>4, <1>5, <1>6, <1>7, <1>8, <1>9, <1>10, <1>11, <1>12, <1>13, <1>14, <1>15, <1>16, Zenon DEF Step, Release, Proceed

\* The parked bit stays with the parked threads, and somebody will wake them
LEMMA ParkedStep ==
    ASSUME IInv, NEW t \in Threads, Step(t)
    PROVE  ParkedBitKept' /\ NobodyForgotten'
<1> USE DEF IInv, TypeOK, ParkedBitKept, NobodyForgotten, Goto, byte, lot
<1>1. CASE lock(t)
  BY <1>1, Zenon DEF lock, TakeLock, queue, OneOwner, Owns, Holds
<1>2. CASE Relock(t)
  BY <1>2, Zenon DEF Relock, TakeLock, queue, OneOwner, Owns, Holds
<1>3. CASE tryLock(t)
  BY <1>3, Zenon DEF tryLock, TakeLock, queue, OneOwner, Owns, Holds
<1>4. CASE Barge(t)
  BY <1>4, Zenon DEF Barge, TakeLock, queue, OneOwner, Owns, Holds
<1>5. CASE Spin(t)
  BY <1>5, Zenon DEF Spin, queue, OneOwner, Owns, Holds
<1>6. CASE SetParked(t)
  BY <1>6, Zenon DEF SetParked, queue, OneOwner, Owns, Holds
<1>7. CASE compareAndPark(t)
  <2>1. CASE ExpectedByte
    BY <1>7, <2>1, Zenon DEF compareAndPark, ExpectedByte
  <2>2. CASE ~ExpectedByte
    BY <1>7, <2>2, Zenon DEF compareAndPark, queue
  <2> QED BY <2>1, <2>2, Zenon
<1>8. CASE Unparked(t)
  <2>1. CASE token[t] = "DirectHandoff"
    BY <1>8, <2>1, Zenon DEF Unparked, queue, OneOwner, Owns
  <2>2. CASE token[t] # "DirectHandoff"
    BY <1>8, <2>2, Zenon DEF Unparked, queue
  <2> QED BY <2>1, <2>2, Zenon
<1>9. CASE unlock(t, "Unfair")
  BY <1>9, Zenon DEF unlock, queue, OneOwner, Owns, Holds
<1>10. CASE unlock(t, "Fair")
  BY <1>10, Zenon DEF unlock, queue, OneOwner, Owns, Holds
<1>11. CASE safepoint(t)
  BY <1>11, Zenon DEF safepoint, queue, OneOwner, Owns, Holds
<1>12. CASE unlockSlow(t)
  BY <1>12, Zenon DEF unlockSlow, Unlocked, queue, OneOwner, Owns, Holds
<1>13. CASE UnparkNobody(t)
  BY <1>13, Zenon DEF UnparkNobody, Unlocked, queue, OneOwner, Owns, Holds
<1>14. CASE HandOff(t)
  <2>1. hasParked' /\ isHeld'
    BY <1>14, Zenon DEF HandOff, TakeHead, OneOwner, Owns, Holds
  <2> QED BY <2>1, Zenon
<1>15. CASE ReleaseToBarge(t)
  <2> DEFINE h == queue[1]
  <2>1. /\ queue' = Tail(queue) /\ queue # <<>> /\ h \in Threads /\ Len(queue) \in Nat
        /\ Len(queue) > 0 /\ queue \in Seq(Threads)
    BY <1>15, TakeFacts, Zenon DEF ReleaseToBarge, TakeHead, queue
  <2>2. Len(queue') = Len(queue) - 1 /\ queue' \in Seq(Threads)
    BY <2>1, HeadTailProperties, Zenon
  <2>3. queue' # <<>> => hasParked'
    <3>1. CASE Len(queue) > 1
      BY <1>15, <3>1, Zenon DEF ReleaseToBarge
    <3>2. CASE Len(queue) = 1
      <4>1. Len(queue') = 0
        BY <2>2, <3>2
      <4> QED BY <2>2, <4>1, EmptySeq, Zenon
    <3> QED BY <2>1, <3>1, <3>2
  <2>4. pc[h] = "parked" /\ pc[t] = "unpark"
    BY <1>15, <2>1 DEF QueueConsistent, ReleaseToBarge, TakeHead
  <2>5. pc'[h] = "parked" /\ token'[h] = "BargingOpportunity"
    BY <1>15, <2>1, <2>4, Zenon DEF ReleaseToBarge, TakeHead
  <2> QED BY <2>1, <2>3, <2>5, Zenon
<1>16. CASE Wake(t)
  BY <1>16, Zenon DEF Wake, Unlocked, PL!Wake, queue, OneOwner, Owns, Holds
<1> QED BY <1>1, <1>2, <1>3, <1>4, <1>5, <1>6, <1>7, <1>8, <1>9, <1>10, <1>11, <1>12, <1>13, <1>14, <1>15, <1>16, Zenon DEF Step, Release, Proceed

\* IInv is an invariant
LEMMA Inductive == Spec => []IInv
<1>1. Init => IInv
  <2> SUFFICES ASSUME Init PROVE IInv
    BY Zenon
  <2>1. queue = <<>> /\ waiters = [a \in {Byte} |-> <<>>] /\ taken = {}
    BY Zenon DEF Init, PL!Init, queue
  <2>2. TypeOK
    <3>1. waiters \in [{Byte} -> Seq(Threads)] /\ taken \subseteq Threads
      BY <2>1, EmptySeq, Zenon
    <3>2. spinCount \in [Threads -> 0 .. SpinLimit]
      BY BoundsAssumption DEF Init
    <3> QED BY <3>1, <3>2, Zenon DEF Init, TypeOK, Labels
  <2> QED BY <2>1, <2>2 DEF Init, IInv, QueueConsistent, TokenConsistent, OneOwner, Owns, Holds,
                            ParkedBitKept, NobodyForgotten
<1>2. IInv /\ [Next]_vars => IInv'
  <2> SUFFICES ASSUME IInv, [Next]_vars PROVE IInv'
    BY Zenon
  <2>1. CASE Next
    <3>1. PICK t \in Threads : Step(t)
      BY <2>1, Zenon DEF Next
    <3> QED BY <3>1, TypeStep, LotStep, OwnerStep, ParkedStep, Zenon DEF IInv
  <2>2. CASE UNCHANGED vars
    BY <2>2, Zenon DEF IInv, TypeOK, QueueConsistent, TokenConsistent, OneOwner, Owns, Holds,
                ParkedBitKept, NobodyForgotten, vars, byte, lot, queue
  <2> QED BY <2>1, <2>2, Zenon
<1> QED BY <1>1, <1>2, PTL DEF Spec

\* The state of Lock keeps its types: the spin count stays within spinLimit
THEOREM LockTypeCorrect == Spec => []TypeOK
<1>1. IInv => TypeOK
  BY Zenon DEF IInv
<1> QED BY <1>1, Inductive, PTL

\* lock(), tryLock(), barging and direct handoff never give the lock to two threads, and
\* the checks that lockSlow and unlockSlow would crash on hold
THEOREM LockHasOneOwner == Spec => []OneOwner
<1>1. IInv => OneOwner
  BY Zenon DEF IInv
<1> QED BY <1>1, Inductive, PTL

\* unlock() never clears the parked bit under a parked thread
THEOREM ParkedBitStays == Spec => []ParkedBitKept
<1>1. IInv => ParkedBitKept
  BY Zenon DEF IInv
<1> QED BY <1>1, Inductive, PTL

\* A parked thread is never left alone with a free lock
THEOREM NobodyLeftParked == Spec => []NobodyForgotten
<1>1. IInv => NobodyForgotten
  BY Zenon DEF IInv
<1> QED BY <1>1, Inductive, PTL

\* Every step of Lock acquires or releases the mutual exclusion, or is invisible
LEMMA StepRefines ==
    ASSUME IInv, NEW t \in Threads, Step(t)
    PROVE  M!Next \/ holders' = holders
<1>0. /\ Holds(t) => holders = {t}
      /\ ~isHeld => holders = {}
      /\ pc[t] = "parked" /\ token[t] = "DirectHandoff" => holders = {}
  BY Zenon DEF IInv, OneOwner, Owns, Holds, holders
<1>1. pc \in [Threads -> Labels]
  BY Zenon DEF IInv, TypeOK
<1>2. ASSUME NEW l \in Labels, pc' = [pc EXCEPT ![t] = l]
      PROVE  /\ holders = {} /\ l = "held" => M!Next
             /\ holders = {t} /\ l \notin {"held", "unlockSlow", "unpark"} => M!Next
             /\ (Holds(t) <=> l \in {"held", "unlockSlow", "unpark"}) => holders' = holders
  <2>1. holders' = {u \in Threads : IF u = t THEN l \in {"held", "unlockSlow", "unpark"}
                                     ELSE Holds(u)}
    BY <1>1, <1>2, Zenon DEF holders, Holds
  <2>2. holders = {} /\ l = "held" => M!Acquire(t)
    BY <2>1, Zenon DEF M!Acquire, holders
  <2>3. holders = {t} /\ l \notin {"held", "unlockSlow", "unpark"} => M!Release(t)
    BY <2>1, Zenon DEF M!Release, holders
  <2>4. (Holds(t) <=> l \in {"held", "unlockSlow", "unpark"}) => holders' = holders
    BY <2>1, Zenon DEF holders
  <2> QED BY <2>2, <2>3, <2>4, Zenon DEF M!Next
<1> USE DEF Goto
<1>3. CASE lock(t)
  BY <1>0, <1>2, <1>3, Zenon DEF lock, TakeLock, Holds, Labels
<1>4. CASE Relock(t)
  BY <1>0, <1>2, <1>4, Zenon DEF Relock, TakeLock, Holds, Labels
<1>5. CASE tryLock(t)
  BY <1>0, <1>2, <1>5, Zenon DEF tryLock, TakeLock, Holds, Labels
<1>6. CASE Barge(t)
  BY <1>0, <1>2, <1>6, Zenon DEF Barge, TakeLock, Holds, Labels
<1>7. CASE Spin(t)
  BY <1>7, Zenon DEF Spin, holders, Holds
<1>8. CASE SetParked(t)
  BY <1>0, <1>2, <1>8, Zenon DEF SetParked, Holds, Labels
<1>9. CASE compareAndPark(t)
  BY <1>0, <1>2, <1>9, Zenon DEF compareAndPark, Holds, Labels
<1>10. CASE Unparked(t)
  BY <1>0, <1>2, <1>10, Zenon DEF Unparked, Holds, Labels
<1>11. CASE unlock(t, "Unfair")
  BY <1>0, <1>2, <1>11, Zenon DEF unlock, Holds, Labels
<1>12. CASE unlock(t, "Fair")
  BY <1>0, <1>2, <1>12, Zenon DEF unlock, Holds, Labels
<1>13. CASE safepoint(t)
  BY <1>0, <1>2, <1>13, Zenon DEF safepoint, Holds, Labels
<1>14. CASE unlockSlow(t)
  BY <1>0, <1>2, <1>14, Zenon DEF unlockSlow, Unlocked, Holds, Labels
<1>15. CASE UnparkNobody(t)
  BY <1>0, <1>2, <1>15, Zenon DEF UnparkNobody, Unlocked, Holds, Labels
<1>16. CASE HandOff(t)
  BY <1>0, <1>2, <1>16, Zenon DEF HandOff, TakeHead, Holds, Labels
<1>17. CASE ReleaseToBarge(t)
  BY <1>0, <1>2, <1>17, Zenon DEF ReleaseToBarge, TakeHead, Holds, Labels
<1>18. CASE Wake(t)
  BY <1>0, <1>2, <1>18, Zenon DEF Wake, Unlocked, Holds, Labels
<1> QED BY <1>3, <1>4, <1>5, <1>6, <1>7, <1>8, <1>9, <1>10, <1>11, <1>12, <1>13, <1>14, <1>15, <1>16, <1>17, <1>18, Zenon DEF Step, Release, Proceed

\* Lock implements the mutual exclusion of module Mutex, for any number of threads
THEOREM LockIsMutex == Spec => ImplementsMutex
<1>1. Init => M!Init
  BY Zenon DEF Init, M!Init, holders, Holds
<1>2. IInv /\ [Next]_vars => [M!Next]_holders
  <2> SUFFICES ASSUME IInv, [Next]_vars PROVE M!Next \/ holders' = holders
    BY Zenon
  <2>1. CASE Next
    BY <2>1, StepRefines, Zenon DEF Next
  <2>2. CASE UNCHANGED vars
    BY <2>2, Zenon DEF vars, holders, Holds
  <2> QED BY <2>1, <2>2, Zenon
<1> QED BY <1>1, <1>2, Inductive, PTL DEF Spec, ImplementsMutex, M!Spec
=============================================================================

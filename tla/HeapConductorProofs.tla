------------------------- MODULE HeapConductorProofs -------------------------
(***************************************************************************)
(* What HeapConductor guarantees for any number of requested collections:  *)
(* whoever runs a phase has the conn, a stopped world has no mutator in it, *)
(* finalization stays between collections, and waits return in time.       *)
(***************************************************************************)
EXTENDS HeapConductorInv, TLAPS

\* While a collection has a scope, its request is pending
LEMMA ScopeHasRequest == IInv /\ collectionScope # "none" => requests # <<>>
  BY Zenon DEF IInv, ScopeConsistent, RequestsConsistent

\* The request that runBeginPhase serves is there
LEMMA BeginHasRequest ==
  ASSUME IInv, NEW c \in Conductors, InPhase(c, "Begin")
  PROVE  requests # <<>>
  BY Zenon DEF IInv, InPhase, At, RequestsConsistent, PhasesConsistent, PhaseAt, Label, Ending,
         Conductors, ConductorHasConn, MutatorConducts, CollectorConducts, Conducting,
         CollectorOnly, MutatorOnly

\* The request that runEndPhase retires is there
LEMMA ServeHasRequest ==
  ASSUME IInv, NEW c \in Conductors, At(c, "endServe")
  PROVE  requests # <<>> /\ lastServedTicket < lastGrantedTicket
<1>1. requests # <<>>
  BY Zenon DEF IInv, At, RequestsConsistent, PhasesConsistent, PhaseAt, Label, Ending, Conductors,
         ConductorHasConn, MutatorConducts, CollectorConducts, Conducting, CollectorOnly, MutatorOnly
<1>2. Len(requests) # 0
  BY <1>1 DEF IInv, TypeOK, TypeData
<1> QED
  BY <1>1, <1>2 DEF IInv, TypeOK, TypeData, RequestsConsistent

\* What appending a request does to the sequence
LEMMA AppendFacts ==
  ASSUME NEW S, NEW s \in Seq(S), NEW x \in S
  PROVE  /\ Append(s, x) \in Seq(S)
         /\ Len(Append(s, x)) = Len(s) + 1
         /\ Append(s, x) # <<>>
         /\ s # <<>> => Head(Append(s, x)) = Head(s)
<1>1. Append(s, x) \in Seq(S) /\ Len(Append(s, x)) = Len(s) + 1
  OBVIOUS
<1>2. Append(s, x) # <<>>
  <2>1. Len(s) \in Nat /\ Len(<<>>) = 0
    OBVIOUS
  <2> QED  BY <1>1, <2>1
<1>3. s # <<>> => Head(Append(s, x)) = Head(s)
  OBVIOUS
<1> QED
  BY <1>1, <1>2, <1>3, Zenon

\* Whether a collection is full is decided by its request
LEMMA FullFacts ==
  ASSUME NEW scope \in Scopes
  PROVE  shouldDoFullCollection(scope) \subseteq BOOLEAN
  BY ScopesAssumption, Zenon DEF shouldDoFullCollection

\* The world is stopped exactly in the phases that need it
LEMMA PhasesStep == IInv /\ [Next]_vars => PhasesConsistent'
<1> SUFFICES ASSUME IInv, [Next]_vars PROVE PhasesConsistent'
  BY Zenon
<1> USE DEF IInv, TypeOK, TypePC, At, Goto, Conductors, heap, tickets, flags, call, locals,
        BitsConsistent, CollectorConducts, MutatorConducts, ConductorHasConn, CollectorOnly,
        MutatorOnly, Conducting, LocalsConsistent, Label,
        PhasesConsistent, PhaseAt, Leaving, Entering, Ending, worldShouldBeSuspended
<1>1. ASSUME NEW c \in Conductors, Conduct(c) PROVE PhasesConsistent'
  <2>1. CASE runCurrentPhase(c)  BY <2>1 DEF runCurrentPhase
  <2>2. CASE finishChangingPhase(c)  BY <2>2 DEF finishChangingPhase, Return
  <2>3. CASE stopThePeriphery(c)  BY <2>3 DEF stopThePeriphery
  <2>4. CASE CommitPhase(c)  BY <2>4 DEF CommitPhase, Return
  <2>5. CASE UnparkWaiters(c)  BY <2>5 DEF UnparkWaiters, unparkAll, Return, MutatorPC, CollectorPC
  <2>6. CASE runNotRunningPhase(c)
    BY <2>6 DEF runNotRunningPhase, InPhase, PhaseReturns, changePhase
  <2>7. CASE runBeginPhase(c)  BY <2>7 DEF runBeginPhase, InPhase, changePhase
  <2>8. CASE runFixpointPhase(c)  BY <2>8 DEF runFixpointPhase, InPhase, changePhase, PhaseReturns
  <2>9. CASE runConcurrentPhase(c)
    BY <2>9 DEF runConcurrentPhase, InPhase, changePhase, PhaseReturns
  <2>10. CASE runReloopPhase(c)  BY <2>10 DEF runReloopPhase, InPhase, changePhase
  <2>11. CASE runEndPhase(c)  BY <2>11 DEF runEndPhase, InPhase
  <2>12. CASE ServeTicket(c)  BY <2>12 DEF ServeTicket
  <2>13. CASE setNeedFinalize(c)  BY <2>13 DEF setNeedFinalize
  <2>14. CASE EndCollection(c)  BY <2>14 DEF EndCollection, changePhase
  <2> HIDE DEF PhasesConsistent
  <2> QED  BY <1>1, <2>1, <2>2, <2>3, <2>4, <2>5, <2>6, <2>7, <2>8, <2>9, <2>10, <2>11, <2>12,
           <2>13, <2>14, Zenon DEF Conduct
<1>2. CASE CollectorStep \/ stopForTimeout
  <2>1. CASE resumeTheMutator  BY <2>1 DEF resumeTheMutator
  <2>2. CASE waitWhileNeedFinalize  BY <2>2, Zenon DEF waitWhileNeedFinalize
  <2>3. CASE stopTheMutator  BY <2>3, Zenon DEF stopTheMutator, Return
  <2>4. CASE poll  BY <2>4 DEF poll, unparkAll
  <2>5. CASE CollectorFinished  BY <2>5 DEF CollectorFinished
  <2>6. CASE stopForTimeout  BY <2>6 DEF stopForTimeout
  <2> HIDE DEF PhasesConsistent
  <2> QED  BY <1>1, <1>2, <2>1, <2>2, <2>3, <2>4, <2>5, <2>6, Zenon DEF CollectorStep, Conductors
<1>3. CASE MutatorCalls
  <2>1. CASE stopIfNecessary  BY <2>1 DEF stopIfNecessary, mayNeedToStop
  <2>2. CASE releaseAccess  BY <2>2 DEF releaseAccess
  <2>3. CASE acquireAccess  BY <2>3 DEF acquireAccess
  <2>4. CASE preventCollection  BY <2>4 DEF preventCollection, StartOp
  <2>5. CASE lastChanceToFinalize  BY <2>5 DEF lastChanceToFinalize, StartOp
  <2>6. ASSUME NEW scope \in Scopes, collectSync(scope) PROVE PhasesConsistent'
    BY <2>6 DEF collectSync, StartOp
  <2>7. ASSUME NEW scope \in Scopes, NEW b \in BOOLEAN, collectAsync(scope, b) PROVE PhasesConsistent'
    BY <2>7 DEF collectAsync, StartOp
  <2> HIDE DEF PhasesConsistent
  <2> QED  BY <1>3, <2>1, <2>2, <2>3, <2>4, <2>5, <2>6, <2>7, Zenon DEF MutatorCalls
<1>4. CASE MutatorStep
  <2>1. CASE handleNeedFinalize  BY <2>1 DEF handleNeedFinalize, Finalizing
  <2>2. CASE finalize  BY <2>2 DEF finalize, unparkAll, Finalizing
  <2>3. CASE NothingToFinalize  BY <2>3 DEF NothingToFinalize
  <2>4. CASE stopIfNecessarySlow  BY <2>4 DEF stopIfNecessarySlow
  <2>5. CASE MutatorFinished  BY <2>5 DEF MutatorFinished
  <2>6. CASE releaseAccessSlow  BY <2>6 DEF releaseAccessSlow
  <2>7. CASE acquireAccessSlow  BY <2>7 DEF acquireAccessSlow
  <2>8. CASE finishRelinquishingConn  BY <2>8 DEF finishRelinquishingConn, notifyOne, unparkAll
  <2>9. CASE relinquishConn  BY <2>9 DEF relinquishConn
  <2>10. CASE requestCollection  BY <2>10 DEF requestCollection, notifyOne
  <2>11. CASE WaitCheck  BY <2>11 DEF WaitCheck, CollectorDone
  <2>12. CASE WaitStop  BY <2>12 DEF WaitStop
  <2>13. CASE WaitPark  BY <2>13 DEF WaitPark
  <2>14. CASE StopThread  BY <2>14 DEF StopThread, notifyOne
  <2>15. CASE join  BY <2>15, Zenon DEF join
  <2>16. CASE mayNeedToStop("requestStop", "request")  BY <2>16 DEF mayNeedToStop
  <2>17. CASE mayNeedToStop("acquireStop", "run")  BY <2>17 DEF mayNeedToStop
  <2> HIDE DEF PhasesConsistent
  <2> QED  BY <1>1, <1>4, <2>1, <2>2, <2>3, <2>4, <2>5, <2>6, <2>7, <2>8, <2>9, <2>10, <2>11,
           <2>12, <2>13, <2>14, <2>15, <2>16, <2>17, Zenon DEF MutatorStep, Conductors
<1>5. CASE UNCHANGED vars  BY <1>5 DEF vars
<1> HIDE DEF PhasesConsistent
<1> QED  BY <1>1, <1>2, <1>3, <1>4, <1>5, Zenon DEF Next, Terminated

\* The bits keep agreeing with the threads
LEMMA BitsStep == IInv /\ [Next]_vars => BitsConsistent'
<1> SUFFICES ASSUME IInv, [Next]_vars PROVE BitsConsistent'
  BY Zenon
<1> USE DEF IInv, TypeOK, TypePC, At, Goto, Conductors, heap, tickets, flags, call, locals,
        BitsConsistent, Outside, CollectorConducts, MutatorConducts, ConductorHasConn,
        CollectorOnly, MutatorOnly, Conducting, LocalsConsistent, Label, Finalizing,
        PhasesConsistent, PhaseAt, Leaving, Entering, Ending
<1>1. ASSUME NEW c \in Conductors, Conduct(c) PROVE BitsConsistent'
  <2>1. CASE runCurrentPhase(c)  BY <2>1, Zenon DEF runCurrentPhase
  <2>2. CASE finishChangingPhase(c)  BY <2>2 DEF finishChangingPhase, Return
  <2>3. CASE stopThePeriphery(c)  BY <2>3, Zenon DEF stopThePeriphery
  <2>4. CASE CommitPhase(c)  BY <2>4, Zenon DEF CommitPhase, Return
  <2>5. CASE UnparkWaiters(c)  BY <2>5 DEF UnparkWaiters, unparkAll, Return
  <2>6. CASE runNotRunningPhase(c)
    BY <2>6 DEF runNotRunningPhase, InPhase, PhaseReturns, changePhase
  <2>7. CASE runBeginPhase(c)  BY <2>7, Zenon DEF runBeginPhase, InPhase, changePhase
  <2>8. CASE runFixpointPhase(c)  BY <2>8 DEF runFixpointPhase, InPhase, changePhase, PhaseReturns
  <2>9. CASE runConcurrentPhase(c)
    BY <2>9 DEF runConcurrentPhase, InPhase, changePhase, PhaseReturns
  <2>10. CASE runReloopPhase(c)  BY <2>10, Zenon DEF runReloopPhase, InPhase, changePhase
  <2>11. CASE runEndPhase(c)  BY <2>11, Zenon DEF runEndPhase, InPhase
  <2>12. CASE ServeTicket(c)  BY <2>12, Zenon DEF ServeTicket
  <2>13. CASE setNeedFinalize(c)  BY <2>13, Zenon DEF setNeedFinalize
  <2>14. CASE EndCollection(c)  BY <2>14, Zenon DEF EndCollection, changePhase
  <2> HIDE DEF BitsConsistent
  <2> QED  BY <1>1, <2>1, <2>2, <2>3, <2>4, <2>5, <2>6, <2>7, <2>8, <2>9, <2>10, <2>11, <2>12,
           <2>13, <2>14, Zenon DEF Conduct
<1>2. CASE CollectorStep \/ stopForTimeout
  <2>1. CASE resumeTheMutator  BY <2>1, Zenon DEF resumeTheMutator
  <2>2. CASE waitWhileNeedFinalize  BY <2>2, Zenon DEF waitWhileNeedFinalize
  <2>3. CASE stopTheMutator  BY <2>3, Zenon DEF stopTheMutator, Return
  <2>4. CASE poll  BY <2>4, Zenon DEF poll, unparkAll
  <2>5. CASE CollectorFinished  BY <2>5, Zenon DEF CollectorFinished
  <2>6. CASE stopForTimeout  BY <2>6, Zenon DEF stopForTimeout
  <2> HIDE DEF BitsConsistent
  <2> QED  BY <1>1, <1>2, <2>1, <2>2, <2>3, <2>4, <2>5, <2>6, Zenon DEF CollectorStep, Conductors
<1>3. CASE MutatorCalls
  <2>1. CASE stopIfNecessary  BY <2>1, Zenon DEF stopIfNecessary, mayNeedToStop
  <2>2. CASE releaseAccess  BY <2>2, Zenon DEF releaseAccess
  <2>3. CASE acquireAccess  BY <2>3, Zenon DEF acquireAccess
  <2>4. CASE preventCollection  BY <2>4, Zenon DEF preventCollection, StartOp
  <2>5. CASE lastChanceToFinalize  BY <2>5, Zenon DEF lastChanceToFinalize, StartOp
  <2>6. ASSUME NEW scope \in Scopes, collectSync(scope) PROVE BitsConsistent'
    BY <2>6, Zenon DEF collectSync, StartOp
  <2>7. ASSUME NEW scope \in Scopes, NEW b \in BOOLEAN, collectAsync(scope, b) PROVE BitsConsistent'
    BY <2>7, Zenon DEF collectAsync, StartOp
  <2> HIDE DEF BitsConsistent
  <2> QED  BY <1>3, <2>1, <2>2, <2>3, <2>4, <2>5, <2>6, <2>7, Zenon DEF MutatorCalls
<1>4. CASE MutatorStep
  <2>1. CASE handleNeedFinalize  BY <2>1, Zenon DEF handleNeedFinalize
  <2>2. CASE finalize  BY <2>2, Zenon DEF finalize, unparkAll
  <2>3. CASE NothingToFinalize  BY <2>3, Zenon DEF NothingToFinalize
  <2>4. CASE stopIfNecessarySlow  BY <2>4, Zenon DEF stopIfNecessarySlow
  <2>5. CASE MutatorFinished  BY <2>5, Zenon DEF MutatorFinished
  <2>6. CASE releaseAccessSlow  BY <2>6, Zenon DEF releaseAccessSlow
  <2>7. CASE acquireAccessSlow  BY <2>7, Zenon DEF acquireAccessSlow
  <2>8. CASE finishRelinquishingConn  BY <2>8 DEF finishRelinquishingConn, notifyOne, unparkAll
  <2>9. CASE relinquishConn  BY <2>9, Zenon DEF relinquishConn
  <2>10. CASE requestCollection  BY <2>10 DEF requestCollection, notifyOne
  <2>11. CASE WaitCheck  BY <2>11, Zenon DEF WaitCheck, CollectorDone
  <2>12. CASE WaitStop  BY <2>12, Zenon DEF WaitStop
  <2>13. CASE WaitPark  BY <2>13, Zenon DEF WaitPark
  <2>14. CASE StopThread  BY <2>14, Zenon DEF StopThread, notifyOne
  <2>15. CASE join  BY <2>15, Zenon DEF join
  <2>16. CASE mayNeedToStop("requestStop", "request")  BY <2>16, Zenon DEF mayNeedToStop
  <2>17. CASE mayNeedToStop("acquireStop", "run")  BY <2>17, Zenon DEF mayNeedToStop
  <2> HIDE DEF BitsConsistent
  <2> QED  BY <1>1, <1>4, <2>1, <2>2, <2>3, <2>4, <2>5, <2>6, <2>7, <2>8, <2>9, <2>10, <2>11,
           <2>12, <2>13, <2>14, <2>15, <2>16, <2>17, Zenon DEF MutatorStep, Conductors
<1>5. CASE UNCHANGED vars  BY <1>5, Zenon DEF vars
<1> HIDE DEF BitsConsistent
<1> QED  BY <1>1, <1>2, <1>3, <1>4, <1>5, Zenon DEF Next, Terminated


\* The conn changes hands only between phases
LEMMA ConnStep == IInv /\ [Next]_vars => ConductorHasConn'
<1> SUFFICES ASSUME IInv, [Next]_vars PROVE ConductorHasConn'
  BY Zenon
<1> USE DEF IInv, TypeOK, TypePC, At, Goto, Conductors, heap, tickets, flags, call, locals,
        ConductorHasConn, MutatorConducts, CollectorConducts, CollectorOnly, MutatorOnly,
        Conducting, BitsConsistent, LocalsConsistent, Label, Finalizing
<1>1. ASSUME NEW c \in Conductors, Conduct(c) PROVE ConductorHasConn'
  <2>1. CASE runCurrentPhase(c)  BY <2>1, Zenon DEF runCurrentPhase
  <2>2. CASE finishChangingPhase(c)  BY <2>2, Zenon DEF finishChangingPhase, Return
  <2>3. CASE stopThePeriphery(c)  BY <2>3, Zenon DEF stopThePeriphery
  <2>4. CASE CommitPhase(c)  BY <2>4, Zenon DEF CommitPhase, Return
  <2>5. CASE UnparkWaiters(c)  BY <2>5 DEF UnparkWaiters, unparkAll, Return
  <2>6. CASE runNotRunningPhase(c)
    BY <2>6 DEF runNotRunningPhase, InPhase, PhaseReturns, changePhase
  <2>7. CASE runBeginPhase(c)  BY <2>7, Zenon DEF runBeginPhase, InPhase, changePhase
  <2>8. CASE runFixpointPhase(c)  BY <2>8 DEF runFixpointPhase, InPhase, changePhase, PhaseReturns
  <2>9. CASE runConcurrentPhase(c)
    BY <2>9, Zenon DEF runConcurrentPhase, InPhase, changePhase, PhaseReturns
  <2>10. CASE runReloopPhase(c)  BY <2>10, Zenon DEF runReloopPhase, InPhase, changePhase
  <2>11. CASE runEndPhase(c)  BY <2>11, Zenon DEF runEndPhase, InPhase
  <2>12. CASE ServeTicket(c)  BY <2>12, Zenon DEF ServeTicket
  <2>13. CASE setNeedFinalize(c)  BY <2>13, Zenon DEF setNeedFinalize
  <2>14. CASE EndCollection(c)  BY <2>14, Zenon DEF EndCollection, changePhase
  <2> HIDE DEF ConductorHasConn
  <2> QED  BY <1>1, <2>1, <2>2, <2>3, <2>4, <2>5, <2>6, <2>7, <2>8, <2>9, <2>10, <2>11, <2>12,
           <2>13, <2>14, Zenon DEF Conduct
<1>2. CASE CollectorStep \/ stopForTimeout
  <2>1. CASE resumeTheMutator  BY <2>1, Zenon DEF resumeTheMutator
  <2>2. CASE waitWhileNeedFinalize  BY <2>2, Zenon DEF waitWhileNeedFinalize
  <2>3. CASE stopTheMutator  BY <2>3, Zenon DEF stopTheMutator, Return
  <2>4. CASE poll  BY <2>4, Zenon DEF poll, unparkAll
  <2>5. CASE CollectorFinished  BY <2>5, Zenon DEF CollectorFinished
  <2>6. CASE stopForTimeout  BY <2>6, Zenon DEF stopForTimeout
  <2> HIDE DEF ConductorHasConn
  <2> QED  BY <1>1, <1>2, <2>1, <2>2, <2>3, <2>4, <2>5, <2>6, Zenon DEF CollectorStep, Conductors
<1>3. CASE MutatorCalls
  <2>1. CASE stopIfNecessary  BY <2>1, Zenon DEF stopIfNecessary, mayNeedToStop
  <2>2. CASE releaseAccess  BY <2>2, Zenon DEF releaseAccess
  <2>3. CASE acquireAccess  BY <2>3, Zenon DEF acquireAccess
  <2>4. CASE preventCollection  BY <2>4, Zenon DEF preventCollection, StartOp
  <2>5. CASE lastChanceToFinalize  BY <2>5, Zenon DEF lastChanceToFinalize, StartOp
  <2>6. ASSUME NEW scope \in Scopes, collectSync(scope) PROVE ConductorHasConn'
    BY <2>6, Zenon DEF collectSync, StartOp
  <2>7. ASSUME NEW scope \in Scopes, NEW b \in BOOLEAN, collectAsync(scope, b) PROVE ConductorHasConn'
    BY <2>7, Zenon DEF collectAsync, StartOp
  <2> HIDE DEF ConductorHasConn
  <2> QED  BY <1>3, <2>1, <2>2, <2>3, <2>4, <2>5, <2>6, <2>7, Zenon DEF MutatorCalls
<1>4. CASE MutatorStep
  <2>1. CASE handleNeedFinalize  BY <2>1 DEF handleNeedFinalize
  <2>2. CASE finalize  BY <2>2, Zenon DEF finalize, unparkAll
  <2>3. CASE NothingToFinalize  BY <2>3, Zenon DEF NothingToFinalize
  <2>4. CASE stopIfNecessarySlow  BY <2>4, Zenon DEF stopIfNecessarySlow
  <2>5. CASE MutatorFinished  BY <2>5, Zenon DEF MutatorFinished
  <2>6. CASE releaseAccessSlow  BY <2>6, Zenon DEF releaseAccessSlow
  <2>7. CASE acquireAccessSlow  BY <2>7, Zenon DEF acquireAccessSlow
  <2>8. CASE finishRelinquishingConn  BY <2>8 DEF finishRelinquishingConn, notifyOne, unparkAll
  <2>9. CASE relinquishConn  BY <2>9, Zenon DEF relinquishConn
  <2>10. CASE requestCollection  BY <2>10 DEF requestCollection, notifyOne
  <2>11. CASE WaitCheck  BY <2>11, Zenon DEF WaitCheck, CollectorDone
  <2>12. CASE WaitStop  BY <2>12, Zenon DEF WaitStop
  <2>13. CASE WaitPark  BY <2>13, Zenon DEF WaitPark
  <2>14. CASE StopThread  BY <2>14 DEF StopThread, notifyOne
  <2>15. CASE join  BY <2>15, Zenon DEF join
  <2>16. CASE mayNeedToStop("requestStop", "request")  BY <2>16, Zenon DEF mayNeedToStop
  <2>17. CASE mayNeedToStop("acquireStop", "run")  BY <2>17, Zenon DEF mayNeedToStop
  <2> HIDE DEF ConductorHasConn
  <2> QED  BY <1>1, <1>4, <2>1, <2>2, <2>3, <2>4, <2>5, <2>6, <2>7, <2>8, <2>9, <2>10, <2>11,
           <2>12, <2>13, <2>14, <2>15, <2>16, <2>17, Zenon DEF MutatorStep, Conductors
<1>5. CASE UNCHANGED vars  BY <1>5, Zenon DEF vars
<1> HIDE DEF ConductorHasConn
<1> QED  BY <1>1, <1>2, <1>3, <1>4, <1>5, Zenon DEF Next, Terminated

\* Control keeps its type
LEMMA TypePCStep == IInv /\ [Next]_vars => TypePC'
<1> SUFFICES ASSUME IInv, [Next]_vars PROVE TypePC'
  BY Zenon
<1> USE DEF IInv, TypeOK, TypePC, At, Goto, Conductors, heap, tickets, flags, call, locals,
        MutatorPC, CollectorPC, CollectorOnly, MutatorOnly, Conducting, LocalsConsistent,
        Finalizing, Label
<1>1. ASSUME NEW c \in Conductors, Conduct(c) PROVE TypePC'
  <2>1. CASE runCurrentPhase(c)  BY <2>1 DEF runCurrentPhase
  <2>2. CASE finishChangingPhase(c)  BY <2>2 DEF finishChangingPhase, Return
  <2>3. CASE stopThePeriphery(c)  BY <2>3 DEF stopThePeriphery
  <2>4. CASE CommitPhase(c)  BY <2>4 DEF CommitPhase, Return
  <2>5. CASE UnparkWaiters(c)  BY <2>5 DEF UnparkWaiters, unparkAll, Return
  <2>6. CASE runNotRunningPhase(c)
    BY <2>6 DEF runNotRunningPhase, InPhase, PhaseReturns, changePhase
  <2>7. CASE runBeginPhase(c)  BY <2>7 DEF runBeginPhase, InPhase, changePhase
  <2>8. CASE runFixpointPhase(c)  BY <2>8 DEF runFixpointPhase, InPhase, changePhase, PhaseReturns
  <2>9. CASE runConcurrentPhase(c)
    BY <2>9 DEF runConcurrentPhase, InPhase, changePhase, PhaseReturns
  <2>10. CASE runReloopPhase(c)  BY <2>10 DEF runReloopPhase, InPhase, changePhase
  <2>11. CASE runEndPhase(c)  BY <2>11, Zenon DEF runEndPhase, InPhase
  <2>12. CASE ServeTicket(c)  BY <2>12 DEF ServeTicket
  <2>13. CASE setNeedFinalize(c)  BY <2>13 DEF setNeedFinalize
  <2>14. CASE EndCollection(c)  BY <2>14, Zenon DEF EndCollection, changePhase
  <2> HIDE DEF TypePC
  <2> QED  BY <1>1, <2>1, <2>2, <2>3, <2>4, <2>5, <2>6, <2>7, <2>8, <2>9, <2>10, <2>11, <2>12,
           <2>13, <2>14, Zenon DEF Conduct
<1>2. CASE CollectorStep \/ stopForTimeout
  <2>1. CASE resumeTheMutator  BY <2>1, Zenon DEF resumeTheMutator
  <2>2. CASE waitWhileNeedFinalize  BY <2>2 DEF waitWhileNeedFinalize
  <2>3. CASE stopTheMutator  BY <2>3 DEF stopTheMutator, Return
  <2>4. CASE poll  BY <2>4 DEF poll, unparkAll
  <2>5. CASE CollectorFinished  BY <2>5, Zenon DEF CollectorFinished
  <2>6. CASE stopForTimeout  BY <2>6, Zenon DEF stopForTimeout
  <2> HIDE DEF TypePC
  <2> QED  BY <1>1, <1>2, <2>1, <2>2, <2>3, <2>4, <2>5, <2>6, Zenon DEF CollectorStep, Conductors
<1>3. CASE MutatorCalls
  <2>1. CASE stopIfNecessary  BY <2>1, Zenon DEF stopIfNecessary, mayNeedToStop
  <2>2. CASE releaseAccess  BY <2>2 DEF releaseAccess
  <2>3. CASE acquireAccess  BY <2>3 DEF acquireAccess
  <2>4. CASE preventCollection  BY <2>4, Zenon DEF preventCollection, StartOp
  <2>5. CASE lastChanceToFinalize  BY <2>5, Zenon DEF lastChanceToFinalize, StartOp
  <2>6. ASSUME NEW scope \in Scopes, collectSync(scope) PROVE TypePC'
    BY <2>6, Zenon DEF collectSync, StartOp
  <2>7. ASSUME NEW scope \in Scopes, NEW b \in BOOLEAN, collectAsync(scope, b) PROVE TypePC'
    BY <2>7, Zenon DEF collectAsync, StartOp
  <2> HIDE DEF TypePC
  <2> QED  BY <1>3, <2>1, <2>2, <2>3, <2>4, <2>5, <2>6, <2>7, Zenon DEF MutatorCalls
<1>4. CASE MutatorStep
  <2>1. CASE handleNeedFinalize  BY <2>1 DEF handleNeedFinalize
  <2>2. CASE finalize  BY <2>2, Zenon DEF finalize, unparkAll
  <2>3. CASE NothingToFinalize  BY <2>3 DEF NothingToFinalize
  <2>4. CASE stopIfNecessarySlow  BY <2>4, Zenon DEF stopIfNecessarySlow
  <2>5. CASE MutatorFinished  BY <2>5, Zenon DEF MutatorFinished
  <2>6. CASE releaseAccessSlow  BY <2>6, Zenon DEF releaseAccessSlow
  <2>7. CASE acquireAccessSlow  BY <2>7 DEF acquireAccessSlow
  <2>8. CASE finishRelinquishingConn  BY <2>8 DEF finishRelinquishingConn, notifyOne, unparkAll
  <2>9. CASE relinquishConn  BY <2>9 DEF relinquishConn
  <2>10. CASE requestCollection  BY <2>10 DEF requestCollection, notifyOne
  <2>11. CASE WaitCheck  BY <2>11, Zenon DEF WaitCheck, CollectorDone
  <2>12. CASE WaitStop  BY <2>12, Zenon DEF WaitStop
  <2>13. CASE WaitPark  BY <2>13 DEF WaitPark
  <2>14. CASE StopThread  BY <2>14 DEF StopThread, notifyOne
  <2>15. CASE join  BY <2>15, Zenon DEF join
  <2>16. CASE mayNeedToStop("requestStop", "request")  BY <2>16, Zenon DEF mayNeedToStop
  <2>17. CASE mayNeedToStop("acquireStop", "run")  BY <2>17, Zenon DEF mayNeedToStop
  <2> HIDE DEF TypePC
  <2> QED  BY <1>1, <1>4, <2>1, <2>2, <2>3, <2>4, <2>5, <2>6, <2>7, <2>8, <2>9, <2>10, <2>11,
           <2>12, <2>13, <2>14, <2>15, <2>16, <2>17, Zenon DEF MutatorStep, Conductors
<1>5. CASE UNCHANGED vars  BY <1>5 DEF vars
<1> HIDE DEF TypePC
<1> QED  BY <1>1, <1>2, <1>3, <1>4, <1>5, Zenon DEF Next, Terminated

\* Data keeps its type
LEMMA TypeDataStep == IInv /\ [Next]_vars => TypeData'
<1> SUFFICES ASSUME IInv, [Next]_vars PROVE TypeData'
  BY Zenon
<1> USE MaxTicketsAssumption DEF IInv, TypeOK, TypeData, heap, tickets, flags, call, locals
<1>1. ASSUME NEW c \in Conductors, Conduct(c) PROVE TypeData'
  <2>1. CASE runCurrentPhase(c)  BY <2>1, Zenon DEF runCurrentPhase
  <2>2. CASE finishChangingPhase(c)
    <3>1. currentPhase' \in Phases /\ worldIsStopped' \in BOOLEAN
      BY <2>2, Zenon DEF finishChangingPhase
    <3> QED  BY <2>2, <3>1, Zenon DEF finishChangingPhase
  <2>3. CASE stopThePeriphery(c)  BY <2>3, Zenon DEF stopThePeriphery
  <2>4. CASE CommitPhase(c)  BY <2>4 DEF CommitPhase, Return
  <2>5. CASE UnparkWaiters(c)  BY <2>5, Zenon DEF UnparkWaiters, unparkAll, Return
  <2>6. CASE runNotRunningPhase(c)
    BY <2>6, Zenon DEF runNotRunningPhase, InPhase, PhaseReturns, changePhase, Phases
  <2>7. CASE runBeginPhase(c)  BY <2>7, Zenon DEF runBeginPhase, InPhase, changePhase, Phases
  <2>8. CASE runFixpointPhase(c)
    BY <2>8, Zenon DEF runFixpointPhase, InPhase, changePhase, PhaseReturns, Phases
  <2>9. CASE runConcurrentPhase(c)
    BY <2>9, Zenon DEF runConcurrentPhase, InPhase, changePhase, PhaseReturns, Phases
  <2>10. CASE runReloopPhase(c)  BY <2>10 DEF runReloopPhase, InPhase, changePhase, Phases
  <2>11. CASE runEndPhase(c)  BY <2>11, Zenon DEF runEndPhase, InPhase
  <2>12. CASE ServeTicket(c)
    <3>1. requests # <<>> /\ lastServedTicket < lastGrantedTicket
      BY <2>12, ServeHasRequest, Zenon DEF ServeTicket
    <3> QED  BY <2>12, <3>1 DEF ServeTicket
  <2>13. CASE setNeedFinalize(c)  BY <2>13 DEF setNeedFinalize, Bits
  <2>14. CASE EndCollection(c)  BY <2>14 DEF EndCollection, changePhase, Phases
  <2> HIDE DEF TypeData
  <2> QED  BY <1>1, <2>1, <2>2, <2>3, <2>4, <2>5, <2>6, <2>7, <2>8, <2>9, <2>10, <2>11, <2>12,
           <2>13, <2>14, Zenon DEF Conduct
<1>2. CASE CollectorStep \/ stopForTimeout
  <2>1. CASE resumeTheMutator  BY <2>1 DEF resumeTheMutator, Bits
  <2>2. CASE waitWhileNeedFinalize
    <3>1. parked' \in SUBSET Conductors
      BY <2>2, Zenon DEF waitWhileNeedFinalize, Conductors
    <3> QED  BY <2>2, <3>1 DEF waitWhileNeedFinalize
  <2>3. CASE stopTheMutator
    <3>1. worldState' \in SUBSET Bits
      BY <2>3, Zenon DEF stopTheMutator, Bits
    <3> QED  BY <2>3, <3>1 DEF stopTheMutator
  <2>4. CASE poll  BY <2>4, Zenon DEF poll, unparkAll
  <2>5. CASE CollectorFinished  BY <2>5, Zenon DEF CollectorFinished
  <2>6. CASE stopForTimeout  BY <2>6, Zenon DEF stopForTimeout
  <2> HIDE DEF TypeData
  <2> QED  BY <1>1, <1>2, <2>1, <2>2, <2>3, <2>4, <2>5, <2>6, Zenon DEF CollectorStep, Conductors
<1>3. CASE MutatorCalls
  <2>1. CASE stopIfNecessary  BY <2>1, Zenon DEF stopIfNecessary, mayNeedToStop
  <2>2. CASE releaseAccess
    <3>1. worldState' \in SUBSET Bits
      BY <2>2, Zenon DEF releaseAccess, Bits
    <3> QED  BY <2>2, <3>1, Zenon DEF releaseAccess
  <2>3. CASE acquireAccess
    <3>1. worldState' \in SUBSET Bits
      BY <2>3, Zenon DEF acquireAccess, Bits
    <3> QED  BY <2>3, <3>1, Zenon DEF acquireAccess
  <2>4. CASE preventCollection  BY <2>4, Zenon DEF preventCollection, StartOp
  <2>5. CASE lastChanceToFinalize  BY <2>5, Zenon DEF lastChanceToFinalize, StartOp
  <2>6. ASSUME NEW scope \in Scopes, collectSync(scope) PROVE TypeData'
    BY <2>6, Zenon DEF collectSync, StartOp
  <2>7. ASSUME NEW scope \in Scopes, NEW b \in BOOLEAN, collectAsync(scope, b) PROVE TypeData'
    BY <2>7, Zenon DEF collectAsync, StartOp
  <2> HIDE DEF TypeData
  <2> QED  BY <1>3, <2>1, <2>2, <2>3, <2>4, <2>5, <2>6, <2>7, Zenon DEF MutatorCalls
<1>4. CASE MutatorStep
  <2>1. CASE handleNeedFinalize  BY <2>1 DEF handleNeedFinalize
  <2>2. CASE finalize  BY <2>2 DEF finalize, unparkAll
  <2>3. CASE NothingToFinalize  BY <2>3, Zenon DEF NothingToFinalize
  <2>4. CASE stopIfNecessarySlow  BY <2>4, Zenon DEF stopIfNecessarySlow
  <2>5. CASE MutatorFinished  BY <2>5, Zenon DEF MutatorFinished
  <2>6. CASE releaseAccessSlow
    <3>1. worldState' \in SUBSET Bits
      BY <2>6, Zenon DEF releaseAccessSlow, Bits
    <3> QED  BY <2>6, <3>1, Zenon DEF releaseAccessSlow
  <2>7. CASE acquireAccessSlow
    <3>1. worldState' \in SUBSET Bits /\ parked' \in SUBSET Conductors
      BY <2>7, Zenon DEF acquireAccessSlow, Bits, Conductors
    <3> QED  BY <2>7, <3>1, Zenon DEF acquireAccessSlow
  <2>8. CASE finishRelinquishingConn  BY <2>8 DEF finishRelinquishingConn, notifyOne, unparkAll
  <2>9. CASE relinquishConn
    <3>1. worldState' \in SUBSET Bits
      BY <2>9, Zenon DEF relinquishConn, Bits
    <3> QED  BY <2>9, <3>1 DEF relinquishConn
  <2>10. CASE requestCollection
    <3>1. opScope \in Scopes /\ lastGrantedTicket < MaxTickets
      BY <2>10, Zenon DEF requestCollection, At, LocalsConsistent
    <3>2. requests' \in Seq(Scopes)
      BY <2>10, <3>1, AppendFacts, Zenon DEF requestCollection
    <3>3. worldState' \in SUBSET Bits
      BY <2>10, Zenon DEF requestCollection, Bits
    <3>4. op' \in {"none", "sync"} /\ opScope' = "none"
      BY <2>10, Zenon DEF requestCollection
    <3>5. lastGrantedTicket' \in 0 .. MaxTickets /\ ticket' \in 0 .. MaxTickets
      BY <2>10, <3>1 DEF requestCollection
    <3> QED  BY <2>10, <3>2, <3>3, <3>4, <3>5, Zenon DEF requestCollection
  <2>11. CASE WaitCheck  BY <2>11, Zenon DEF WaitCheck, CollectorDone, Bits
  <2>12. CASE WaitStop  BY <2>12 DEF WaitStop
  <2>13. CASE WaitPark  BY <2>13, Zenon DEF WaitPark, Conductors
  <2>14. CASE StopThread  BY <2>14, Zenon DEF StopThread, notifyOne
  <2>15. CASE join  BY <2>15 DEF join
  <2>16. CASE mayNeedToStop("requestStop", "request")  BY <2>16, Zenon DEF mayNeedToStop
  <2>17. CASE mayNeedToStop("acquireStop", "run")  BY <2>17, Zenon DEF mayNeedToStop
  <2> HIDE DEF TypeData
  <2> QED  BY <1>1, <1>4, <2>1, <2>2, <2>3, <2>4, <2>5, <2>6, <2>7, <2>8, <2>9, <2>10, <2>11,
           <2>12, <2>13, <2>14, <2>15, <2>16, <2>17, Zenon DEF MutatorStep, Conductors
<1>5. CASE UNCHANGED vars  BY <1>5, Zenon DEF vars
<1> HIDE DEF TypeData
<1> QED  BY <1>1, <1>2, <1>3, <1>4, <1>5, Zenon DEF Next, Terminated

\* Finalization stays between collections
LEMMA ScopeStep == IInv /\ [Next]_vars => ScopeConsistent'
<1> SUFFICES ASSUME IInv, [Next]_vars PROVE ScopeConsistent'
  BY Zenon
<1> USE DEF IInv, TypeOK, TypePC, At, Goto, Conductors, heap, tickets, flags, call, locals,
        TypeData, Phases, worldShouldBeSuspended, ScopeConsistent, CollectorOnly,
        MutatorOnly, Conducting, LocalsConsistent, Finalizing, Label, PhasesConsistent,
        PhaseAt, Ending, Entering, Leaving, ConductorHasConn, MutatorConducts,
        CollectorConducts
<1>1. ASSUME NEW c \in Conductors, Conduct(c) PROVE ScopeConsistent'
  <2>1. CASE runCurrentPhase(c)  BY <2>1 DEF runCurrentPhase
  <2>2. CASE finishChangingPhase(c)  BY <2>2 DEF finishChangingPhase, Return
  <2>3. CASE stopThePeriphery(c)  BY <2>3 DEF stopThePeriphery
  <2>4. CASE CommitPhase(c)  BY <2>4 DEF CommitPhase, Return
  <2>5. CASE UnparkWaiters(c)  BY <2>5 DEF UnparkWaiters, unparkAll, Return
  <2>6. CASE runNotRunningPhase(c)
    BY <2>6 DEF runNotRunningPhase, InPhase, PhaseReturns, changePhase
  <2>7. CASE runBeginPhase(c)
    <3>1. requests' = requests /\ worldState' = worldState
      BY <2>7, Zenon DEF runBeginPhase, changePhase
    <3>2. (collectionScope' = "Full") \in shouldDoFullCollection(Head(requests))
      <4> HIDE DEF TypePC, ScopeConsistent, PhasesConsistent, ConductorHasConn
      <4>1. Head(requests) \in Scopes
        BY <2>7, BeginHasRequest DEF runBeginPhase
      <4>2. PICK full \in shouldDoFullCollection(Head(requests)) :
               collectionScope' = IF full THEN "Full" ELSE "Eden"
        BY <2>7, Zenon DEF runBeginPhase
      <4>3. full \in BOOLEAN
        BY <4>1, <4>2, FullFacts, Zenon
      <4>4. (collectionScope' = "Full") = full
        BY <4>2, <4>3, Zenon
      <4> QED  BY <4>2, <4>4, Zenon
    <3>3. "needFinalize" \notin worldState
      BY <2>7, Zenon DEF runBeginPhase, InPhase
    <3>4. pc["Mutator"] # "finalize"
      BY <2>7, Zenon DEF runBeginPhase, InPhase, BitsConsistent, Outside
    <3> QED  BY <2>7, <3>1, <3>2, <3>3, <3>4 DEF runBeginPhase, InPhase, changePhase
  <2>8. CASE runFixpointPhase(c)  BY <2>8 DEF runFixpointPhase, InPhase, changePhase, PhaseReturns
  <2>9. CASE runConcurrentPhase(c)
    BY <2>9, Zenon DEF runConcurrentPhase, InPhase, changePhase, PhaseReturns
  <2>10. CASE runReloopPhase(c)  BY <2>10, Zenon DEF runReloopPhase, InPhase, changePhase
  <2>11. CASE runEndPhase(c)  BY <2>11, Zenon DEF runEndPhase, InPhase
  <2>12. CASE ServeTicket(c)  BY <2>12, Zenon DEF ServeTicket
  <2>13. CASE setNeedFinalize(c)  BY <2>13, Zenon DEF setNeedFinalize
  <2>14. CASE EndCollection(c)  BY <2>14, Zenon DEF EndCollection, changePhase
  <2> HIDE DEF ScopeConsistent
  <2> QED  BY <1>1, <2>1, <2>2, <2>3, <2>4, <2>5, <2>6, <2>7, <2>8, <2>9, <2>10, <2>11, <2>12,
           <2>13, <2>14, Zenon DEF Conduct
<1>2. CASE CollectorStep \/ stopForTimeout
  <2>1. CASE resumeTheMutator  BY <2>1, Zenon DEF resumeTheMutator
  <2>2. CASE waitWhileNeedFinalize  BY <2>2, Zenon DEF waitWhileNeedFinalize
  <2>3. CASE stopTheMutator  BY <2>3 DEF stopTheMutator, Return
  <2>4. CASE poll  BY <2>4 DEF poll, unparkAll
  <2>5. CASE CollectorFinished  BY <2>5 DEF CollectorFinished
  <2>6. CASE stopForTimeout  BY <2>6 DEF stopForTimeout
  <2> HIDE DEF ScopeConsistent
  <2> QED  BY <1>1, <1>2, <2>1, <2>2, <2>3, <2>4, <2>5, <2>6, Zenon DEF CollectorStep, Conductors
<1>3. CASE MutatorCalls
  <2>1. CASE stopIfNecessary  BY <2>1 DEF stopIfNecessary, mayNeedToStop
  <2>2. CASE releaseAccess  BY <2>2 DEF releaseAccess
  <2>3. CASE acquireAccess  BY <2>3 DEF acquireAccess
  <2>4. CASE preventCollection  BY <2>4 DEF preventCollection, StartOp
  <2>5. CASE lastChanceToFinalize  BY <2>5 DEF lastChanceToFinalize, StartOp
  <2>6. ASSUME NEW scope \in Scopes, collectSync(scope) PROVE ScopeConsistent'
    BY <2>6 DEF collectSync, StartOp
  <2>7. ASSUME NEW scope \in Scopes, NEW b \in BOOLEAN, collectAsync(scope, b) PROVE ScopeConsistent'
    BY <2>7 DEF collectAsync, StartOp
  <2> HIDE DEF ScopeConsistent
  <2> QED  BY <1>3, <2>1, <2>2, <2>3, <2>4, <2>5, <2>6, <2>7 DEF MutatorCalls
<1>4. CASE MutatorStep
  <2>1. CASE handleNeedFinalize  BY <2>1, Zenon DEF handleNeedFinalize
  <2>2. CASE finalize  BY <2>2, Zenon DEF finalize, unparkAll
  <2>3. CASE NothingToFinalize  BY <2>3 DEF NothingToFinalize
  <2>4. CASE stopIfNecessarySlow  BY <2>4 DEF stopIfNecessarySlow
  <2>5. CASE MutatorFinished  BY <2>5 DEF MutatorFinished
  <2>6. CASE releaseAccessSlow  BY <2>6 DEF releaseAccessSlow
  <2>7. CASE acquireAccessSlow  BY <2>7 DEF acquireAccessSlow
  <2>8. CASE finishRelinquishingConn  BY <2>8 DEF finishRelinquishingConn, notifyOne, unparkAll
  <2>9. CASE relinquishConn  BY <2>9 DEF relinquishConn
  <2>10. CASE requestCollection
    <3>1. opScope \in Scopes
      BY <2>10, Zenon DEF requestCollection
    <3>2. requests # <<>> => Head(requests') = Head(requests)
      BY <2>10, <3>1, AppendFacts, SMTT(30) DEF requestCollection
    <3>3. collectionScope # "none" => requests # <<>>
      BY ScopeHasRequest, Zenon
    <3> QED  BY <2>10, <3>2, <3>3 DEF requestCollection, notifyOne
  <2>11. CASE WaitCheck  BY <2>11 DEF WaitCheck, CollectorDone
  <2>12. CASE WaitStop  BY <2>12 DEF WaitStop
  <2>13. CASE WaitPark  BY <2>13 DEF WaitPark
  <2>14. CASE StopThread  BY <2>14 DEF StopThread, notifyOne
  <2>15. CASE join  BY <2>15, Zenon DEF join
  <2>16. CASE mayNeedToStop("requestStop", "request")  BY <2>16 DEF mayNeedToStop
  <2>17. CASE mayNeedToStop("acquireStop", "run")  BY <2>17 DEF mayNeedToStop
  <2> HIDE DEF ScopeConsistent
  <2> QED  BY <1>1, <1>4, <2>1, <2>2, <2>3, <2>4, <2>5, <2>6, <2>7, <2>8, <2>9, <2>10, <2>11,
           <2>12, <2>13, <2>14, <2>15, <2>16, <2>17, Zenon DEF MutatorStep, Conductors
<1>5. CASE UNCHANGED vars  BY <1>5 DEF vars
<1> HIDE DEF ScopeConsistent
<1> QED  BY <1>1, <1>2, <1>3, <1>4, <1>5, Zenon DEF Next, Terminated

\* Tickets keep counting the requests
LEMMA RequestsStep == IInv /\ [Next]_vars => RequestsConsistent'
<1> SUFFICES ASSUME IInv, [Next]_vars PROVE RequestsConsistent'
  BY Zenon
<1> USE DEF IInv, TypeOK, TypePC, At, Goto, Conductors, heap, tickets, flags, call, locals,
        TypeData, RequestsConsistent, ConductorHasConn, MutatorConducts, CollectorConducts,
        CollectorOnly, MutatorOnly, Conducting, Ending, PhasesConsistent, PhaseAt, Label
<1>1. ASSUME NEW c \in Conductors, Conduct(c) PROVE RequestsConsistent'
  <2>1. CASE runCurrentPhase(c)  BY <2>1, Zenon DEF runCurrentPhase
  <2>2. CASE finishChangingPhase(c)  BY <2>2, Zenon DEF finishChangingPhase, Return
  <2>3. CASE stopThePeriphery(c)  BY <2>3, Zenon DEF stopThePeriphery
  <2>4. CASE CommitPhase(c)  BY <2>4, Zenon DEF CommitPhase, Return
  <2>5. CASE UnparkWaiters(c)  BY <2>5 DEF UnparkWaiters, unparkAll, Return
  <2>6. CASE runNotRunningPhase(c)
    BY <2>6, Zenon DEF runNotRunningPhase, InPhase, PhaseReturns, changePhase
  <2>7. CASE runBeginPhase(c)  BY <2>7, Zenon DEF runBeginPhase, InPhase, changePhase
  <2>8. CASE runFixpointPhase(c)  BY <2>8, Zenon DEF runFixpointPhase, InPhase, changePhase, PhaseReturns
  <2>9. CASE runConcurrentPhase(c)
    BY <2>9, Zenon DEF runConcurrentPhase, InPhase, changePhase, PhaseReturns
  <2>10. CASE runReloopPhase(c)  BY <2>10, Zenon DEF runReloopPhase, InPhase, changePhase
  <2>11. CASE runEndPhase(c)  BY <2>11, Zenon DEF runEndPhase, InPhase
  <2>12. CASE ServeTicket(c)
    <3>1. requests # <<>> /\ lastServedTicket < lastGrantedTicket
      BY <2>12, ServeHasRequest, Zenon DEF ServeTicket
    <3>2. Len(requests') = Len(requests) - 1
      BY <2>12, <3>1 DEF ServeTicket
    <3> QED  BY <2>12, <3>1, <3>2, SMTT(30) DEF ServeTicket
  <2>13. CASE setNeedFinalize(c)  BY <2>13, Zenon DEF setNeedFinalize
  <2>14. CASE EndCollection(c)  BY <2>14, Zenon DEF EndCollection, changePhase
  <2> HIDE DEF RequestsConsistent
  <2> QED  BY <1>1, <2>1, <2>2, <2>3, <2>4, <2>5, <2>6, <2>7, <2>8, <2>9, <2>10, <2>11, <2>12,
           <2>13, <2>14, Zenon DEF Conduct
<1>2. CASE CollectorStep \/ stopForTimeout
  <2>1. CASE resumeTheMutator  BY <2>1, Zenon DEF resumeTheMutator
  <2>2. CASE waitWhileNeedFinalize  BY <2>2, Zenon DEF waitWhileNeedFinalize
  <2>3. CASE stopTheMutator  BY <2>3, Zenon DEF stopTheMutator, Return
  <2>4. CASE poll  BY <2>4, Zenon DEF poll, unparkAll
  <2>5. CASE CollectorFinished  BY <2>5, Zenon DEF CollectorFinished
  <2>6. CASE stopForTimeout  BY <2>6, Zenon DEF stopForTimeout
  <2> HIDE DEF RequestsConsistent
  <2> QED  BY <1>1, <1>2, <2>1, <2>2, <2>3, <2>4, <2>5, <2>6, Zenon DEF CollectorStep, Conductors
<1>3. CASE MutatorCalls
  <2>1. CASE stopIfNecessary  BY <2>1, Zenon DEF stopIfNecessary, mayNeedToStop
  <2>2. CASE releaseAccess  BY <2>2, Zenon DEF releaseAccess
  <2>3. CASE acquireAccess  BY <2>3, Zenon DEF acquireAccess
  <2>4. CASE preventCollection  BY <2>4, Zenon DEF preventCollection, StartOp
  <2>5. CASE lastChanceToFinalize  BY <2>5, Zenon DEF lastChanceToFinalize, StartOp
  <2>6. ASSUME NEW scope \in Scopes, collectSync(scope) PROVE RequestsConsistent'
    BY <2>6, Zenon DEF collectSync, StartOp
  <2>7. ASSUME NEW scope \in Scopes, NEW b \in BOOLEAN, collectAsync(scope, b) PROVE RequestsConsistent'
    BY <2>7, Zenon DEF collectAsync, StartOp
  <2> HIDE DEF RequestsConsistent
  <2> QED  BY <1>3, <2>1, <2>2, <2>3, <2>4, <2>5, <2>6, <2>7, Zenon DEF MutatorCalls
<1>4. CASE MutatorStep
  <2>1. CASE handleNeedFinalize  BY <2>1 DEF handleNeedFinalize, Finalizing
  <2>2. CASE finalize  BY <2>2, Zenon DEF finalize, unparkAll
  <2>3. CASE NothingToFinalize  BY <2>3, Zenon DEF NothingToFinalize
  <2>4. CASE stopIfNecessarySlow  BY <2>4, Zenon DEF stopIfNecessarySlow
  <2>5. CASE MutatorFinished  BY <2>5, Zenon DEF MutatorFinished
  <2>6. CASE releaseAccessSlow  BY <2>6, Zenon DEF releaseAccessSlow
  <2>7. CASE acquireAccessSlow  BY <2>7, Zenon DEF acquireAccessSlow
  <2>8. CASE finishRelinquishingConn  BY <2>8, Zenon DEF finishRelinquishingConn, notifyOne, unparkAll
  <2>9. CASE relinquishConn  BY <2>9, Zenon DEF relinquishConn
  <2>10. CASE requestCollection
    <3>1. opScope \in Scopes
      BY <2>10, Zenon DEF requestCollection, LocalsConsistent
    <3>2. requests' # <<>> /\ Len(requests') = Len(requests) + 1
      BY <2>10, <3>1, AppendFacts, Zenon DEF requestCollection
    <3> QED  BY <2>10, <3>2 DEF requestCollection
  <2>11. CASE WaitCheck  BY <2>11, Zenon DEF WaitCheck, CollectorDone
  <2>12. CASE WaitStop  BY <2>12, Zenon DEF WaitStop
  <2>13. CASE WaitPark  BY <2>13, Zenon DEF WaitPark
  <2>14. CASE StopThread  BY <2>14, Zenon DEF StopThread, notifyOne
  <2>15. CASE join  BY <2>15, Zenon DEF join
  <2>16. CASE mayNeedToStop("requestStop", "request")  BY <2>16, Zenon DEF mayNeedToStop
  <2>17. CASE mayNeedToStop("acquireStop", "run")  BY <2>17, Zenon DEF mayNeedToStop
  <2> HIDE DEF RequestsConsistent
  <2> QED  BY <1>1, <1>4, <2>1, <2>2, <2>3, <2>4, <2>5, <2>6, <2>7, <2>8, <2>9, <2>10, <2>11,
           <2>12, <2>13, <2>14, <2>15, <2>16, <2>17, Zenon DEF MutatorStep, Conductors
<1>5. CASE UNCHANGED vars  BY <1>5, Zenon DEF vars
<1> HIDE DEF RequestsConsistent
<1> QED  BY <1>1, <1>2, <1>3, <1>4, <1>5, Zenon DEF Next, Terminated


\* What waitForCollector found stays true while it returns
LEMMA WaitStep == IInv /\ [Next]_vars => WaitConsistent'
<1> SUFFICES ASSUME IInv, [Next]_vars PROVE WaitConsistent'
  BY Zenon
<1> USE DEF IInv, TypeOK, TypePC, At, Goto, Conductors, heap, tickets, flags, call, locals,
        TypeData, WaitConsistent, Waiting, CollectorDone, CollectorOnly, MutatorOnly,
        Conducting, LocalsConsistent, Finalizing, Label, RequestsConsistent
<1>1. ASSUME NEW c \in Conductors, Conduct(c) PROVE WaitConsistent'
  <2>1. CASE runCurrentPhase(c)  BY <2>1 DEF runCurrentPhase
  <2>2. CASE finishChangingPhase(c)  BY <2>2 DEF finishChangingPhase, Return
  <2>3. CASE stopThePeriphery(c)  BY <2>3 DEF stopThePeriphery
  <2>4. CASE CommitPhase(c)  BY <2>4 DEF CommitPhase, Return
  <2>5. CASE UnparkWaiters(c)  BY <2>5 DEF UnparkWaiters, unparkAll, Return
  <2>6. CASE runNotRunningPhase(c)
    BY <2>6 DEF runNotRunningPhase, InPhase, PhaseReturns, changePhase
  <2>7. CASE runBeginPhase(c)  BY <2>7 DEF runBeginPhase, InPhase, changePhase
  <2>8. CASE runFixpointPhase(c)  BY <2>8 DEF runFixpointPhase, InPhase, changePhase, PhaseReturns
  <2>9. CASE runConcurrentPhase(c)
    BY <2>9 DEF runConcurrentPhase, InPhase, changePhase, PhaseReturns
  <2>10. CASE runReloopPhase(c)  BY <2>10 DEF runReloopPhase, InPhase, changePhase
  <2>11. CASE runEndPhase(c)  BY <2>11 DEF runEndPhase, InPhase
  <2>12. CASE ServeTicket(c)
    <3>1. lastServedTicket < lastGrantedTicket
      BY <2>12, ServeHasRequest, Zenon DEF ServeTicket
    <3> QED  BY <2>12, <3>1 DEF ServeTicket
  <2>13. CASE setNeedFinalize(c)  BY <2>13 DEF setNeedFinalize
  <2>14. CASE EndCollection(c)  BY <2>14 DEF EndCollection, changePhase
  <2> HIDE DEF WaitConsistent
  <2> QED  BY <1>1, <2>1, <2>2, <2>3, <2>4, <2>5, <2>6, <2>7, <2>8, <2>9, <2>10, <2>11, <2>12,
           <2>13, <2>14, Zenon DEF Conduct
<1>2. CASE CollectorStep \/ stopForTimeout
  <2>1. CASE resumeTheMutator  BY <2>1 DEF resumeTheMutator
  <2>2. CASE waitWhileNeedFinalize  BY <2>2 DEF waitWhileNeedFinalize
  <2>3. CASE stopTheMutator  BY <2>3 DEF stopTheMutator, Return
  <2>4. CASE poll  BY <2>4 DEF poll, unparkAll
  <2>5. CASE CollectorFinished  BY <2>5 DEF CollectorFinished
  <2>6. CASE stopForTimeout  BY <2>6 DEF stopForTimeout
  <2> HIDE DEF WaitConsistent
  <2> QED  BY <1>1, <1>2, <2>1, <2>2, <2>3, <2>4, <2>5, <2>6, Zenon DEF CollectorStep, Conductors
<1>3. CASE MutatorCalls
  <2>1. CASE stopIfNecessary  BY <2>1, Zenon DEF stopIfNecessary, mayNeedToStop
  <2>2. CASE releaseAccess  BY <2>2 DEF releaseAccess
  <2>3. CASE acquireAccess  BY <2>3 DEF acquireAccess
  <2>4. CASE preventCollection  BY <2>4, Zenon DEF preventCollection, StartOp
  <2>5. CASE lastChanceToFinalize  BY <2>5 DEF lastChanceToFinalize, StartOp
  <2>6. ASSUME NEW scope \in Scopes, collectSync(scope) PROVE WaitConsistent'
    BY <2>6, Zenon DEF collectSync, StartOp
  <2>7. ASSUME NEW scope \in Scopes, NEW b \in BOOLEAN, collectAsync(scope, b) PROVE WaitConsistent'
    BY <2>7, Zenon DEF collectAsync, StartOp
  <2> HIDE DEF WaitConsistent
  <2> QED  BY <1>3, <2>1, <2>2, <2>3, <2>4, <2>5, <2>6, <2>7, Zenon DEF MutatorCalls
<1>4. CASE MutatorStep
  <2>1. CASE handleNeedFinalize  BY <2>1 DEF handleNeedFinalize
  <2>2. CASE finalize  BY <2>2 DEF finalize, unparkAll
  <2>3. CASE NothingToFinalize  BY <2>3 DEF NothingToFinalize
  <2>4. CASE stopIfNecessarySlow  BY <2>4, Zenon DEF stopIfNecessarySlow
  <2>5. CASE MutatorFinished  BY <2>5, Zenon DEF MutatorFinished
  <2>6. CASE releaseAccessSlow  BY <2>6, Zenon DEF releaseAccessSlow
  <2>7. CASE acquireAccessSlow  BY <2>7 DEF acquireAccessSlow
  <2>8. CASE finishRelinquishingConn  BY <2>8 DEF finishRelinquishingConn, notifyOne, unparkAll
  <2>9. CASE relinquishConn  BY <2>9, Zenon DEF relinquishConn
  <2>10. CASE requestCollection  BY <2>10 DEF requestCollection, notifyOne
  <2>11. CASE WaitCheck  BY <2>11, Zenon DEF WaitCheck, CollectorDone
  <2>12. CASE WaitStop  BY <2>12, Zenon DEF WaitStop
  <2>13. CASE WaitPark  BY <2>13, Zenon DEF WaitPark
  <2>14. CASE StopThread  BY <2>14 DEF StopThread, notifyOne
  <2>15. CASE join  BY <2>15, Zenon DEF join
  <2>16. CASE mayNeedToStop("requestStop", "request")  BY <2>16, Zenon DEF mayNeedToStop
  <2>17. CASE mayNeedToStop("acquireStop", "run")  BY <2>17, Zenon DEF mayNeedToStop
  <2> HIDE DEF WaitConsistent
  <2> QED  BY <1>1, <1>4, <2>1, <2>2, <2>3, <2>4, <2>5, <2>6, <2>7, <2>8, <2>9, <2>10, <2>11,
           <2>12, <2>13, <2>14, <2>15, <2>16, <2>17, Zenon DEF MutatorStep, Conductors
<1>5. CASE UNCHANGED vars  BY <1>5 DEF vars
<1> HIDE DEF WaitConsistent
<1> QED  BY <1>1, <1>2, <1>3, <1>4, <1>5, Zenon DEF Next, Terminated

\* The locals keep agreeing with the control
LEMMA LocalsStep == IInv /\ [Next]_vars => LocalsConsistent'
<1> SUFFICES ASSUME IInv, [Next]_vars PROVE LocalsConsistent'
  BY Zenon
<1> USE MaxTicketsAssumption, ScopesAssumption DEF IInv, TypeOK, TypePC, At, Goto,
        Conductors, heap, tickets, flags, call, locals, TypeData, LocalsConsistent, Label,
        Finalizing, CollectorOnly, MutatorOnly, Conducting
<1>1. ASSUME NEW c \in Conductors, Conduct(c) PROVE LocalsConsistent'
  <2>1. CASE runCurrentPhase(c)  BY <2>1 DEF runCurrentPhase
  <2>2. CASE finishChangingPhase(c)  BY <2>2 DEF finishChangingPhase, Return
  <2>3. CASE stopThePeriphery(c)  BY <2>3 DEF stopThePeriphery
  <2>4. CASE CommitPhase(c)  BY <2>4 DEF CommitPhase, Return
  <2>5. CASE UnparkWaiters(c)  BY <2>5 DEF UnparkWaiters, unparkAll, Return
  <2>6. CASE runNotRunningPhase(c)
    BY <2>6 DEF runNotRunningPhase, InPhase, PhaseReturns, changePhase
  <2>7. CASE runBeginPhase(c)  BY <2>7 DEF runBeginPhase, InPhase, changePhase
  <2>8. CASE runFixpointPhase(c)  BY <2>8 DEF runFixpointPhase, InPhase, changePhase, PhaseReturns
  <2>9. CASE runConcurrentPhase(c)
    BY <2>9 DEF runConcurrentPhase, InPhase, changePhase, PhaseReturns
  <2>10. CASE runReloopPhase(c)  BY <2>10 DEF runReloopPhase, InPhase, changePhase
  <2>11. CASE runEndPhase(c)  BY <2>11 DEF runEndPhase, InPhase
  <2>12. CASE ServeTicket(c)  BY <2>12 DEF ServeTicket
  <2>13. CASE setNeedFinalize(c)  BY <2>13 DEF setNeedFinalize
  <2>14. CASE EndCollection(c)  BY <2>14 DEF EndCollection, changePhase
  <2> HIDE DEF LocalsConsistent
  <2> QED  BY <1>1, <2>1, <2>2, <2>3, <2>4, <2>5, <2>6, <2>7, <2>8, <2>9, <2>10, <2>11, <2>12,
           <2>13, <2>14, Zenon DEF Conduct
<1>2. CASE CollectorStep \/ stopForTimeout
  <2>1. CASE resumeTheMutator  BY <2>1 DEF resumeTheMutator
  <2>2. CASE waitWhileNeedFinalize  BY <2>2 DEF waitWhileNeedFinalize
  <2>3. CASE stopTheMutator  BY <2>3 DEF stopTheMutator, Return
  <2>4. CASE poll  BY <2>4 DEF poll, unparkAll
  <2>5. CASE CollectorFinished  BY <2>5 DEF CollectorFinished
  <2>6. CASE stopForTimeout  BY <2>6 DEF stopForTimeout
  <2> HIDE DEF LocalsConsistent
  <2> QED  BY <1>1, <1>2, <2>1, <2>2, <2>3, <2>4, <2>5, <2>6, Zenon DEF CollectorStep, Conductors
<1>3. CASE MutatorCalls
  <2>1. CASE stopIfNecessary  BY <2>1, Zenon DEF stopIfNecessary, mayNeedToStop
  <2>2. CASE releaseAccess  BY <2>2, Zenon DEF releaseAccess
  <2>3. CASE acquireAccess  BY <2>3, Zenon DEF acquireAccess
  <2>4. CASE preventCollection  BY <2>4, Zenon DEF preventCollection, StartOp
  <2>5. CASE lastChanceToFinalize  BY <2>5, Zenon DEF lastChanceToFinalize, StartOp
  <2>6. ASSUME NEW scope \in Scopes, collectSync(scope) PROVE LocalsConsistent'
    BY <2>6, Zenon DEF collectSync, StartOp
  <2>7. ASSUME NEW scope \in Scopes, NEW b \in BOOLEAN, collectAsync(scope, b) PROVE LocalsConsistent'
    BY <2>7, Zenon DEF collectAsync, StartOp
  <2> HIDE DEF LocalsConsistent
  <2> QED  BY <1>3, <2>1, <2>2, <2>3, <2>4, <2>5, <2>6, <2>7, Zenon DEF MutatorCalls
<1>4. CASE MutatorStep
  <2>1. CASE handleNeedFinalize  BY <2>1 DEF handleNeedFinalize
  <2>2. CASE finalize  BY <2>2, Zenon DEF finalize, unparkAll
  <2>3. CASE NothingToFinalize  BY <2>3 DEF NothingToFinalize
  <2>4. CASE stopIfNecessarySlow  BY <2>4, Zenon DEF stopIfNecessarySlow
  <2>5. CASE MutatorFinished  BY <2>5, Zenon DEF MutatorFinished
  <2>6. CASE releaseAccessSlow  BY <2>6, Zenon DEF releaseAccessSlow
  <2>7. CASE acquireAccessSlow  BY <2>7, Zenon DEF acquireAccessSlow
  <2>8. CASE finishRelinquishingConn  BY <2>8, Zenon DEF finishRelinquishingConn, notifyOne, unparkAll
  <2>9. CASE relinquishConn  BY <2>9, Zenon DEF relinquishConn
  <2>10. CASE requestCollection  BY <2>10, Zenon DEF requestCollection, notifyOne
  <2>11. CASE WaitCheck  BY <2>11, Zenon DEF WaitCheck, CollectorDone
  <2>12. CASE WaitStop  BY <2>12, Zenon DEF WaitStop
  <2>13. CASE WaitPark  BY <2>13 DEF WaitPark
  <2>14. CASE StopThread  BY <2>14, Zenon DEF StopThread, notifyOne
  <2>15. CASE join  BY <2>15, Zenon DEF join
  <2>16. CASE mayNeedToStop("requestStop", "request")  BY <2>16, Zenon DEF mayNeedToStop
  <2>17. CASE mayNeedToStop("acquireStop", "run")  BY <2>17, Zenon DEF mayNeedToStop
  <2> HIDE DEF LocalsConsistent
  <2> QED  BY <1>1, <1>4, <2>1, <2>2, <2>3, <2>4, <2>5, <2>6, <2>7, <2>8, <2>9, <2>10, <2>11,
           <2>12, <2>13, <2>14, <2>15, <2>16, <2>17, Zenon DEF MutatorStep, Conductors
<1>5. CASE UNCHANGED vars  BY <1>5, Zenon DEF vars
<1> HIDE DEF LocalsConsistent
<1> QED  BY <1>1, <1>2, <1>3, <1>4, <1>5, Zenon DEF Next, Terminated

\* The invariant is inductive
LEMMA Inductive == Spec => []IInv
<1>1. Init => IInv
  <2> SUFFICES ASSUME Init PROVE IInv
    BY Zenon
  <2> USE MaxTicketsAssumption DEF Init
  <2>1. TypePC
    BY Zenon DEF TypePC, Conductors, MutatorPC, CollectorPC, Conducting, MutatorOnly, CollectorOnly
  <2>2. TypeData
    <3>1. requests \in Seq(Scopes) /\ worldState \in SUBSET Bits
      BY DEF Bits
    <3>2. 0 \in 0 .. MaxTickets
      OBVIOUS
    <3> QED  BY <3>1, <3>2, Zenon DEF TypeData, Phases
  <2>3. pc["Mutator"] = "run" /\ pc["Collector"] = "absent"
    BY Zenon DEF Conductors
  <2> HIDE DEF Init
  <2>4. BitsConsistent /\ LocalsConsistent /\ ConductorHasConn
    BY <2>3, Zenon DEF Init, BitsConsistent, LocalsConsistent, ConductorHasConn, Outside, Label,
       MutatorConducts, CollectorConducts, Conducting, MutatorOnly, CollectorOnly
  <2>5. PhasesConsistent
    BY <2>3, Zenon DEF Init, PhasesConsistent, MutatorConducts, CollectorConducts, Conducting,
       MutatorOnly, CollectorOnly, worldShouldBeSuspended
  <2>6. RequestsConsistent /\ ScopeConsistent
    BY <2>3 DEF Init, RequestsConsistent, ScopeConsistent
  <2>7. WaitConsistent
    BY <2>3, Zenon DEF Init, WaitConsistent, Waiting, Label, Conducting, MutatorOnly, CollectorOnly
  <2> QED
    BY <2>1, <2>2, <2>4, <2>5, <2>6, <2>7, Zenon DEF IInv, TypeOK
<1>2. IInv /\ [Next]_vars => IInv'
  BY TypePCStep, TypeDataStep, BitsStep, LocalsStep, ConnStep, PhasesStep, RequestsStep,
     ScopeStep, WaitStep, Zenon DEF IInv, TypeOK
<1> QED
  BY <1>1, <1>2, PTL DEF Spec

\* The state of the heap keeps its type, whatever the number of requests.
THEOREM HeapTypeCorrect == Spec => []TypeOK
<1>1. IInv => TypeOK
  BY Zenon DEF IInv
<1> QED
  BY <1>1, Inductive, PTL

\* Whoever runs a phase of a collection has the conn (checkConn), throughout.
THEOREM ConnIsExclusive == Spec => []ConductorHasConn
<1>1. IInv => ConductorHasConn
  BY Zenon DEF IInv
<1> QED
  BY <1>1, Inductive, PTL

\* While stopThePeriphery is in force the mutator conducts or is kept out by
\* stoppedBit.
THEOREM WorldStops == Spec => []StoppedWorld
<1>1. IInv => StoppedWorld
  BY Zenon DEF IInv, StoppedWorld, BitsConsistent, PhasesConsistent, Outside
<1> QED
  BY <1>1, Inductive, PTL

\* finalize() runs with access, in a running world, and between collections.
THEOREM FinalizationIsApart == Spec => []FinalizeBetweenCollections
<1>1. ASSUME IInv, pc["Mutator"] = "finalize"
      PROVE  "hasAccess" \in worldState /\ collectionScope = "none"
  BY <1>1, Zenon DEF IInv, BitsConsistent, ScopeConsistent, Outside
<1>2. ASSUME IInv, pc["Mutator"] = "finalize"
      PROVE  ~worldIsStopped
  BY <1>1, <1>2, Zenon DEF IInv, BitsConsistent, PhasesConsistent, PhaseAt, Label, MutatorConducts,
     Leaving, Entering, Conducting, CollectorOnly, MutatorOnly
<1>3. IInv => FinalizeBetweenCollections
  BY <1>1, <1>2, Zenon DEF FinalizeBetweenCollections
<1> QED
  BY <1>3, Inductive, PTL

\* Tickets count requests, and a collection is of the scope asked for.
THEOREM TicketsAreRequests == Spec => []TicketsMatchRequests
<1>1. IInv => TicketsMatchRequests
  BY ScopeHasRequest, Zenon DEF IInv, TicketsMatchRequests, RequestsConsistent, ScopeConsistent
<1> QED
  BY <1>1, Inductive, PTL

\* No RELEASE_ASSERT of the conductor protocol fires.
THEOREM AssertsHold == Spec => []ReleaseAsserts
<1>1. IInv => ReleaseAsserts
  <2> SUFFICES ASSUME IInv PROVE ReleaseAsserts
    BY Zenon
  <2> USE DEF IInv
  <2>1. pc["Mutator"] \in Finalizing \cup {"relinquish"} =>
          {"hasAccess"} \subseteq worldState /\ worldState \cap {"stopped"} = {}
    BY Zenon DEF BitsConsistent, Outside, Finalizing
  <2>2. pc["Mutator"] \in {"acquire"} => worldState \cap {"hasAccess"} = {}
    BY Zenon DEF BitsConsistent, Outside
  <2>3. pc["Collector"] = "resume" =>
          /\ ({"hasAccess"} \subseteq worldState) # ({"stopped"} \subseteq worldState)
          /\ worldState \cap {"mutatorHasConn"} = {}
    BY Zenon DEF BitsConsistent, CollectorConducts, Conducting, CollectorOnly
  <2>4. "mutatorWaiting" \in worldState => "hasAccess" \in worldState
    BY Zenon DEF BitsConsistent, WaitConsistent, Waiting, Label, Outside, Conducting, CollectorOnly,
       MutatorOnly, LocalsConsistent
  <2>5. pc["Collector"] = "stopMutator" => "mutatorHasConn" \notin worldState
    BY Zenon DEF ConductorHasConn, CollectorConducts, Conducting, CollectorOnly
  <2>6. pc["Collector"] = "stopMutator" =>
          /\ {"stopped"} \subseteq worldState =>
                worldState \cap {"hasAccess", "mutatorWaiting", "mutatorHasConn"} = {}
          /\ {"mutatorHasConn"} \subseteq worldState => worldState \cap {"hasAccess"} = {}
          /\ worldState \cap {"hasAccess"} = {} => worldState \cap {"mutatorWaiting"} = {}
    BY <2>4, <2>5, Zenon DEF BitsConsistent
  <2>7. ASSUME NEW c \in Conductors
        PROVE  /\ pc[c] = "stopPeriphery" => ~worldIsStopped
               /\ pc[c] = "change" /\ worldShouldBeSuspended(currentPhase) => worldIsStopped
               /\ pc[c] = "dispatch" /\ currentPhase = "Begin" => collectionScope = "none"
    BY Zenon DEF PhasesConsistent, PhaseAt, Label, Entering, MutatorConducts, CollectorConducts,
       Conducting, Conductors, ScopeConsistent
  <2>8. ASSUME NEW c \in Conductors, pc[c] = "dispatch", currentPhase = "Begin"
        PROVE  requests # <<>>
    BY <2>8, Zenon DEF RequestsConsistent, PhasesConsistent, PhaseAt, Label, Ending, Conductors,
       ConductorHasConn, MutatorConducts, CollectorConducts, Conducting, CollectorOnly, MutatorOnly
  <2>9. pc["Mutator"] \in {"stopThread"} => requests = <<>>
    BY DEF WaitConsistent, RequestsConsistent, TypeOK, TypeData
  <2>10. pc["Mutator"] \in {"request", "relinquishNotify", "releaseNotify"} =>
           pc["Collector"] # "stopped"
    BY Zenon DEF WaitConsistent
  <2> QED
    BY <2>1, <2>2, <2>3, <2>6, <2>7, <2>8, <2>9, <2>10, Zenon DEF ReleaseAsserts
<1> QED
  BY <1>1, Inductive, PTL

\* collectSync and preventCollection return only when what they wait for is true.
THEOREM WaitsReturnInTime == Spec => WaitsAreHonest
<1> DEFINE Honest ==
      /\ op = "sync" /\ op' = "none" => lastServedTicket >= ticket
      /\ op = "prevent" /\ op' = "none" =>
            requests = <<>> /\ collectionScope = "none" /\ ~worldIsStopped
<1>1. ASSUME IInv, WaitPark, op' # op
      PROVE  CollectorDone /\ pc["Mutator"] = "waitEnd"
  BY <1>1, Zenon DEF IInv, WaitConsistent, Waiting, WaitPark, At
<1>2. ASSUME IInv, WaitPark, op = "prevent", op' = "none"
      PROVE  requests = <<>> /\ collectionScope = "none" /\ ~worldIsStopped
  <2>1. requests = <<>>
    BY <1>1, <1>2 DEF IInv, CollectorDone, RequestsConsistent, TypeOK, TypeData
  <2>2. collectionScope = "none"
    BY <1>2, <2>1, ScopeHasRequest, Zenon
  <2>3. ~worldIsStopped
    BY <1>1, <1>2, Zenon DEF IInv, PhasesConsistent, BitsConsistent, MutatorConducts, Outside,
       Conducting, CollectorOnly, MutatorOnly
  <2> QED  BY <2>1, <2>2, <2>3, Zenon
<1>3. ASSUME IInv, WaitPark PROVE Honest
  BY <1>1, <1>2, <1>3, Zenon DEF CollectorDone
<1>4. ASSUME IInv, requestCollection PROVE Honest
  BY <1>4, Zenon DEF IInv, LocalsConsistent, requestCollection, At
<1>5. ASSUME [Next]_vars, ~WaitPark, ~requestCollection PROVE op' = op \/ op' # "none"
  BY <1>5, Zenon DEF Next, CollectorStep, MutatorCalls, MutatorStep, Conduct, Terminated, vars, call,
     runCurrentPhase, finishChangingPhase, stopThePeriphery, CommitPhase, UnparkWaiters,
     runNotRunningPhase, runBeginPhase, runFixpointPhase, runConcurrentPhase, runReloopPhase,
     runEndPhase, ServeTicket, setNeedFinalize, EndCollection, changePhase, PhaseReturns,
     resumeTheMutator, waitWhileNeedFinalize, stopTheMutator, poll, CollectorFinished,
     stopForTimeout, stopIfNecessary, mayNeedToStop, releaseAccess, acquireAccess,
     preventCollection, lastChanceToFinalize, collectSync, collectAsync, StartOp,
     handleNeedFinalize, finalize, NothingToFinalize, stopIfNecessarySlow, MutatorFinished,
     releaseAccessSlow, acquireAccessSlow, finishRelinquishingConn, relinquishConn, WaitCheck,
     WaitStop, StopThread, join
<1>6. IInv /\ [Next]_vars => [Honest]_vars
  BY <1>3, <1>4, <1>5, Zenon
<1> QED
  BY <1>6, Inductive, PTL DEF Spec, WaitsAreHonest

==============================================================================

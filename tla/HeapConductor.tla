---------------------------- MODULE HeapConductor ----------------------------
(***************************************************************************)
(* How the mutator and the collector thread of JSC::Heap share one garbage *)
(* collection (heap/Heap.cpp): they trade the conn, the right to run the   *)
(* phases of the collection, through the bits of m_worldState; they stop   *)
(* and resume the world; they park on m_worldState; they count tickets of  *)
(* requested and served collections; and they shut the heap down.          *)
(*                                                                         *)
(* A step is one successful access to m_worldState, one critical section   *)
(* of m_threadLock, or one unparkAll.  A loop around a weak compare-and-   *)
(* exchange is one step that loads and exchanges: its failed rounds change *)
(* nothing, except where the code does something else on failure, which is *)
(* then a step of its own.  The conductor-private variables m_currentPhase *)
(* and m_nextPhase are read and written by the steps that use them.        *)
(*                                                                         *)
(* What marking finds is abstracted to its outcome, chosen freely in       *)
(* runFixpointPhase and runConcurrentPhase.                                *)
(***************************************************************************)
EXTENDS Naturals, Sequences

CONSTANTS Scopes,      \* requested scopes: "Eden", "Full", "Any" (no scope)
          MaxTickets   \* bound on the number of collections requested

ASSUME ScopesAssumption == Scopes \subseteq {"Eden", "Full", "Any"}
ASSUME MaxTicketsAssumption == MaxTickets \in Nat

VARIABLES worldState,      \* m_worldState: the set of its bits that are set
          currentPhase, nextPhase, worldIsStopped, collectionScope,
          requests, lastServedTicket, lastGrantedTicket,
          collectorThreadIsRunning, threadShouldStop, isSafeToCollect,
          parked,          \* who is parked on &m_worldState
          pc, after,       \* where each thread is; what finishChangingPhase returns to
          op, opScope,     \* the heap operation the mutator is in, and its scope
          ret, back,       \* where collectInMutatorThread and finalize return to
          ticket, done, oldState  \* locals of waitForCollector

heap == <<currentPhase, nextPhase, worldIsStopped, collectionScope>>
tickets == <<requests, lastServedTicket, lastGrantedTicket>>
flags == <<collectorThreadIsRunning, threadShouldStop, isSafeToCollect>>
call == <<op, opScope>>
locals == <<ret, back, ticket, done, oldState>>
vars == <<worldState, heap, tickets, flags, parked, pc, after, call, locals>>

Conductors == {"Mutator", "Collector"}

Bits == {"mutatorHasConn", "stopped", "hasAccess", "needFinalize", "mutatorWaiting"}

Phases == {"NotRunning", "Begin", "Fixpoint", "Concurrent", "Reloop", "End"}

worldShouldBeSuspended(phase) == phase \notin {"NotRunning", "Concurrent"}

\* The steps of runCurrentPhase and of the functions below it
CollectorOnly == {"resume", "resumeUnpark", "waitFinalize", "stopMutator", "handoffUnpark"}
MutatorOnly == {"leaveFinalize", "enterFinalize"}
Conducting == CollectorOnly \cup MutatorOnly \cup
    {"check", "change", "dispatch", "stopPeriphery", "commit", "endServe", "endUnpark",
     "endNeedFinalize", "endFinalizeUnpark", "endChange", "finished"}

MutatorPC == (Conducting \ CollectorOnly) \cup
    {"run", "out", "release", "releaseNotify", "acquire", "acquireFinalize",
     "acquireStop", "stop", "stopFinalize", "finalize", "requestStop", "request",
     "waitLock", "waitLoad", "relinquish", "relinquishNotify", "waitEnd",
     "stopThread", "join", "dead"}

\* absent: the AutomaticThread has no underlying thread; stopped: it never will
CollectorPC == (Conducting \ MutatorOnly) \cup {"absent", "poll", "wait", "stopped"}

TypePC ==
    /\ pc \in [Conductors -> MutatorPC \cup CollectorPC]
    /\ pc["Mutator"] \in MutatorPC /\ pc["Collector"] \in CollectorPC
    /\ after \in [Conductors -> {"dispatch", "check"}]
    /\ ret \in {"none", "stopFinalize", "relinquish"}
    /\ back \in MutatorPC

TypeData ==
    /\ worldState \in SUBSET Bits
    /\ currentPhase \in Phases /\ nextPhase \in Phases
    /\ worldIsStopped \in BOOLEAN
    /\ collectionScope \in {"none", "Eden", "Full"}
    /\ requests \in Seq(Scopes)
    /\ lastServedTicket \in 0 .. MaxTickets /\ lastGrantedTicket \in 0 .. MaxTickets
    /\ collectorThreadIsRunning \in BOOLEAN
    /\ threadShouldStop \in BOOLEAN /\ isSafeToCollect \in BOOLEAN
    /\ parked \in SUBSET Conductors
    /\ op \in {"none", "async", "sync", "prevent", "shutdown"}
    /\ opScope \in Scopes \cup {"none"}
    /\ ticket \in 0 .. MaxTickets
    /\ done \in BOOLEAN
    /\ oldState \in SUBSET Bits

TypeOK == TypePC /\ TypeData

\* A heap whose VM is up: notifyIsSafeToCollect has run and the mutator holds
\* the API lock
Init ==
    /\ worldState = {"hasAccess"}
    /\ currentPhase = "NotRunning" /\ nextPhase = "NotRunning"
    /\ worldIsStopped = FALSE
    /\ collectionScope = "none"
    /\ requests = <<>> /\ lastServedTicket = 0 /\ lastGrantedTicket = 0
    /\ collectorThreadIsRunning = FALSE
    /\ threadShouldStop = FALSE /\ isSafeToCollect = TRUE
    /\ parked = {}
    /\ pc = [c \in Conductors |-> IF c = "Mutator" THEN "run" ELSE "absent"]
    /\ after = [c \in Conductors |-> "dispatch"]
    /\ op = "none" /\ opScope = "none"
    /\ ret = "none" /\ back = "run"
    /\ ticket = 0 /\ done = FALSE /\ oldState = {}

At(c, l) == pc[c] = l /\ c \notin parked

Goto(c, l) == pc' = [pc EXCEPT ![c] = l]

\* m_threadCondition->notifyOne on the thread states p: it wakes a waiting
\* collector thread, or starts one, and is lost on one that is running
notifyOne(p) == [p EXCEPT !["Collector"] = IF @ \in {"wait", "absent"} THEN "poll" ELSE @]

unparkAll == parked' = {}

------------------------------------------------------------------------------
(* The phases, run by whoever has the conn                                  *)

\* finishChangingPhase returns r to runCurrentPhase
Return(c, r) == Goto(c, IF r THEN after[c] ELSE "finished")

runCurrentPhase(c) ==
    /\ At(c, "check")
    /\ Goto(c, "change")
    /\ after' = [after EXCEPT ![c] = "dispatch"]
    /\ UNCHANGED <<worldState, heap, tickets, flags, parked, call, locals>>

\* The branch finishChangingPhase takes, with the first thing it does there
finishChangingPhase(c) ==
    LET before == worldShouldBeSuspended(currentPhase)
        afterwards == worldShouldBeSuspended(nextPhase)
    IN
    /\ At(c, "change")
    /\ \/ /\ before = afterwards
          /\ currentPhase' = nextPhase
          /\ Return(c, TRUE)
          /\ UNCHANGED worldIsStopped
       \/ /\ before /\ ~afterwards
          /\ worldIsStopped' = FALSE                 \* resumeThePeriphery
          /\ Goto(c, IF c = "Collector" THEN "resume" ELSE "leaveFinalize")
          /\ UNCHANGED currentPhase
       \/ /\ ~before /\ afterwards
          /\ Goto(c, IF c = "Collector" THEN "waitFinalize" ELSE "enterFinalize")
          /\ UNCHANGED <<currentPhase, worldIsStopped>>
    /\ UNCHANGED <<worldState, nextPhase, collectionScope, tickets, flags, parked,
                   after, call, locals>>

resumeTheMutator ==
    /\ At("Collector", "resume")
    /\ worldState' = worldState \ {"stopped"}
    /\ Goto("Collector", IF "stopped" \in worldState THEN "resumeUnpark" ELSE "commit")
    /\ UNCHANGED <<heap, tickets, flags, parked, after, call, locals>>

\* Mutant: the collector thread does not wait for the finalization
StopWithoutFinalize ==
    /\ At("Collector", "waitFinalize")
    /\ Goto("Collector", "stopMutator")
    /\ UNCHANGED <<worldState, heap, tickets, flags, parked, after, call, locals>>

waitWhileNeedFinalize ==
    /\ At("Collector", "waitFinalize")
    /\ \/ /\ "needFinalize" \in worldState
          /\ parked' = parked \cup {"Collector"}
          /\ UNCHANGED pc
       \/ /\ "needFinalize" \notin worldState
          /\ Goto("Collector", "stopMutator")
          /\ UNCHANGED parked
    /\ UNCHANGED <<worldState, heap, tickets, flags, after, call, locals>>

\* Mutant: a mutator with access is left to notice by itself
StopBails ==
    /\ At("Collector", "stopMutator")
    /\ IF worldState \cap {"mutatorHasConn", "hasAccess"} = {}
       THEN worldState' = worldState \cup {"stopped"} /\ Goto("Collector", "stopPeriphery")
       ELSE UNCHANGED worldState /\ Return("Collector", FALSE)
    /\ UNCHANGED <<heap, tickets, flags, parked, after, call, locals>>

\* Mutant: the world is stopped under a mutator with access
StopAnyway ==
    /\ At("Collector", "stopMutator")
    /\ worldState' = worldState \cup {"stopped"}
    /\ Goto("Collector", "stopPeriphery")
    /\ UNCHANGED <<heap, tickets, flags, parked, after, call, locals>>

\* Either the world is stopped, or the conn goes to the mutator
stopTheMutator ==
    /\ At("Collector", "stopMutator")
    /\ \/ /\ "stopped" \in worldState
          /\ Goto("Collector", "stopPeriphery")
          /\ UNCHANGED worldState
       \/ /\ worldState \cap {"stopped", "mutatorHasConn"} = {"mutatorHasConn"}
          /\ Return("Collector", FALSE)
          /\ UNCHANGED worldState
       \/ /\ worldState \cap {"stopped", "mutatorHasConn", "hasAccess"} = {}
          /\ worldState' = worldState \cup {"stopped"}
          /\ Goto("Collector", "stopPeriphery")
       \/ /\ worldState \cap {"stopped", "mutatorHasConn", "hasAccess"} = {"hasAccess"}
          /\ worldState' = (worldState \cup {"mutatorHasConn"}) \ {"mutatorWaiting"}
          /\ Goto("Collector", "handoffUnpark")
    /\ UNCHANGED <<heap, tickets, flags, parked, after, call, locals>>

stopThePeriphery(c) ==
    /\ At(c, "stopPeriphery")
    /\ worldIsStopped' = TRUE
    /\ Goto(c, "commit")
    /\ UNCHANGED <<worldState, currentPhase, nextPhase, collectionScope, tickets, flags,
                   parked, after, call, locals>>

\* m_currentPhase = m_nextPhase at the end of finishChangingPhase
CommitPhase(c) ==
    /\ At(c, "commit")
    /\ currentPhase' = nextPhase
    /\ Return(c, TRUE)
    /\ UNCHANGED <<worldState, nextPhase, worldIsStopped, collectionScope, tickets, flags,
                   parked, after, call, locals>>

\* The unparkAll calls that follow a change of m_worldState
UnparkWaiters(c) ==
    /\ \/ At(c, "resumeUnpark") /\ Goto(c, "commit")
       \/ At(c, "handoffUnpark") /\ Return(c, FALSE)
       \/ At(c, "endUnpark") /\ Goto(c, "endNeedFinalize")
       \/ At(c, "endFinalizeUnpark") /\ Goto(c, "endChange")
    /\ unparkAll
    /\ UNCHANGED <<worldState, heap, tickets, flags, after, call, locals>>

InPhase(c, phase) == At(c, "dispatch") /\ currentPhase = phase

changePhase(c, phase) ==
    /\ nextPhase' = phase
    /\ Goto(c, "change")
    /\ after' = [after EXCEPT ![c] = "check"]
    /\ UNCHANGED <<worldState, currentPhase, worldIsStopped, tickets, flags, parked, call, locals>>

\* A phase that returns r to runCurrentPhase without changing the phase
PhaseReturns(c, r) ==
    /\ Goto(c, IF r THEN "check" ELSE "finished")
    /\ UNCHANGED <<worldState, heap, tickets, flags, parked, after, call, locals>>

runNotRunningPhase(c) ==
    /\ InPhase(c, "NotRunning")
    /\ \/ requests = <<>> /\ PhaseReturns(c, FALSE)
       \/ requests # <<>> /\ changePhase(c, "Begin") /\ UNCHANGED collectionScope

\* A request without a scope is full when m_shouldDoFullCollection or the
\* critical memory threshold says so
shouldDoFullCollection(scope) ==
    CASE scope = "Any" -> BOOLEAN
      [] scope = "Full" -> {TRUE}
      [] scope = "Eden" -> {FALSE}

runBeginPhase(c) ==
    /\ InPhase(c, "Begin")
    /\ \E full \in shouldDoFullCollection(Head(requests)) :
          collectionScope' = IF full THEN "Full" ELSE "Eden"
    /\ changePhase(c, "Fixpoint")

\* Marking converged, or goes on with the world stopped, or resumes it
runFixpointPhase(c) ==
    /\ InPhase(c, "Fixpoint")
    /\ \/ changePhase(c, "End") /\ UNCHANGED collectionScope
       \/ PhaseReturns(c, TRUE)
       \/ changePhase(c, "Concurrent") /\ UNCHANGED collectionScope

runConcurrentPhase(c) ==
    /\ InPhase(c, "Concurrent")
    /\ \/ c = "Mutator" /\ PhaseReturns(c, FALSE)
       \/ changePhase(c, "Reloop") /\ UNCHANGED collectionScope

runReloopPhase(c) ==
    /\ InPhase(c, "Reloop")
    /\ changePhase(c, "Fixpoint") /\ UNCHANGED collectionScope

\* runEndPhase up to and including didFinishCollection
runEndPhase(c) ==
    /\ InPhase(c, "End")
    /\ collectionScope' = "none"
    /\ Goto(c, "endServe")
    /\ UNCHANGED <<worldState, currentPhase, nextPhase, worldIsStopped, tickets, flags,
                   parked, after, call, locals>>

\* runEndPhase retires the request under m_threadLock
ServeTicket(c) ==
    /\ At(c, "endServe")
    /\ requests' = Tail(requests)
    /\ lastServedTicket' = lastServedTicket + 1
    /\ worldState' = worldState \ {"mutatorWaiting"}
    /\ Goto(c, "endUnpark")
    /\ UNCHANGED <<heap, lastGrantedTicket, flags, parked, after, call, locals>>

setNeedFinalize(c) ==
    /\ At(c, "endNeedFinalize")
    /\ worldState' = worldState \cup {"needFinalize"}
    /\ Goto(c, "endFinalizeUnpark")
    /\ UNCHANGED <<heap, tickets, flags, parked, after, call, locals>>

\* The changePhase that ends runEndPhase
EndCollection(c) ==
    /\ At(c, "endChange")
    /\ changePhase(c, "NotRunning") /\ UNCHANGED collectionScope

Conduct(c) ==
    \/ runCurrentPhase(c) \/ finishChangingPhase(c) \/ stopThePeriphery(c)
    \/ CommitPhase(c) \/ UnparkWaiters(c)
    \/ runNotRunningPhase(c) \/ runBeginPhase(c) \/ runFixpointPhase(c)
    \/ runConcurrentPhase(c) \/ runReloopPhase(c) \/ runEndPhase(c)
    \/ ServeTicket(c) \/ setNeedFinalize(c) \/ EndCollection(c)

------------------------------------------------------------------------------
(* The collector thread                                                     *)

\* HeapThread::poll, with what AutomaticThread::start does with its result
poll ==
    /\ At("Collector", "poll")
    /\ \/ /\ threadShouldStop
          /\ worldState' = worldState \ {"mutatorWaiting"}     \* notifyThreadStopping
          /\ unparkAll
          /\ collectorThreadIsRunning' = FALSE
          /\ Goto("Collector", "stopped")
       \/ /\ ~threadShouldStop
          /\ requests # <<>> /\ "mutatorHasConn" \notin worldState
          /\ collectorThreadIsRunning' = TRUE
          /\ Goto("Collector", "check")
          /\ UNCHANGED <<worldState, parked>>
       \/ /\ ~threadShouldStop
          /\ requests = <<>> \/ "mutatorHasConn" \in worldState
          /\ collectorThreadIsRunning' = FALSE
          /\ Goto("Collector", "wait")
          /\ UNCHANGED <<worldState, parked>>
    /\ UNCHANGED <<heap, tickets, threadShouldStop, isSafeToCollect, after, call, locals>>

\* The wait for a notification timed out: the underlying thread goes away
stopForTimeout ==
    /\ At("Collector", "wait")
    /\ collectorThreadIsRunning' = FALSE
    /\ Goto("Collector", "absent")
    /\ UNCHANGED <<worldState, heap, tickets, threadShouldStop, isSafeToCollect, parked,
                   after, call, locals>>

\* collectInCollectorThread returns to the poll loop
CollectorFinished ==
    /\ At("Collector", "finished")
    /\ Goto("Collector", "poll")
    /\ UNCHANGED <<worldState, heap, tickets, flags, parked, after, call, locals>>

CollectorStep ==
    \/ Conduct("Collector") \/ resumeTheMutator \/ waitWhileNeedFinalize \/ stopTheMutator
    \/ poll \/ CollectorFinished

------------------------------------------------------------------------------
(* The mutator: finalizing, stopping and conducting                         *)

\* Where the mutator checks needFinalizeBit
Finalizing == {"leaveFinalize", "enterFinalize", "stop", "stopFinalize", "waitLoad",
               "release", "acquireFinalize"}

\* The bit is cleared and finalize() starts; then the caller looks again.
\* waitForCollector looks again from its top, also when the exchange failed.
handleNeedFinalize ==
    LET again == IF pc["Mutator"] = "waitLoad" THEN "waitLock" ELSE pc["Mutator"] IN
    /\ \E l \in Finalizing : At("Mutator", l)
    /\ "needFinalize" \in worldState
    /\ \/ /\ worldState' = worldState \ {"needFinalize"}
          /\ Goto("Mutator", "finalize")
          /\ back' = again
       \/ /\ Goto("Mutator", again)
          /\ UNCHANGED <<worldState, back>>
    /\ oldState' = IF pc["Mutator"] = "waitLoad" THEN worldState ELSE oldState
    /\ UNCHANGED <<heap, tickets, flags, parked, after, call, ret, ticket, done>>

\* finalize() and the unparkAll after it
finalize ==
    /\ At("Mutator", "finalize")
    /\ unparkAll
    /\ Goto("Mutator", back)
    /\ UNCHANGED <<worldState, heap, tickets, flags, after, call, locals>>

\* What follows each check that finds nothing to finalize
NothingToFinalize ==
    /\ "needFinalize" \notin worldState
    /\ \/ At("Mutator", "leaveFinalize") /\ Goto("Mutator", "commit")
       \/ At("Mutator", "enterFinalize") /\ Goto("Mutator", "stopPeriphery")
       \/ At("Mutator", "acquireFinalize") /\ Goto("Mutator", "acquireStop")
       \/ At("Mutator", "stopFinalize") /\ Goto("Mutator", IF opScope = "none" THEN "run" ELSE "request")
    /\ UNCHANGED <<worldState, heap, tickets, flags, parked, after, call, locals>>

\* stopIfNecessarySlow: the mutator conducts if it has the conn
stopIfNecessarySlow ==
    /\ At("Mutator", "stop")
    /\ "needFinalize" \notin worldState
    /\ ret' = "stopFinalize"
    /\ Goto("Mutator", IF "mutatorHasConn" \in worldState THEN "check" ELSE "stopFinalize")
    /\ UNCHANGED <<worldState, heap, tickets, flags, parked, after, call, back, ticket, done, oldState>>

\* collectInMutatorThread returns
MutatorFinished ==
    /\ At("Mutator", "finished")
    /\ Goto("Mutator", ret)
    /\ UNCHANGED <<worldState, heap, tickets, flags, parked, after, call, locals>>

\* The check of mayNeedToStop at l, which sends the mutator to l2 if all is quiet
mayNeedToStop(l, l2) ==
    /\ At("Mutator", l)
    /\ Goto("Mutator", IF worldState # {"hasAccess"} THEN "stop" ELSE l2)
    /\ UNCHANGED <<worldState, heap, tickets, flags, parked, after, call, locals>>

\* A poll from an allocation slow path or from StopIfNecessaryTimer
stopIfNecessary == worldState # {"hasAccess"} /\ mayNeedToStop("run", "run")

------------------------------------------------------------------------------
(* The mutator: heap access                                                 *)

\* The fast path of releaseAccess, or its failure
releaseAccess ==
    /\ At("Mutator", "run")
    /\ \/ /\ worldState = {"hasAccess"}
          /\ worldState' = {}
          /\ Goto("Mutator", "out")
       \/ /\ Goto("Mutator", "release")
          /\ UNCHANGED worldState
    /\ UNCHANGED <<heap, tickets, flags, parked, after, call, locals>>

\* Mutant: the mutator leaves with the conn
ReleaseKeepsConn ==
    /\ At("Mutator", "release")
    /\ "needFinalize" \notin worldState
    /\ worldState' = worldState \ {"hasAccess"}
    /\ Goto("Mutator", IF "mutatorHasConn" \in worldState THEN "releaseNotify" ELSE "out")
    /\ UNCHANGED <<heap, tickets, flags, parked, after, call, locals>>

releaseAccessSlow ==
    LET hasConn == "mutatorHasConn" \in worldState IN
    /\ At("Mutator", "release")
    /\ "needFinalize" \notin worldState
    /\ worldState' = (worldState \ {"hasAccess", "mutatorHasConn"})
                     \cup {b \in {"stopped"} : hasConn /\ nextPhase # currentPhase}
    /\ Goto("Mutator", IF hasConn THEN "releaseNotify" ELSE "out")
    /\ UNCHANGED <<heap, tickets, flags, parked, after, call, locals>>

acquireAccess ==
    /\ At("Mutator", "out")
    /\ \/ /\ worldState = {}
          /\ worldState' = {"hasAccess"}
          /\ Goto("Mutator", "run")
       \/ /\ Goto("Mutator", "acquire")
          /\ UNCHANGED worldState
    /\ UNCHANGED <<heap, tickets, flags, parked, after, call, locals>>

\* Mutant: access is taken without looking at stoppedBit
AcquireRegardless ==
    /\ At("Mutator", "acquire")
    /\ worldState' = worldState \cup {"hasAccess"}
    /\ Goto("Mutator", "acquireFinalize")
    /\ UNCHANGED <<heap, tickets, flags, parked, after, call, locals>>

acquireAccessSlow ==
    /\ At("Mutator", "acquire")
    /\ \/ /\ "stopped" \in worldState
          /\ parked' = parked \cup {"Mutator"}
          /\ UNCHANGED <<worldState, pc>>
       \/ /\ "stopped" \notin worldState
          /\ worldState' = worldState \cup {"hasAccess"}
          /\ Goto("Mutator", "acquireFinalize")
          /\ UNCHANGED parked
    /\ UNCHANGED <<heap, tickets, flags, after, call, locals>>

\* A new request is pending, or the conn was released: under m_threadLock
finishRelinquishingConn ==
    /\ \/ At("Mutator", "relinquishNotify") \/ At("Mutator", "releaseNotify")
    /\ LET p == [pc EXCEPT !["Mutator"] = IF @ = "releaseNotify" THEN "out" ELSE "relinquish"]
       IN pc' = IF requests # <<>> THEN notifyOne(p) ELSE p
    /\ unparkAll
    /\ UNCHANGED <<worldState, heap, tickets, flags, after, call, locals>>

relinquishConn ==
    /\ At("Mutator", "relinquish")
    /\ \/ /\ "mutatorHasConn" \in worldState /\ ~threadShouldStop
          /\ worldState' = worldState \ {"mutatorHasConn"}
          /\ Goto("Mutator", "relinquishNotify")
       \/ /\ "mutatorHasConn" \notin worldState \/ threadShouldStop
          /\ Goto("Mutator", "waitEnd")
          /\ UNCHANGED worldState
    /\ UNCHANGED <<heap, tickets, flags, parked, after, call, locals>>

------------------------------------------------------------------------------
(* The mutator: requests, waiting, shutdown                                 *)

\* GCRequest::subsumedBy for requests without callbacks
subsumedBy(scope, other) ==
    \/ other = "Full"
    \/ scope = "Eden"
    \/ scope = "Any" /\ other = "Any"

StartOp(o, l) ==
    /\ At("Mutator", "run") /\ isSafeToCollect
    /\ op' = o
    /\ Goto("Mutator", l)
    /\ UNCHANGED <<worldState, heap, tickets, parked, after>>

\* A request with a callback is never subsumed
collectAsync(scope, hasCallback) ==
    /\ lastGrantedTicket < MaxTickets
    /\ hasCallback \/ \A i \in DOMAIN requests : ~subsumedBy(scope, requests[i])
    /\ opScope' = scope
    /\ StartOp("async", "requestStop")
    /\ UNCHANGED <<flags, locals>>

collectSync(scope) ==
    /\ lastGrantedTicket < MaxTickets
    /\ opScope' = scope
    /\ StartOp("sync", "requestStop")
    /\ UNCHANGED <<flags, locals>>

\* Mutant: the conn is stolen whenever no collection is pending
StealAlways ==
    LET steal == lastServedTicket = lastGrantedTicket
        p == [pc EXCEPT !["Mutator"] = IF op = "sync" THEN "waitLock" ELSE "run"]
    IN
    /\ At("Mutator", "request")
    /\ worldState' = worldState \cup {b \in {"mutatorHasConn"} : steal}
    /\ requests' = Append(requests, opScope)
    /\ lastGrantedTicket' = lastGrantedTicket + 1
    /\ pc' = IF "mutatorHasConn" \in worldState' THEN p ELSE notifyOne(p)
    /\ ticket' = lastGrantedTicket'
    /\ op' = IF op = "sync" THEN "sync" ELSE "none"
    /\ opScope' = "none"
    /\ UNCHANGED <<heap, lastServedTicket, flags, parked, after, ret, back, done, oldState>>

\* requestCollection after its stopIfNecessary: under m_threadLock
requestCollection ==
    LET steal == lastServedTicket = lastGrantedTicket /\ ~collectorThreadIsRunning
        p == [pc EXCEPT !["Mutator"] = IF op = "sync" THEN "waitLock" ELSE "run"]
    IN
    /\ At("Mutator", "request")
    /\ worldState' = worldState \cup {b \in {"mutatorHasConn"} : steal}
    /\ requests' = Append(requests, opScope)
    /\ lastGrantedTicket' = lastGrantedTicket + 1
    /\ pc' = IF "mutatorHasConn" \in worldState' THEN p ELSE notifyOne(p)
    /\ ticket' = lastGrantedTicket'
    /\ op' = IF op = "sync" THEN "sync" ELSE "none"
    /\ opScope' = "none"
    /\ UNCHANGED <<heap, lastServedTicket, flags, parked, after, ret, back, done, oldState>>

\* preventCollection; allowCollection changes nothing that is modelled
preventCollection == StartOp("prevent", "waitLock") /\ UNCHANGED <<opScope, flags, locals>>

\* Mutant: collectSync waits for the collection before its own
DoneEarly ==
    /\ op = "sync" => lastServedTicket + 1 >= ticket
    /\ op # "sync" => lastServedTicket = lastGrantedTicket

\* What waitForCollector waits for
CollectorDone ==
    /\ op = "sync" => lastServedTicket >= ticket
    /\ op # "sync" => lastServedTicket = lastGrantedTicket

\* waitForCollector: done is computed, or the waiting bit set, under m_threadLock
WaitCheck ==
    /\ At("Mutator", "waitLock")
    /\ done' = CollectorDone
    /\ worldState' = worldState \cup {b \in {"mutatorWaiting"} : ~CollectorDone}
    /\ Goto("Mutator", "waitLoad")
    /\ UNCHANGED <<heap, tickets, flags, parked, after, call, ret, back, ticket, oldState>>

\* waitForCollector loads m_worldState and conducts if it has the conn
WaitStop ==
    /\ At("Mutator", "waitLoad")
    /\ "needFinalize" \notin worldState
    /\ oldState' = worldState
    /\ ret' = "relinquish"
    /\ Goto("Mutator", IF "mutatorHasConn" \in worldState THEN "check" ELSE "relinquish")
    /\ UNCHANGED <<worldState, heap, tickets, flags, parked, after, call, back, ticket, done>>

\* waitForCollector returns, or parks unless m_worldState has changed
WaitPark ==
    /\ At("Mutator", "waitEnd")
    /\ \/ /\ done
          /\ worldState' = worldState \ {"mutatorWaiting"}
          /\ Goto("Mutator", IF op = "shutdown" THEN "stopThread" ELSE "run")
          /\ op' = IF op = "shutdown" THEN op ELSE "none"
          /\ UNCHANGED parked
       \/ /\ ~done
          /\ parked' = parked \cup {m \in {"Mutator"} : worldState = oldState \cup {"mutatorWaiting"}}
          /\ Goto("Mutator", "waitLock")
          /\ UNCHANGED <<worldState, op>>
    /\ UNCHANGED <<heap, tickets, flags, after, opScope, locals>>

lastChanceToFinalize ==
    /\ StartOp("shutdown", IF lastServedTicket < lastGrantedTicket THEN "waitLock" ELSE "stopThread")
    /\ isSafeToCollect' = FALSE
    /\ UNCHANGED <<collectorThreadIsRunning, threadShouldStop, opScope, locals>>

\* tryStop and the notification of a thread that is there: under m_threadLock
StopThread ==
    /\ At("Mutator", "stopThread")
    /\ threadShouldStop' = TRUE
    /\ pc' = IF pc["Collector"] = "absent"
             THEN [pc EXCEPT !["Mutator"] = "dead", !["Collector"] = "stopped"]
             ELSE notifyOne([pc EXCEPT !["Mutator"] = "join"])
    /\ UNCHANGED <<worldState, heap, tickets, collectorThreadIsRunning, isSafeToCollect,
                   parked, after, call, locals>>

join ==
    /\ At("Mutator", "join") /\ pc["Collector"] = "stopped"
    /\ Goto("Mutator", "dead")
    /\ UNCHANGED <<worldState, heap, tickets, flags, parked, after, call, locals>>

\* What the mutator starts by itself
MutatorCalls ==
    \/ stopIfNecessary \/ releaseAccess \/ acquireAccess \/ preventCollection
    \/ lastChanceToFinalize
    \/ \E scope \in Scopes : collectSync(scope) \/ \E b \in BOOLEAN : collectAsync(scope, b)

\* What the mutator does inside a call
MutatorStep ==
    \/ Conduct("Mutator") \/ handleNeedFinalize \/ finalize \/ NothingToFinalize
    \/ stopIfNecessarySlow \/ MutatorFinished
    \/ mayNeedToStop("requestStop", "request") \/ mayNeedToStop("acquireStop", "run")
    \/ releaseAccessSlow \/ acquireAccessSlow \/ finishRelinquishingConn \/ relinquishConn
    \/ requestCollection \/ WaitCheck \/ WaitStop \/ WaitPark \/ StopThread \/ join

\* The heap was destroyed
Terminated == pc["Mutator"] = "dead" /\ UNCHANGED vars

Next == CollectorStep \/ stopForTimeout \/ MutatorCalls \/ MutatorStep \/ Terminated

Spec == Init /\ [][Next]_vars

\* Both threads are scheduled; the weak exchange of handleNeedFinalize does not
\* fail for ever; marking converges at some point if it is tried for ever
Fairness ==
    /\ WF_vars(CollectorStep)
    /\ WF_vars(MutatorStep)
    /\ SF_vars(handleNeedFinalize /\ pc'["Mutator"] = "finalize")
    /\ SF_vars(\E c \in Conductors : runFixpointPhase(c) /\ nextPhase' = "End")

FairSpec == Spec /\ Fairness

------------------------------------------------------------------------------
(* Properties                                                               *)

\* The mutator is inside runCurrentPhase, perhaps in a finalize() it called
MutatorConducts ==
    \/ pc["Mutator"] \in Conducting \ {"finished"}
    \/ pc["Mutator"] = "finalize" /\ back \in {"leaveFinalize", "enterFinalize"}

\* The collector thread is inside runCurrentPhase and has not handed the conn over
CollectorConducts == pc["Collector"] \in Conducting \ {"handoffUnpark", "finished"}

\* Whoever runs a phase has the conn (checkConn), for the whole of the phase and
\* not only where the code checks: so no two threads ever run phases together,
\* even though the bit is stolen in requestCollection, handed over in
\* stopTheMutator and given up in releaseAccessSlow and relinquishConn.
ConductorHasConn ==
    /\ MutatorConducts => "mutatorHasConn" \in worldState
    /\ CollectorConducts => "mutatorHasConn" \notin worldState

\* While m_worldIsStopped, either the mutator itself conducts, or stoppedBit
\* keeps it out of the heap: it is outside releaseAccess / acquireAccess or
\* inside one of them on the far side of the barrier.
StoppedWorld ==
    worldIsStopped =>
        \/ MutatorConducts
        \/ /\ "stopped" \in worldState /\ "hasAccess" \notin worldState
           /\ pc["Mutator"] \in {"out", "acquire", "releaseNotify"}

\* finalize() runs with heap access, in a running world, and never inside a
\* collection: not even one that the collector thread starts while the bit is
\* already cleared (the comment in waitWhileNeedFinalize).
FinalizeBetweenCollections ==
    pc["Mutator"] = "finalize" =>
        /\ "hasAccess" \in worldState
        /\ ~worldIsStopped
        /\ collectionScope = "none"

\* Tickets count requests: the pending ones are the granted that are not served,
\* and a collection in progress is of the scope that the oldest one asked for.
TicketsMatchRequests ==
    /\ Len(requests) = lastGrantedTicket - lastServedTicket
    /\ lastServedTicket <= lastGrantedTicket
    /\ collectionScope # "none" =>
          /\ requests # <<>>
          /\ (collectionScope = "Full") \in shouldDoFullCollection(Head(requests))

\* The RELEASE_ASSERTs of Heap.cpp and AutomaticThread.cpp, each at the step
\* that evaluates it (checkConn is ConductorHasConn, and the ones on tickets
\* are TicketsMatchRequests).
ReleaseAsserts ==
    LET has(bits) == bits \subseteq worldState
        lacks(bits) == worldState \cap bits = {}
        mutatorAt(ls) == pc["Mutator"] \in ls
    IN
    /\ mutatorAt(Finalizing \cup {"relinquish"}) => has({"hasAccess"}) /\ lacks({"stopped"})
    /\ mutatorAt({"acquire"}) => lacks({"hasAccess"})
    /\ pc["Collector"] = "resume" =>
          /\ has({"hasAccess"}) # has({"stopped"})
          /\ lacks({"mutatorHasConn"})
    /\ pc["Collector"] = "stopMutator" =>
          /\ has({"stopped"}) => lacks({"hasAccess", "mutatorWaiting", "mutatorHasConn"})
          /\ has({"mutatorHasConn"}) => lacks({"hasAccess"})
          /\ lacks({"hasAccess"}) => lacks({"mutatorWaiting"})
    /\ \A c \in Conductors :
          /\ pc[c] = "stopPeriphery" => ~worldIsStopped
          /\ pc[c] = "change" /\ worldShouldBeSuspended(currentPhase) => worldIsStopped
          /\ pc[c] = "dispatch" /\ currentPhase = "Begin" =>
                requests # <<>> /\ collectionScope = "none"
    /\ mutatorAt({"stopThread"}) => requests = <<>>
    /\ mutatorAt({"request", "relinquishNotify", "releaseNotify"}) => pc["Collector"] # "stopped"

\* collectSync returns only when its own ticket was served; preventCollection
\* only when no collection is pending or in progress (its RELEASE_ASSERT) and
\* the world runs.
WaitsAreHonest ==
    [][ /\ op = "sync" /\ op' = "none" => lastServedTicket >= ticket
        /\ op = "prevent" /\ op' = "none" =>
              requests = <<>> /\ collectionScope = "none" /\ ~worldIsStopped ]_vars

\* The collector thread hands the conn over between two phases, and
\* waitForCollector, which looked before, gives it back unused, for ever: the
\* "mischevious mutator" of the comment in runCurrentPhase.
EndlessBounce ==
    []<><<relinquishConn /\ nextPhase # currentPhase /\ worldState' # worldState>>_vars

\* Every call into the heap returns: a poll, a request, a wait for a collection,
\* an acquireAccess behind a stopped world, and lastChanceToFinalize.  No wakeup
\* through ParkingLot or the thread condition is lost; the conn bouncing back
\* for ever is the only way not to return.
CallsReturn ==
    \/ EndlessBounce
    \/ (pc["Mutator"] \notin {"run", "out", "dead"}) ~> (pc["Mutator"] \in {"run", "out", "dead"})

\* If the mutator stays out of the heap, the collector thread serves what is
\* pending by itself, up to a finalization it has to leave to the mutator.
ServedInBackground ==
    (requests # <<>> /\ pc["Mutator"] = "out") ~>
        (requests = <<>> \/ pc["Mutator"] # "out" \/ "needFinalize" \in worldState)

==============================================================================

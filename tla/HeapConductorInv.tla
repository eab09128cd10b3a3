-------------------------- MODULE HeapConductorInv ---------------------------
(***************************************************************************)
(* The inductive invariant of HeapConductor, for HeapConductorProofs.      *)
(***************************************************************************)
EXTENDS HeapConductor

\* Where the mutator has no heap access
Outside == {"out", "acquire", "releaseNotify"}

Leaving == {"resume", "resumeUnpark", "leaveFinalize"}
Entering == {"waitFinalize", "stopMutator", "enterFinalize", "stopPeriphery"}
Ending == {"endServe", "endUnpark", "endNeedFinalize", "endFinalizeUnpark", "endChange"}

\* The step a conductor is at; inside finalize(), the one it returns to
Label(c) == IF c = "Mutator" /\ pc[c] = "finalize" THEN back ELSE pc[c]

\* What the phase variables are while their conductor is at step l
PhaseAt(l) ==
    /\ l \in {"check", "change", "dispatch"} =>
          (worldIsStopped <=> worldShouldBeSuspended(currentPhase))
    /\ l = "dispatch" => currentPhase = nextPhase
    /\ l \in Leaving =>
          /\ worldShouldBeSuspended(currentPhase) /\ ~worldShouldBeSuspended(nextPhase)
          /\ ~worldIsStopped
    /\ l \in Entering =>
          /\ ~worldShouldBeSuspended(currentPhase) /\ worldShouldBeSuspended(nextPhase)
          /\ ~worldIsStopped
    /\ l = "commit" =>
          /\ worldIsStopped <=> worldShouldBeSuspended(nextPhase)
          /\ worldIsStopped <=> ~worldShouldBeSuspended(currentPhase)
    /\ l \in Ending => currentPhase = "End" /\ nextPhase = "End" /\ worldIsStopped

PhasesConsistent ==
    /\ MutatorConducts => PhaseAt(Label("Mutator"))
    /\ CollectorConducts => PhaseAt(pc["Collector"])
    /\ ~MutatorConducts /\ ~CollectorConducts =>
          ~worldIsStopped /\ ~worldShouldBeSuspended(currentPhase)

\* The bits agree with where the threads are
BitsConsistent ==
    /\ "hasAccess" \in worldState <=> pc["Mutator"] \notin Outside
    /\ "stopped" \in worldState => worldState \cap {"hasAccess", "mutatorHasConn"} = {}
    /\ pc["Collector"] \in Conducting => collectorThreadIsRunning
    /\ CollectorConducts /\ (worldIsStopped \/ pc["Collector"] \in {"stopPeriphery", "resume"}) =>
          "stopped" \in worldState

\* The locals that direct the control flow, and the request that waits for
\* stopIfNecessary to return
LocalsConsistent ==
    /\ pc["Mutator"] = "finalize" => back \in (Finalizing \ {"waitLoad"}) \cup {"waitLock"}
    /\ Label("Mutator") \in Conducting => ret # "none"
    /\ pc["Mutator"] \in {"requestStop", "request"} => opScope # "none"
    /\ opScope # "none" =>
          /\ lastGrantedTicket < MaxTickets
          /\ op \in {"async", "sync"}
          /\ \/ Label("Mutator") \in {"requestStop", "request", "stop", "stopFinalize"}
             \/ Label("Mutator") \in Conducting /\ ret = "stopFinalize"

\* Requests are pending from the start of a collection to the step that serves it
RequestsConsistent ==
    /\ Len(requests) = lastGrantedTicket - lastServedTicket
    /\ lastServedTicket <= lastGrantedTicket
    /\ \/ requests # <<>>
       \/ nextPhase = "NotRunning"
       \/ \E c \in Conductors : pc[c] \in Ending \ {"endServe"}

\* A collection has a scope from runBeginPhase to runEndPhase, and nothing is
\* left to finalize in between
ScopeConsistent ==
    /\ collectionScope # "none" =>
          /\ currentPhase # "NotRunning"
          /\ currentPhase = "Begin" => nextPhase = "Fixpoint"
          /\ nextPhase \in {"Fixpoint", "Concurrent", "Reloop", "End"}
          /\ \A c \in Conductors : pc[c] \notin Ending
          /\ (collectionScope = "Full") \in shouldDoFullCollection(Head(requests))
          /\ pc["Mutator"] # "finalize"
    /\ nextPhase = "Begin" => currentPhase \in {"NotRunning", "Begin"}
    /\ "needFinalize" \in worldState =>
          /\ collectionScope = "none"
          /\ currentPhase # "Begin"
          /\ nextPhase = "Begin" =>
                /\ pc["Collector"] \notin {"stopMutator", "stopPeriphery", "commit"}
                /\ pc["Mutator"] \notin {"stopPeriphery", "commit"}

\* Where waitForCollector can be after it computed done
Waiting ==
    \/ pc["Mutator"] \in {"waitLoad", "relinquish", "relinquishNotify", "waitEnd"}
    \/ Label("Mutator") \in Conducting /\ ret = "relinquish"

\* The waiting bit and done belong to waitForCollector; the thread stops last
WaitConsistent ==
    /\ "mutatorWaiting" \in worldState => Waiting \/ Label("Mutator") = "waitLock"
    /\ Waiting /\ done => CollectorDone
    /\ pc["Collector"] = "stopped" => threadShouldStop
    /\ threadShouldStop => pc["Mutator"] \in {"join", "dead"}
    /\ pc["Mutator"] = "stopThread" => lastServedTicket = lastGrantedTicket

\* The inductive invariant: no conjunct is preserved without the others
IInv == /\ TypeOK /\ BitsConsistent /\ LocalsConsistent /\ ConductorHasConn
        /\ PhasesConsistent /\ RequestsConsistent /\ ScopeConsistent /\ WaitConsistent

==============================================================================

-------------------------- MODULE ParallelMarking --------------------------
(***************************************************************************)
(* Parallel marking (heap/SlotVisitor.cpp, heap/MarkStack.cpp and the      *)
(* marking phases of heap/Heap.cpp): the collector's visitor, the helper   *)
(* threads' visitors and the mutator's visitor drain their mark stacks,    *)
(* share cells through the heap's shared stack, and detect that marking    *)
(* has terminated; the fixpoint phase then runs the marking constraints,   *)
(* with the helpers as a bonus task, until nothing new is marked.          *)
(*                                                                         *)
(* A critical section of m_markingMutex is one step.  A mark stack is the  *)
(* set of its cells: a cell is appended once, when its mark bit is set.    *)
(* The collector's and the mutator's stack of a visitor are one.  A        *)
(* collection is a full one: it starts with nothing marked.                *)
(***************************************************************************)
EXTENDS Naturals, FiniteSets

CONSTANTS Helpers,
          Cells, Roots,          \* what the root constraints append
          Children,              \* what visitChildren appends
          Outgrowths,            \* what the outgrowth constraints append for a marked cell
          MaxCollections,        \* bound on the collections started
          MaxTimeouts            \* bound on the pauses that end before marking has terminated

Collector == "m_collectorSlotVisitor"
Mutator == "m_mutatorSlotVisitor"
Visitors == Helpers \cup {Collector, Mutator}
Constraints == {"roots", "outgrowths"}

ASSUME GraphAssumption ==
    /\ Roots \subseteq Cells
    /\ Children \in [Cells -> SUBSET Cells] /\ Outgrowths \in [Cells -> SUBSET Cells]
ASSUME HelpersAssumption == IsFiniteSet(Helpers) /\ Collector \notin Helpers /\ Mutator \notin Helpers
ASSUME BoundsAssumption == MaxCollections \in Nat /\ MaxTimeouts \in Nat

VARIABLES marked,               \* the mark bits
          stack, shared,        \* each visitor's mark stack, and the heap's
          active, waiting,      \* m_numberOfActiveParallelMarkers, m_numberOfWaitingParallelMarkers
          shouldExit, bonus,    \* m_parallelMarkersShouldExit; m_bonusVisitorTask is set
          cond,                 \* who is blocked on m_markingConditionVariable
          clientTask,           \* m_helperClient has a task for the helper pool
          pc,
          concurrent,           \* the world runs: the phase is Concurrent
          iteration,            \* m_iteration of the constraint set, 3 standing for 3 and more
          todo, picked,         \* constraints left to pick, and the one each visitor runs
          visited,              \* didVisitSomething() of the solver
          gcIncrements,         \* the mutator marks too: the option gcIncrementScale is not 0
          elapsed,              \* the deadline of the collector's drain has passed
          timeouts, collections

marks == <<marked, stack, shared>>
counters == <<active, waiting>>
solver == <<iteration, todo, picked, visited>>
clock == <<elapsed, timeouts, gcIncrements>>
vars == <<marks, counters, shouldExit, bonus, cond, clientTask, pc, concurrent, solver, clock,
          collections>>

None == "none"
HelperLabels == {"idle", "enter", "top", "wait", "task", "drain", "leave"}
CollectorLabels == {"idle", "fixpoint", "converge", "task", "taskWait", "converged", "firstDrain",
                    "enter", "top", "wait", "drain", "drained", "concurrent", "passive", "stop",
                    "end", "finish", "finishWait"}
MutatorLabels == {"idle", "increment", "drain"}

TypeOK ==
    /\ marked \subseteq Cells /\ shared \subseteq Cells /\ stack \in [Visitors -> SUBSET Cells]
    /\ active \in Nat /\ waiting \in Nat
    /\ shouldExit \in BOOLEAN /\ bonus \in BOOLEAN /\ clientTask \in BOOLEAN
    /\ cond \subseteq Visitors
    /\ \A h \in Helpers : pc[h] \in HelperLabels
    /\ pc[Collector] \in CollectorLabels /\ pc[Mutator] \in MutatorLabels
    /\ concurrent \in BOOLEAN /\ elapsed \in BOOLEAN /\ visited \in BOOLEAN
    /\ iteration \in 1 .. 3 /\ todo \subseteq Constraints
    /\ picked \in [Visitors -> Constraints \cup {None}]
    /\ timeouts \in 0 .. MaxTimeouts /\ collections \in 0 .. MaxCollections
    /\ gcIncrements \in BOOLEAN

Init ==
    /\ marked = {} /\ shared = {} /\ stack = [v \in Visitors |-> {}]
    /\ active = 0 /\ waiting = 0
    /\ shouldExit = FALSE /\ bonus = FALSE /\ clientTask = FALSE /\ cond = {}
    /\ pc = [v \in Visitors |-> "idle"]
    /\ concurrent = FALSE /\ elapsed = FALSE /\ visited = FALSE
    /\ iteration = 1 /\ todo = {} /\ picked = [v \in Visitors |-> None]
    /\ timeouts = 0 /\ collections = 0 /\ gcIncrements \in BOOLEAN

Goto(v, l) == pc' = [pc EXCEPT ![v] = l]

-----------------------------------------------------------------------------
\* Mark stacks

\* hasWork and didReachTermination of v, with a active markers
HasWork(v) == stack[v] # {} \/ shared # {}

\* Mutant: the markers at work are not looked at
NoWorkInSight(v, a) == ~HasWork(v)

DidReachTermination(v, a) == a = 0 /\ ~HasWork(v)

\* setMarkedAndAppendToMarkStack for each of the cells: v keeps those it is the first to mark
Append(v, from, cells) ==
    /\ marked' = marked \cup cells
    /\ stack' = [stack EXCEPT ![v] = from \cup (cells \ marked)]
    /\ visited' = (visited \/ ~(cells \subseteq marked))

\* The size of the share stealSomeCellsFrom takes of n cells
CellsToSteal(n, idleThreadCount) == (n + idleThreadCount - 1) \div idleThreadCount

\* Leaves the critical section of drainFromShared to drain, with a active and w waiting markers
StealAndDrain(v, a, w) ==
    /\ \E S \in SUBSET shared :
          /\ Cardinality(S) = IF stack[v] = {} THEN CellsToSteal(Cardinality(shared), w) ELSE 0
          /\ stack' = [stack EXCEPT ![v] = @ \cup S]
          /\ shared' = shared \ S
    /\ active' = a + 1 /\ waiting' = w - 1
    /\ Goto(v, "drain")

Draining(v) == pc[v] \in {"drain", "firstDrain", "increment"}

\* drain, performIncrementOfDraining: one cell is visited
Visit(v) ==
    /\ Draining(v)
    /\ \E c \in stack[v] : Append(v, stack[v] \ {c}, Children[c])
    /\ pc' = IF pc[v] = "increment" THEN [pc EXCEPT ![v] = "drain"] ELSE pc
    /\ UNCHANGED <<shared, counters, shouldExit, bonus, cond, clientTask, concurrent, iteration, todo,
                   picked, clock, collections>>

\* donateKnownParallel: the test that the shared stack is empty is made before the lock is taken and
\* may be stale
DonateKnownParallel(v) ==
    /\ pc[v] \in {"drain", "firstDrain"} /\ Cardinality(stack[v]) >= 2
    /\ \E S \in SUBSET stack[v] :
          /\ Cardinality(S) = Cardinality(stack[v]) \div 2
          /\ stack' = [stack EXCEPT ![v] = @ \ S]
          /\ shared' = shared \cup S
    /\ cond' = {}
    /\ UNCHANGED <<marked, counters, shouldExit, bonus, clientTask, pc, concurrent, solver, clock,
                   collections>>

\* drain returns: the stack is empty, or the collector's deadline has passed
DrainReturns(v) ==
    /\ v # Mutator /\ pc[v] \in {"drain", "firstDrain"}
    /\ stack[v] = {} \/ (v = Collector /\ elapsed)
    /\ Goto(v, IF pc[v] = "firstDrain" THEN "enter" ELSE "top")
    /\ UNCHANGED <<marks, counters, shouldExit, bonus, cond, clientTask, concurrent, solver, clock,
                   collections>>

DonateAll(v) ==
    /\ shared' = shared \cup stack[v] /\ stack' = [stack EXCEPT ![v] = {}]
    /\ cond' = IF stack[v] = {} THEN cond ELSE {}
    /\ UNCHANGED marked

\* Mutant: a marker that was not active is counted out
CountedOut(v) == active - 1

\* The active markers when v locks m_markingMutex at the top of drainFromShared
ActiveAtTop(v) == IF pc[v] = "top" THEN active - 1 ELSE active

-----------------------------------------------------------------------------
\* Helper threads

\* ParallelHelperPool hands the client's task to a thread
ClaimTask(h) ==
    /\ pc[h] = "idle" /\ clientTask
    /\ Goto(h, "enter")
    /\ UNCHANGED <<marks, counters, shouldExit, bonus, cond, clientTask, concurrent, solver, clock,
                   collections>>

IsReady(h) == HasWork(h) \/ bonus \/ shouldExit

\* drainFromShared from the wait on, in a critical section entered with a active and w waiting
\* markers and with blocked on the condition variable
HelperWaitUntilReady(h, a, w, blocked) ==
    /\ \/ /\ ~IsReady(h)
          /\ Goto(h, "wait") /\ cond' = blocked \cup {h}
          /\ active' = a /\ waiting' = w
          /\ UNCHANGED <<stack, shared>>
       \/ /\ IsReady(h) /\ shouldExit
          /\ Goto(h, "leave") /\ cond' = blocked
          /\ active' = a /\ waiting' = w
          /\ UNCHANGED <<stack, shared>>
       \/ /\ IsReady(h) /\ ~shouldExit /\ ~HasWork(h) /\ bonus
          /\ Goto(h, "task") /\ cond' = blocked
          /\ active' = a + 1 /\ waiting' = w - 1
          /\ UNCHANGED <<stack, shared>>
       \/ /\ IsReady(h) /\ ~shouldExit /\ ~(~HasWork(h) /\ bonus)
          /\ StealAndDrain(h, a, w) /\ cond' = blocked
    /\ UNCHANGED <<marked, shouldExit, bonus, clientTask, concurrent, solver, clock, collections>>

\* Mutant: the last active marker does not notify
TopSilently(h) ==
    /\ pc[h] \in {"enter", "top"}
    /\ HelperWaitUntilReady(h, ActiveAtTop(h), waiting + 1, cond)

\* The top of the loop of drainFromShared: a marker that finds termination tells the others
HelperTop(h) ==
    /\ pc[h] \in {"enter", "top"}
    /\ LET a == ActiveAtTop(h) IN
       HelperWaitUntilReady(h, a, waiting + 1, IF DidReachTermination(h, a) THEN {} ELSE cond)

HelperWakes(h) ==
    /\ pc[h] = "wait" /\ h \notin cond
    /\ HelperWaitUntilReady(h, active, waiting, cond)

\* runTask: the helper has left drainFromShared and leaves the pool's client
HelperLeaves(h) ==
    /\ pc[h] = "leave"
    /\ Goto(h, "idle") /\ clientTask' = FALSE
    /\ UNCHANGED <<marks, counters, shouldExit, bonus, cond, concurrent, solver, clock, collections>>

-----------------------------------------------------------------------------
\* The constraint solver's task, run by the collector and by helpers

ConstraintAppends(k) == IF k = "roots" THEN Roots ELSE UNION {Outgrowths[c] : c \in marked}

\* pickNext has a constraint: drain() hands out all of its set, converge() stops at the first visit
CanPick == todo # {} /\ ~(iteration = 3 /\ visited)

PickNext(v) ==
    /\ pc[v] = "task" /\ picked[v] = None /\ CanPick
    /\ \E k \in todo : picked' = [picked EXCEPT ![v] = k] /\ todo' = todo \ {k}
    /\ UNCHANGED <<marks, counters, shouldExit, bonus, cond, clientTask, pc, concurrent, iteration,
                   visited, clock, collections>>

ExecuteConstraint(v) ==
    /\ pc[v] = "task" /\ picked[v] # None
    /\ Append(v, stack[v], ConstraintAppends(picked[v]))
    /\ picked' = [picked EXCEPT ![v] = None]
    /\ UNCHANGED <<shared, counters, shouldExit, bonus, cond, clientTask, pc, concurrent, iteration,
                   todo, clock, collections>>

\* The task returns; the visitor clears it and wakes everybody (drainFromShared, runTaskInParallel)
TaskReturns(v) ==
    /\ pc[v] = "task" /\ picked[v] = None /\ ~CanPick
    /\ bonus' = FALSE /\ cond' = {}
    /\ Goto(v, IF v = Collector THEN "taskWait" ELSE "top")
    /\ UNCHANGED <<marks, counters, shouldExit, clientTask, concurrent, solver, clock, collections>>

-----------------------------------------------------------------------------
\* The collector: the marking phases

\* runBeginPhase
BeginMarking ==
    /\ pc[Collector] = "idle" /\ collections < MaxCollections
    /\ collections' = collections + 1
    /\ marked' = {} /\ shouldExit' = FALSE /\ clientTask' = TRUE
    /\ iteration' = 1
    /\ Goto(Collector, "fixpoint")
    /\ UNCHANGED <<stack, shared, counters, bonus, cond, concurrent, todo, picked, visited, clock>>

\* runFixpointPhase: the termination check, and the call of drainInParallel when it fails
Fixpoint ==
    /\ pc[Collector] = "fixpoint"
    /\ IF DidReachTermination(Collector, active)
       THEN Goto(Collector, "converge") /\ UNCHANGED elapsed
       ELSE Goto(Collector, "firstDrain") /\ elapsed' = FALSE
    /\ UNCHANGED <<marks, counters, shouldExit, bonus, cond, clientTask, concurrent, solver, timeouts,
                   gcIncrements, collections>>

\* The constraints the iteration may run
ToExecute == CASE iteration = 1 -> {"roots"} [] iteration = 2 -> {"outgrowths"} [] OTHER -> Constraints

\* executeConvergence: a new solver sets the bonus task
ExecuteConvergence ==
    /\ pc[Collector] = "converge"
    /\ visited' = FALSE /\ todo' = ToExecute
    /\ bonus' = TRUE /\ cond' = {}
    /\ Goto(Collector, "task")
    /\ UNCHANGED <<marks, counters, shouldExit, clientTask, concurrent, iteration, picked, clock,
                   collections>>

\* converge() runs a constraint that promises quick work first, and alone
ConvergeQuickly ==
    /\ pc[Collector] = "converge" /\ iteration = 3
    /\ \E k \in Constraints :
          /\ marked' = marked \cup ConstraintAppends(k)
          /\ stack' = [stack EXCEPT ![Collector] = @ \cup (ConstraintAppends(k) \ marked)]
          /\ visited' = ~(ConstraintAppends(k) \subseteq marked)
          /\ todo' = IF visited' THEN {} ELSE Constraints \ {k}
    /\ IF visited'
       THEN Goto(Collector, "converged") /\ UNCHANGED <<bonus, cond>>
       ELSE Goto(Collector, "task") /\ bonus' = TRUE /\ cond' = {}
    /\ UNCHANGED <<shared, counters, shouldExit, clientTask, concurrent, iteration, picked, clock,
                   collections>>

\* Mutant: runTaskInParallel returns while helpers hold the task
NobodyHolds(h) == FALSE

\* runTaskInParallel waits until no helper holds the task
HoldsTask(h) == pc[h] = "task"
RunTaskInParallelWaits ==
    /\ pc[Collector] = "taskWait" /\ Collector \notin cond
    /\ IF \E h \in Helpers : HoldsTask(h)
       THEN cond' = cond \cup {Collector} /\ UNCHANGED pc
       ELSE Goto(Collector, "converged") /\ UNCHANGED cond
    /\ UNCHANGED <<marks, counters, shouldExit, bonus, clientTask, concurrent, solver, clock,
                   collections>>

\* runFixpointPhase: what executeConvergence returned
Converged == iteration = 3 /\ ~visited
DidExecuteConstraints ==
    /\ pc[Collector] = "converged"
    /\ iteration' = IF iteration = 3 THEN 3 ELSE iteration + 1
    /\ IF Converged /\ stack[Collector] = {}
       THEN Goto(Collector, "end") /\ UNCHANGED elapsed
       ELSE Goto(Collector, "firstDrain") /\ elapsed' = FALSE
    /\ UNCHANGED <<marks, counters, shouldExit, bonus, cond, clientTask, concurrent, todo, picked,
                   visited, timeouts, gcIncrements, collections>>

\* The deadline given to the collector's drain passes: timeToResume while the world is stopped,
\* timeToStop while it runs
TimeoutElapses ==
    /\ pc[Collector] \in {"firstDrain", "drain", "enter", "top", "wait", "passive"} /\ ~elapsed
    /\ elapsed' = TRUE
    /\ UNCHANGED <<marks, counters, shouldExit, bonus, cond, clientTask, pc, concurrent, solver,
                   gcIncrements, collections>>

TimeToResumeElapses ==
    /\ ~concurrent /\ timeouts < MaxTimeouts /\ timeouts' = timeouts + 1
    /\ TimeoutElapses

TimeToStopElapses == concurrent /\ UNCHANGED timeouts /\ TimeoutElapses

\* drainFromShared and waitForTermination return to the phase
DrainFromSharedReturns == Goto(Collector, IF concurrent THEN "stop" ELSE "drained")

\* The loop of drainFromShared for MainDrain, with a active and w waiting markers
MainWaitForWork(a, w) ==
    /\ \/ /\ elapsed
          /\ DrainFromSharedReturns
          /\ active' = a /\ waiting' = w /\ cond' = cond \ {Collector}
          /\ UNCHANGED <<stack, shared>>
       \/ /\ ~elapsed /\ DidReachTermination(Collector, a)
          /\ DrainFromSharedReturns
          /\ active' = a /\ waiting' = w /\ cond' = {}
          /\ UNCHANGED <<stack, shared>>
       \/ /\ ~elapsed /\ HasWork(Collector)
          /\ StealAndDrain(Collector, a, w)
          /\ UNCHANGED cond
       \/ /\ ~elapsed /\ a # 0 /\ ~HasWork(Collector)
          /\ Goto(Collector, "wait")
          /\ active' = a /\ waiting' = w /\ cond' = cond \cup {Collector}
          /\ UNCHANGED <<stack, shared>>
    /\ UNCHANGED <<marked, shouldExit, bonus, clientTask, concurrent, solver, clock, collections>>

MainTop ==
    /\ pc[Collector] \in {"enter", "top"}
    /\ MainWaitForWork(ActiveAtTop(Collector), waiting + 1)

MainWakes ==
    /\ pc[Collector] = "wait" /\ (Collector \notin cond \/ elapsed)
    /\ MainWaitForWork(active, waiting)

\* The end of runFixpointPhase: loops, or lets the world run
FixpointDrained ==
    /\ pc[Collector] = "drained"
    /\ \/ Goto(Collector, "fixpoint") /\ UNCHANGED concurrent
       \/ /\ ~DidReachTermination(Collector, active)
          /\ Goto(Collector, "concurrent") /\ concurrent' = TRUE
    /\ UNCHANGED <<marks, counters, shouldExit, bonus, cond, clientTask, solver, clock, collections>>

\* runConcurrentPhase when the mutator has the conn: polled, it stops the world or donates
ConcurrentPoll ==
    /\ pc[Collector] = "concurrent"
    /\ \/ Goto(Collector, "stop") /\ UNCHANGED <<marks, cond>>
       \/ /\ ~DidReachTermination(Collector, active)
          /\ DonateAll(Collector) /\ UNCHANGED pc
    /\ UNCHANGED <<counters, shouldExit, bonus, clientTask, concurrent, solver, clock, collections>>

\* drainInParallelPassively when the collector has the conn: it drains, or donates and waits
DrainInParallelPassively ==
    /\ pc[Collector] = "concurrent"
    /\ elapsed' = FALSE
    /\ \/ Goto(Collector, "firstDrain") /\ UNCHANGED <<marks, cond>>
       \/ Helpers # {} /\ Goto(Collector, "passive") /\ DonateAll(Collector)
    /\ UNCHANGED <<counters, shouldExit, bonus, clientTask, concurrent, solver, timeouts, gcIncrements,
                   collections>>

WaitForTermination ==
    /\ pc[Collector] = "passive" /\ (Collector \notin cond \/ elapsed)
    /\ \/ elapsed /\ DrainFromSharedReturns /\ cond' = cond \ {Collector}
       \/ ~elapsed /\ DidReachTermination(Collector, active) /\ DrainFromSharedReturns /\ cond' = {}
       \/ /\ ~elapsed /\ ~DidReachTermination(Collector, active)
          /\ cond' = cond \cup {Collector} /\ UNCHANGED pc
    /\ UNCHANGED <<marks, counters, shouldExit, bonus, clientTask, concurrent, solver, clock,
                   collections>>

\* The change to the Reloop phase stops the world; runReloopPhase goes on to the fixpoint phase
StopTheWorld ==
    /\ pc[Collector] = "stop" /\ pc[Mutator] = "idle"
    /\ concurrent' = FALSE
    /\ Goto(Collector, "fixpoint")
    /\ UNCHANGED <<marks, counters, shouldExit, bonus, cond, clientTask, solver, clock, collections>>

\* runEndPhase
EndMarking ==
    /\ pc[Collector] = "end"
    /\ shouldExit' = TRUE /\ cond' = {}
    /\ Goto(Collector, "finish")
    /\ UNCHANGED <<marks, counters, bonus, clientTask, concurrent, solver, clock, collections>>

FinishClears ==
    /\ pc[Collector] = "finish"
    /\ clientTask' = FALSE
    /\ Goto(Collector, "finishWait")
    /\ UNCHANGED <<marks, counters, shouldExit, bonus, cond, concurrent, solver, clock, collections>>

FinishReturns ==
    /\ pc[Collector] = "finishWait" /\ \A h \in Helpers : pc[h] = "idle"
    /\ Goto(Collector, "idle")
    /\ UNCHANGED <<marks, counters, shouldExit, bonus, cond, clientTask, concurrent, solver, clock,
                   collections>>

-----------------------------------------------------------------------------
\* The mutator: performIncrementOfDraining, while the world runs

IncrementBegins ==
    /\ gcIncrements /\ pc[Mutator] = "idle" /\ concurrent
    /\ \E S \in (SUBSET shared) \ {{}} :
          stack' = [stack EXCEPT ![Mutator] = S] /\ shared' = shared \ S
    /\ Goto(Mutator, "increment")
    /\ UNCHANGED <<marked, counters, shouldExit, bonus, cond, clientTask, concurrent, solver, clock,
                   collections>>

\* At least one cell has been visited; what is left goes to the shared stack
IncrementReturns ==
    /\ pc[Mutator] = "drain"
    /\ DonateAll(Mutator)
    /\ Goto(Mutator, "idle")
    /\ UNCHANGED <<counters, shouldExit, bonus, clientTask, concurrent, solver, clock, collections>>

-----------------------------------------------------------------------------
VisitorStep(v) == Visit(v) \/ DonateKnownParallel(v) \/ DrainReturns(v)
TaskStep(v) == PickNext(v) \/ ExecuteConstraint(v) \/ TaskReturns(v)
HelperStep(h) == ClaimTask(h) \/ HelperTop(h) \/ HelperWakes(h) \/ HelperLeaves(h) \/ TaskStep(h)
MutatorStep == IncrementBegins \/ IncrementReturns
CollectorStep ==
    \/ Fixpoint \/ ExecuteConvergence \/ ConvergeQuickly \/ TaskStep(Collector)
    \/ RunTaskInParallelWaits \/ DidExecuteConstraints
    \/ MainTop \/ MainWakes \/ FixpointDrained
    \/ ConcurrentPoll \/ DrainInParallelPassively \/ WaitForTermination \/ StopTheWorld
    \/ EndMarking \/ FinishClears \/ FinishReturns

Next ==
    \/ BeginMarking \/ TimeToResumeElapses \/ TimeToStopElapses \/ CollectorStep \/ MutatorStep
    \/ \E h \in Helpers : HelperStep(h)
    \/ \E v \in Visitors : VisitorStep(v)

Spec == Init /\ [][Next]_vars

\* Every thread runs: the helpers and the collector take the steps they can take, and the mutator
\* ends the increments it begins.  No increment or collection has to begin.  timeToStop is finite where
\* the mutator does increments: overrideDefaults turns them on only with the SpaceTime scheduler.
FairSpec ==
    /\ Spec
    /\ WF_vars(CollectorStep) /\ WF_vars(IncrementReturns)
    /\ WF_vars(gcIncrements /\ TimeToStopElapses)
    /\ \A h \in Helpers : WF_vars(HelperStep(h))
    /\ \A v \in Visitors : WF_vars(Visit(v)) /\ WF_vars(DrainReturns(v))

-----------------------------------------------------------------------------
\* What a collection has to mark: the least set with the roots, closed under children and outgrowths
Closed(S) == Roots \subseteq S /\ \A c \in S : Children[c] \cup Outgrowths[c] \subseteq S
Live == {c \in Cells : \A S \in SUBSET Cells : Closed(S) => c \in S}

NoWorkAnywhere == shared = {} /\ \A v \in Visitors : stack[v] = {}

\* assertMarkStacksEmpty holds at both its calls in runFixpointPhase although the check before it sees
\* only the counter, the shared stack and the collector's own stack, and runBeginPhase finds
\* termination before it runs a constraint.  runTaskInParallel returns to the solver only when the
\* task has ended in every thread, and no helper is left in drainFromShared when runEndPhase goes on
\* after m_helperClient.finish().
MarkStacksEmpty ==
    /\ pc[Collector] \in {"converge", "end", "finish", "finishWait", "idle"} => NoWorkAnywhere
    /\ pc[Collector] = "converged" => \A h \in Helpers : pc[h] # "task" /\ picked[h] = None
    /\ pc[Collector] = "idle" => active = 0 /\ \A h \in Helpers : pc[h] = "idle"

\* When the fixpoint phase ends every cell that the roots, the children and the outgrowth constraints
\* lead to is marked, and no other: no cell is lost between stacks, and no constraint that could still
\* produce is skipped.
MarkingComplete == pc[Collector] \in {"end", "finish", "finishWait"} => marked = Live

\* A collection ends: no marker sleeps through the termination it should report or through the work,
\* the task or the exit it should take up.
CollectionEnds == pc[Collector] # "idle" ~> pc[Collector] = "idle"

\* "N is the number of idle threads" (MarkStack.cpp): the count by which the shared stack is divided
\* is the number of markers that wait in drainFromShared.
WaitingAreIdle == waiting = Cardinality({v \in Visitors : pc[v] = "wait"})

=============================================================================

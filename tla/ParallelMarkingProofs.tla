------------------------ MODULE ParallelMarkingProofs ------------------------
(***************************************************************************)
(* Parallel marking, for any heap, any number of helper threads and any    *)
(* bounds: the counts of markers are right, termination is found only when *)
(* no mark stack has a cell, and a collection marks exactly the live cells.*)
(*                                                                         *)
(* The inductive invariant says who counts as active and who has cells on  *)
(* a stack at each label (so that the counter, the shared stack and the    *)
(* collector's own stack tell of all stacks), that a marked cell is on a   *)
(* stack or has marked children, and that a solver which has visited       *)
(* nothing has run each of its constraints, or will.                       *)
(***************************************************************************)
EXTENDS ParallelMarking, FiniteSetTheorems, TLAPS

Labels == HelperLabels \cup CollectorLabels \cup MutatorLabels

\* Who counts as an active marker at a label, and who waits in drainFromShared
ActiveAt(v, l) == IF v = Collector THEN l \in {"drain", "top"}
                                   ELSE v # Mutator /\ l \in {"drain", "task", "top"}
ActiveSet == {v \in Visitors : ActiveAt(v, pc[v])}
Waiters == {v \in Visitors : pc[v] = "wait"}

Types == TypeOK /\ pc \in [Visitors -> Labels]

Counted == active = Cardinality(ActiveSet) /\ Cardinality(Waiters) <= waiting

\* Where the collector is while the world runs
Running == {"concurrent", "passive", "stop", "firstDrain", "enter", "top", "wait", "drain"}

Control ==
    /\ pc[Mutator] # "idle" => concurrent
    /\ concurrent => pc[Collector] \in Running
    /\ bonus => pc[Collector] = "task"
    /\ shouldExit => pc[Collector] \in {"finish", "finishWait", "idle"}
    /\ clientTask => pc[Collector] \notin {"finishWait", "idle"}
    /\ pc[Collector] = "converge" => active = 0
    /\ \A h \in Helpers : /\ pc[Collector] = "idle" => pc[h] = "idle"
                          /\ pc[h] = "task" => pc[Collector] \in {"task", "taskWait"}
    /\ \A v \in Visitors : picked[v] # None => pc[v] = "task"

\* Only a marker at work has cells on its stack, the collector apart
StackLabels ==
    \A v \in Visitors \ {Collector} : stack[v] # {} =>
        pc[v] \in IF v = Mutator THEN {"increment", "drain"} ELSE {"drain", "task", "top"}

\* Marked cells are live, and those whose children are not marked are on a stack
Grey(c) == c \in shared \/ \E v \in Visitors : c \in stack[v]

Colours ==
    /\ marked \subseteq Live
    /\ \A c \in Cells : Grey(c) => c \in marked
    /\ \A c \in marked : Grey(c) \/ Children[c] \subseteq marked

Quiet == {"converge", "end", "finish", "finishWait", "idle"}
Solving == {"task", "taskWait", "converged"}

\* No cell is on a stack where termination was found and nothing was visited since
Quiescent == pc[Collector] \in Quiet \/ (pc[Collector] \in Solving /\ ~visited) => NoWorkAnywhere

\* A solver that has not visited anything has run its constraints or will
Solved ==
    /\ pc[Collector] \in Solving /\ ~visited =>
          \A k \in ToExecute : \/ k \in todo
                               \/ \E v \in Visitors : picked[v] = k
                               \/ ConstraintAppends(k) \subseteq marked
    /\ pc[Collector] \in {"taskWait", "converged"} => todo = {} \/ visited
    /\ pc[Collector] \in {"end", "finish", "finishWait"} => marked = Live

IInv == Types /\ Counted /\ Control /\ StackLabels /\ Colours /\ Quiescent /\ Solved

-----------------------------------------------------------------------------

\* The names of the visitors are different.
LEMMA VisitorFacts ==
    /\ Collector # Mutator /\ Collector \in Visitors /\ Mutator \in Visitors
    /\ Helpers \subseteq Visitors /\ Collector \notin Helpers /\ Mutator \notin Helpers
    /\ IsFiniteSet(Visitors)
<1>1. IsFiniteSet({Collector, Mutator})
  <2>1. IsFiniteSet({Collector})
    BY FS_Singleton, Zenon
  <2>2. IsFiniteSet({Collector} \cup {Mutator})
    BY <2>1, FS_AddElement, Zenon
  <2>3. {Collector} \cup {Mutator} = {Collector, Mutator}
    BY Zenon
  <2> QED BY <2>2, <2>3, Zenon
<1>2. IsFiniteSet(Helpers \cup {Collector, Mutator})
  BY <1>1, HelpersAssumption, FS_Union, Zenon
<1>3. Collector # Mutator
  BY Zenon DEF Collector, Mutator
<1> QED BY <1>2, <1>3, HelpersAssumption, Zenon DEF Visitors

\* The live cells are closed, and every closed set has them.
LEMMA LiveFacts ==
    /\ Live \subseteq Cells /\ Closed(Live)
    /\ \A S \in SUBSET Cells : Closed(S) => Live \subseteq S
<1>1. Live \subseteq Cells /\ \A S \in SUBSET Cells : Closed(S) => Live \subseteq S
  BY Zenon DEF Live
<1>2. Roots \subseteq Live
  BY GraphAssumption, Zenon DEF Live, Closed
<1>3. ASSUME NEW c \in Live PROVE Children[c] \cup Outgrowths[c] \subseteq Live
  <2>1. Children[c] \cup Outgrowths[c] \subseteq Cells
    BY <1>1, GraphAssumption, Zenon
  <2>2. ASSUME NEW S \in SUBSET Cells, Closed(S) PROVE Children[c] \cup Outgrowths[c] \subseteq S
    BY <1>1, <2>2, Zenon DEF Closed
  <2> QED BY <2>1, <2>2, Zenon DEF Live
<1> QED BY <1>1, <1>2, <1>3, Zenon DEF Closed

\* What the counters say.
LEMMA CountFacts ==
    ASSUME IInv
    PROVE  /\ IsFiniteSet(ActiveSet) /\ IsFiniteSet(Waiters)
           /\ Cardinality(ActiveSet) \in Nat /\ Cardinality(Waiters) \in Nat
           /\ active = 0 => ActiveSet = {}
           /\ \A v \in ActiveSet : active >= 1
           /\ \A v \in Waiters : waiting >= 1
           /\ active \in Nat /\ waiting \in Nat
<1>1. IsFiniteSet(ActiveSet) /\ IsFiniteSet(Waiters)
  BY VisitorFacts, FS_Subset, Zenon DEF ActiveSet, Waiters
<1>2. Cardinality(ActiveSet) \in Nat /\ Cardinality(Waiters) \in Nat
  BY <1>1, FS_CardinalityType, Zenon
<1>3. /\ Cardinality(ActiveSet) = 0 <=> ActiveSet = {}
      /\ Cardinality(Waiters) = 0 <=> Waiters = {}
  BY <1>1, FS_EmptySet, Zenon
<1>4. active = Cardinality(ActiveSet) /\ Cardinality(Waiters) <= waiting /\ waiting \in Nat
  BY Zenon DEF IInv, Counted, Types, TypeOK
<1> QED BY <1>1, <1>2, <1>3, <1>4

\* One element more or less
LEMMA CardMove ==
    ASSUME NEW S, IsFiniteSet(S), NEW x
    PROVE  /\ Cardinality(S \cup {x}) = Cardinality(S) + (IF x \in S THEN 0 ELSE 1)
           /\ Cardinality(S \ {x}) = Cardinality(S) - (IF x \in S THEN 1 ELSE 0)
<1>1. Cardinality(S) \in Nat
  BY FS_CardinalityType, Zenon
<1>2. Cardinality(S \cup {x}) = Cardinality(S) + (IF x \in S THEN 0 ELSE 1)
  BY <1>1, FS_AddElement
<1>3. Cardinality(S \ {x}) = Cardinality(S) - (IF x \in S THEN 1 ELSE 0)
  BY <1>1, FS_RemoveElement
<1> QED BY <1>2, <1>3, Zenon

One(b) == IF b THEN 1 ELSE 0

\* A visitor that moves is counted if the counters change as its label does.
LEMMA CountMove ==
    ASSUME IInv, NEW v \in Visitors, NEW l \in Labels, pc' = [pc EXCEPT ![v] = l],
           active' = active - One(ActiveAt(v, pc[v])) + One(ActiveAt(v, l)),
           waiting' \in Nat, waiting' >= waiting - One(pc[v] = "wait") + One(l = "wait")
    PROVE  Counted' /\ active' \in Nat
<1>0. /\ pc'[v] = l /\ \A u \in Visitors \ {v} : pc'[u] = pc[u]
  BY Zenon DEF IInv, Types
<1>1. active' = Cardinality(ActiveSet')
  <2>1. CASE ActiveAt(v, l)
    <3>1. ActiveSet' = ActiveSet \cup {v}
      BY <2>1, <1>0, Zenon DEF ActiveSet
    <3>2. Cardinality(ActiveSet') = Cardinality(ActiveSet) + (IF v \in ActiveSet THEN 0 ELSE 1)
      BY <3>1, CountFacts, CardMove, Zenon
    <3>3. v \in ActiveSet <=> ActiveAt(v, pc[v])
      BY Zenon DEF ActiveSet
    <3> QED BY <3>2, <3>3, <2>1, CountFacts DEF One, IInv, Counted
  <2>2. CASE ~ActiveAt(v, l)
    <3>1. ActiveSet' = ActiveSet \ {v}
      BY <2>2, <1>0, Zenon DEF ActiveSet
    <3>2. Cardinality(ActiveSet') = Cardinality(ActiveSet) - (IF v \in ActiveSet THEN 1 ELSE 0)
      BY <3>1, CountFacts, CardMove, Zenon
    <3>3. v \in ActiveSet <=> ActiveAt(v, pc[v])
      BY Zenon DEF ActiveSet
    <3> QED BY <3>2, <3>3, <2>2, CountFacts DEF One, IInv, Counted
  <2> QED BY <2>1, <2>2, Zenon
<1>2. Cardinality(Waiters') <= waiting'
  <2>1. CASE l = "wait"
    <3>1. Waiters' = Waiters \cup {v}
      BY <2>1, <1>0, Zenon DEF Waiters
    <3>2. Cardinality(Waiters') = Cardinality(Waiters) + (IF v \in Waiters THEN 0 ELSE 1)
      BY <3>1, CountFacts, CardMove, Zenon
    <3>3. v \in Waiters <=> pc[v] = "wait"
      BY Zenon DEF Waiters
    <3> QED BY <3>2, <3>3, <2>1, CountFacts DEF One, IInv, Counted
  <2>2. CASE l # "wait"
    <3>1. Waiters' = Waiters \ {v}
      BY <2>2, <1>0, Zenon DEF Waiters
    <3>2. Cardinality(Waiters') = Cardinality(Waiters) - (IF v \in Waiters THEN 1 ELSE 0)
      BY <3>1, CountFacts, CardMove, Zenon
    <3>3. v \in Waiters <=> pc[v] = "wait"
      BY Zenon DEF Waiters
    <3> QED BY <3>2, <3>3, <2>2, CountFacts DEF One, IInv, Counted
  <2> QED BY <2>1, <2>2, Zenon
<1>3. active' \in Nat
  <2>1. IsFiniteSet(ActiveSet')
    BY VisitorFacts, FS_Subset, Zenon DEF ActiveSet
  <2> QED BY <2>1, <1>1, FS_CardinalityType, Zenon
<1> QED BY <1>1, <1>2, <1>3, Zenon DEF Counted
-----------------------------------------------------------------------------
(* The counters.                                                           *)

\* A step that leaves the counters alone moves nobody in or out of them.
LEMMA CountSame ==
    ASSUME IInv, UNCHANGED counters,
           \/ UNCHANGED pc
           \/ \E v \in Visitors, l \in Labels :
                /\ pc' = [pc EXCEPT ![v] = l]
                /\ ActiveAt(v, pc[v]) <=> ActiveAt(v, l)
                /\ l # "wait"
    PROVE  Counted' /\ active' \in Nat /\ waiting' \in Nat
<1>0. active' = active /\ waiting' = waiting /\ active \in Nat /\ waiting \in Nat
  BY CountFacts, Zenon DEF counters
<1>1. CASE UNCHANGED pc
  BY <1>0, <1>1, Zenon DEF IInv, Counted, ActiveSet, Waiters
<1>2. ASSUME NEW v \in Visitors, NEW l \in Labels, pc' = [pc EXCEPT ![v] = l],
             ActiveAt(v, pc[v]) <=> ActiveAt(v, l), l # "wait"
      PROVE  Counted'
  <2>1. active' = active - One(ActiveAt(v, pc[v])) + One(ActiveAt(v, l))
    BY <1>0, <1>2 DEF One
  <2>2. waiting' \in Nat /\ waiting' >= waiting - One(pc[v] = "wait") + One(l = "wait")
    BY <1>0, <1>2 DEF One
  <2> QED BY <1>2, <2>1, <2>2, CountMove, Zenon
<1> QED BY <1>0, <1>1, <1>2, Zenon

\* A marker that enters or leaves the wait of drainFromShared is counted.
LEMMA CountWait ==
    ASSUME IInv, NEW v \in Visitors \ {Mutator}, pc[v] \in {"enter", "top", "wait"},
           NEW a, a = ActiveAtTop(v), NEW w, w = IF pc[v] = "wait" THEN waiting ELSE waiting + 1,
           \/ StealAndDrain(v, a, w)
           \/ v # Collector /\ Goto(v, "task") /\ active' = a + 1 /\ waiting' = w - 1
           \/ /\ \E l \in {"wait", "leave", "stop", "drained"} : Goto(v, l)
              /\ active' = a /\ waiting' = w
    PROVE  Counted' /\ active' \in Nat /\ waiting' \in Nat
<1>0. active \in Nat /\ waiting \in Nat /\ (pc[v] = "wait" => waiting >= 1)
  BY CountFacts, Zenon DEF Waiters
<1>1. a = active - One(ActiveAt(v, pc[v]))
  BY <1>0 DEF ActiveAtTop, One, ActiveAt
<1>2. CASE StealAndDrain(v, a, w)
  <2>1. pc' = [pc EXCEPT ![v] = "drain"] /\ active' = a + 1 /\ waiting' = w - 1
    BY <1>2, Zenon DEF StealAndDrain, Goto
  <2>2. active' = active - One(ActiveAt(v, pc[v])) + One(ActiveAt(v, "drain"))
    BY <2>1, <1>0, <1>1, Zenon DEF One, ActiveAt
  <2>3. waiting' \in Nat /\ waiting' >= waiting - One(pc[v] = "wait") + One("drain" = "wait")
    BY <2>1, <1>0 DEF One
  <2>4. "drain" \in Labels
    BY Zenon DEF Labels, HelperLabels
  <2> QED BY <2>1, <2>2, <2>3, <2>4, CountMove, Zenon
<1>3. CASE v # Collector /\ Goto(v, "task") /\ active' = a + 1 /\ waiting' = w - 1
  <2>1. pc' = [pc EXCEPT ![v] = "task"]
    BY <1>3, Zenon DEF Goto
  <2>2. active' = active - One(ActiveAt(v, pc[v])) + One(ActiveAt(v, "task"))
    BY <1>3, <1>0, <1>1, Zenon DEF One, ActiveAt
  <2>3. waiting' \in Nat /\ waiting' >= waiting - One(pc[v] = "wait") + One("task" = "wait")
    BY <1>3, <1>0 DEF One
  <2>4. "task" \in Labels
    BY Zenon DEF Labels, HelperLabels
  <2> QED BY <2>1, <2>2, <2>3, <2>4, CountMove, Zenon
<1>4. ASSUME NEW l \in {"wait", "leave", "stop", "drained"}, Goto(v, l), active' = a, waiting' = w
      PROVE  Counted' /\ active' \in Nat /\ waiting' \in Nat
  <2>1. pc' = [pc EXCEPT ![v] = l]
    BY <1>4, Zenon DEF Goto
  <2>2. active' = active - One(ActiveAt(v, pc[v])) + One(ActiveAt(v, l))
    BY <1>4, <1>0, <1>1 DEF One, ActiveAt
  <2>3. waiting' \in Nat /\ waiting' >= waiting - One(pc[v] = "wait") + One(l = "wait")
    BY <1>4, <1>0 DEF One
  <2>4. l \in Labels
    BY Zenon DEF Labels, HelperLabels, CollectorLabels
  <2> QED BY <2>1, <2>2, <2>3, <2>4, CountMove, Zenon
<1> QED BY <1>2, <1>3, <1>4, Zenon

\* Every step keeps the markers counted.
LEMMA CountStep == ASSUME IInv, Next PROVE Counted' /\ active' \in Nat /\ waiting' \in Nat
<1> USE VisitorFacts DEF Labels, HelperLabels, CollectorLabels, MutatorLabels, ActiveAt
<1>1. ASSUME NEW v \in Visitors, VisitorStep(v)
      PROVE  Counted' /\ active' \in Nat /\ waiting' \in Nat
  <2>1. CASE Visit(v)
    <3>1. /\ UNCHANGED counters
          /\ pc' = IF pc[v] = "increment" THEN [pc EXCEPT ![v] = "drain"] ELSE pc
      BY <2>1, Zenon DEF Visit
    <3>2. CASE pc[v] = "increment"
      <4>1. v = Mutator
        BY <3>2, Zenon DEF IInv, Types, TypeOK, Visitors
      <4> QED BY <3>1, <3>2, <4>1, CountSame, Zenon
    <3>3. CASE pc[v] # "increment"
      <4>1. pc' = pc
        BY <3>1, <3>3, Zenon
      <4> QED BY <3>1, <4>1, CountSame, Zenon
    <3> QED BY <3>2, <3>3, Zenon
  <2>2. CASE DonateKnownParallel(v)
    BY <2>2, CountSame, Zenon DEF DonateKnownParallel
  <2>3. CASE DrainReturns(v)
    <3>1. /\ UNCHANGED counters
          /\ \/ pc[v] = "firstDrain" /\ pc' = [pc EXCEPT ![v] = "enter"]
             \/ pc[v] = "drain" /\ pc' = [pc EXCEPT ![v] = "top"]
      BY <2>3, Zenon DEF DrainReturns, Goto
    <3>2. v # Mutator
      BY <2>3, Zenon DEF DrainReturns
    <3> QED BY <3>1, <3>2, CountSame, Zenon
  <2> QED BY <1>1, <2>1, <2>2, <2>3, Zenon DEF VisitorStep
<1>2. ASSUME NEW v \in Visitors, v # Mutator, TaskStep(v)
      PROVE  Counted' /\ active' \in Nat /\ waiting' \in Nat
  <2>1. CASE PickNext(v) \/ ExecuteConstraint(v)
    BY <2>1, CountSame, Zenon DEF PickNext, ExecuteConstraint
  <2>2. CASE TaskReturns(v)
    <3>1. /\ UNCHANGED counters /\ pc[v] = "task"
          /\ pc' = [pc EXCEPT ![v] = IF v = Collector THEN "taskWait" ELSE "top"]
      BY <2>2, Zenon DEF TaskReturns, Goto
    <3> QED BY <3>1, <1>2, CountSame, Zenon
  <2> QED BY <1>2, <2>1, <2>2, Zenon DEF TaskStep
<1>3. ASSUME NEW h \in Helpers, HelperStep(h)
      PROVE  Counted' /\ active' \in Nat /\ waiting' \in Nat
  <2>1. CASE ClaimTask(h) \/ HelperLeaves(h)
    <3>1. /\ UNCHANGED counters /\ pc[h] \in {"idle", "leave"}
          /\ \E l \in {"idle", "enter"} : pc' = [pc EXCEPT ![h] = l]
      BY <2>1, Zenon DEF ClaimTask, HelperLeaves, Goto
    <3> QED BY <3>1, CountSame, Zenon
  <2>2. CASE HelperTop(h)
    <3>1. PICK b : HelperWaitUntilReady(h, ActiveAtTop(h), waiting + 1, b)
      BY <2>2, Zenon DEF HelperTop
    <3>2. pc[h] \in {"enter", "top"}
      BY <2>2, Zenon DEF HelperTop
    <3> QED BY <3>1, <3>2, CountWait, Zenon DEF HelperWaitUntilReady
  <2>3. CASE HelperWakes(h)
    <3>1. HelperWaitUntilReady(h, ActiveAtTop(h), waiting, cond) /\ pc[h] = "wait"
      BY <2>3, Zenon DEF HelperWakes, ActiveAtTop
    <3> QED BY <3>1, CountWait, Zenon DEF HelperWaitUntilReady
  <2>4. CASE TaskStep(h)
    BY <2>4, <1>2, Zenon
  <2> QED BY <1>3, <2>1, <2>2, <2>3, <2>4, Zenon DEF HelperStep
<1>4. CASE CollectorStep
  <2>1. CASE MainTop
    <3>1. MainWaitForWork(ActiveAtTop(Collector), waiting + 1) /\ pc[Collector] \in {"enter", "top"}
      BY <2>1, Zenon DEF MainTop
    <3> QED BY <3>1, CountWait, Zenon DEF MainWaitForWork, DrainFromSharedReturns
  <2>2. CASE MainWakes
    <3>1. MainWaitForWork(ActiveAtTop(Collector), waiting) /\ pc[Collector] = "wait"
      BY <2>2, Zenon DEF MainWakes, ActiveAtTop
    <3> QED BY <3>1, CountWait, Zenon DEF MainWaitForWork, DrainFromSharedReturns
  <2>3. CASE TaskStep(Collector)
    BY <2>3, <1>2, Zenon
  <2>4. CASE ~(MainTop \/ MainWakes \/ TaskStep(Collector))
    <3>1. UNCHANGED counters /\ pc[Collector] \notin {"drain", "top"}
      BY <1>4, <2>4, Zenon DEF CollectorStep, Fixpoint, ExecuteConvergence, ConvergeQuickly,
         RunTaskInParallelWaits, DidExecuteConstraints, FixpointDrained, ConcurrentPoll,
         DrainInParallelPassively, WaitForTermination, StopTheWorld, EndMarking, FinishClears,
         FinishReturns
    <3>2. UNCHANGED pc \/ \E l \in CollectorLabels \ {"wait", "drain", "top"} :
                              pc' = [pc EXCEPT ![Collector] = l]
      BY <1>4, <2>4, Zenon DEF CollectorStep, Fixpoint, ExecuteConvergence, ConvergeQuickly,
         RunTaskInParallelWaits, DidExecuteConstraints, FixpointDrained, ConcurrentPoll,
         DrainInParallelPassively, WaitForTermination, StopTheWorld, EndMarking, FinishClears,
         FinishReturns, DrainFromSharedReturns, Goto
    <3> QED BY <3>1, <3>2, CountSame, Zenon
  <2> QED BY <2>1, <2>2, <2>3, <2>4, Zenon
<1>5. CASE BeginMarking
  <2>1. /\ UNCHANGED counters /\ pc[Collector] = "idle"
        /\ pc' = [pc EXCEPT ![Collector] = "fixpoint"]
    BY <1>5, Zenon DEF BeginMarking, Goto
  <2> QED BY <2>1, CountSame, Zenon
<1>6. CASE TimeToResumeElapses \/ TimeToStopElapses
  BY <1>6, CountSame, Zenon DEF TimeToResumeElapses, TimeToStopElapses, TimeoutElapses
<1>7. CASE MutatorStep
  <2>1. UNCHANGED counters /\ \E l \in {"increment", "idle"} : pc' = [pc EXCEPT ![Mutator] = l]
    BY <1>7, Zenon DEF MutatorStep, IncrementBegins, IncrementReturns, Goto
  <2> QED BY <2>1, CountSame, Zenon
<1> QED BY <1>1, <1>3, <1>4, <1>5, <1>6, <1>7, Zenon DEF Next
-----------------------------------------------------------------------------
(* Types.                                                                  *)

\* A label of the kind that v has
LabelOf(v, l) == l \in IF v = Collector THEN CollectorLabels
                       ELSE IF v = Mutator THEN MutatorLabels ELSE HelperLabels

\* A visitor that moves to one of its labels keeps pc well typed.
LEMMA PCMove ==
    ASSUME Types, NEW v \in Visitors, NEW l, LabelOf(v, l), pc' = [pc EXCEPT ![v] = l]
    PROVE  /\ pc' \in [Visitors -> Labels] /\ \A h \in Helpers : pc'[h] \in HelperLabels
           /\ pc'[Collector] \in CollectorLabels /\ pc'[Mutator] \in MutatorLabels
<1>1. l \in Labels
  BY Zenon DEF LabelOf, Labels
<1>2. pc' \in [Visitors -> Labels] /\ \A u \in Visitors : pc'[u] = IF u = v THEN l ELSE pc[u]
  BY <1>1, Zenon DEF Types
<1> QED BY <1>2, VisitorFacts, Zenon DEF Types, TypeOK, LabelOf

\* Every step leaves a visitor at a label of its own code.
LEMMA PCStep ==
    ASSUME IInv, Next
    PROVE  /\ pc' \in [Visitors -> Labels] /\ \A h \in Helpers : pc'[h] \in HelperLabels
           /\ pc'[Collector] \in CollectorLabels /\ pc'[Mutator] \in MutatorLabels
<1> USE VisitorFacts DEF LabelOf, HelperLabels, CollectorLabels, MutatorLabels
<1>0. Types
  BY Zenon DEF IInv
<1>1. CASE UNCHANGED pc
  BY <1>0, <1>1, Zenon DEF Types, TypeOK
<1>2. ASSUME NEW v \in Visitors, NEW l, LabelOf(v, l), pc' = [pc EXCEPT ![v] = l]
      PROVE  /\ pc' \in [Visitors -> Labels] /\ \A h \in Helpers : pc'[h] \in HelperLabels
             /\ pc'[Collector] \in CollectorLabels /\ pc'[Mutator] \in MutatorLabels
  BY <1>0, <1>2, PCMove, Zenon
<1>3. ASSUME NEW v \in Visitors, VisitorStep(v)
      PROVE  UNCHANGED pc \/ \E l : LabelOf(v, l) /\ pc' = [pc EXCEPT ![v] = l]
  <2>1. CASE Visit(v)
    <3>1. pc' = IF pc[v] = "increment" THEN [pc EXCEPT ![v] = "drain"] ELSE pc
      BY <2>1, Zenon DEF Visit
    <3>2. LabelOf(v, "drain")
      BY Zenon
    <3>3. CASE pc[v] = "increment"
      BY <3>1, <3>2, <3>3, Zenon
    <3>4. CASE pc[v] # "increment"
      BY <3>1, <3>4, Zenon
    <3> QED BY <3>3, <3>4, Zenon
  <2>2. CASE DonateKnownParallel(v)
    BY <2>2, Zenon DEF DonateKnownParallel
  <2>3. CASE DrainReturns(v)
    <3>1. v # Mutator /\ (pc' = [pc EXCEPT ![v] = "enter"] \/ pc' = [pc EXCEPT ![v] = "top"])
      BY <2>3, Zenon DEF DrainReturns, Goto
    <3>2. LabelOf(v, "enter") /\ LabelOf(v, "top")
      BY <3>1, Zenon
    <3> QED BY <3>1, <3>2, Zenon
  <2> QED BY <1>3, <2>1, <2>2, <2>3, Zenon DEF VisitorStep
<1>4. ASSUME NEW h \in Helpers, HelperStep(h)
      PROVE  UNCHANGED pc \/ \E l : LabelOf(h, l) /\ pc' = [pc EXCEPT ![h] = l]
  <2>1. UNCHANGED pc \/ \E l \in HelperLabels : pc' = [pc EXCEPT ![h] = l]
    BY <1>4, Zenon DEF HelperStep, ClaimTask, HelperTop, HelperWakes, HelperLeaves, TaskStep, PickNext,
       ExecuteConstraint, TaskReturns, HelperWaitUntilReady, StealAndDrain, Goto
  <2> QED BY <2>1, Zenon
<1>5. CASE CollectorStep \/ BeginMarking
  <2>1. UNCHANGED pc \/ \E l \in CollectorLabels : pc' = [pc EXCEPT ![Collector] = l]
    BY <1>5, Zenon DEF CollectorStep, BeginMarking, Fixpoint, ExecuteConvergence, ConvergeQuickly, TaskStep,
       PickNext, ExecuteConstraint, TaskReturns, RunTaskInParallelWaits, DidExecuteConstraints,
       MainTop, MainWakes, MainWaitForWork, StealAndDrain, FixpointDrained, ConcurrentPoll,
       DrainInParallelPassively, WaitForTermination, StopTheWorld, EndMarking, FinishClears,
       FinishReturns, DrainFromSharedReturns, Goto
  <2> QED BY <2>1, <1>1, <1>2, Zenon
<1>6. CASE MutatorStep
  <2>1. \E l \in MutatorLabels : pc' = [pc EXCEPT ![Mutator] = l]
    BY <1>6, Zenon DEF MutatorStep, IncrementBegins, IncrementReturns, Goto
  <2> QED BY <2>1, <1>2, Zenon
<1>7. CASE TimeToResumeElapses \/ TimeToStopElapses
  BY <1>7, <1>1, Zenon DEF TimeToResumeElapses, TimeToStopElapses, TimeoutElapses
<1>8. CASE \E v \in Visitors : VisitorStep(v)
  BY <1>8, <1>1, <1>2, <1>3, Zenon
<1>9. CASE \E h \in Helpers : HelperStep(h)
  BY <1>9, <1>1, <1>2, <1>4, Zenon
<1> QED BY <1>5, <1>6, <1>7, <1>8, <1>9, Zenon DEF Next
-----------------------------------------------------------------------------
(* The cells.  A step moves cells between a stack and the shared one, visits *)
(* a cell, runs a constraint, clears the mark bits, or leaves them alone.    *)

CellsMove(v) ==
    /\ marked' = marked /\ shared' \subseteq Cells
    /\ \E X \in SUBSET Cells : /\ stack' = [stack EXCEPT ![v] = X]
                               /\ X \cup shared' = stack[v] \cup shared

CellVisited(v) ==
    /\ \E c \in stack[v] :
        /\ marked' = marked \cup Children[c]
        /\ stack' = [stack EXCEPT ![v] = (stack[v] \ {c}) \cup (Children[c] \ marked)]
    /\ shared' = shared

ConstraintRun(v) ==
    /\ \E k \in Constraints :
        /\ marked' = marked \cup ConstraintAppends(k)
        /\ stack' = [stack EXCEPT ![v] = stack[v] \cup (ConstraintAppends(k) \ marked)]
        /\ ~visited' => ConstraintAppends(k) \subseteq marked
    /\ shared' = shared

CellsKept == UNCHANGED marks \/ \E v \in Visitors : CellsMove(v)

\* The steps by what they do to the cells.
LEMMA CellSteps ==
    ASSUME IInv, Next
    PROVE  \/ CellsKept
           \/ \E v \in Visitors : CellVisited(v) /\ Visit(v)
           \/ \E v \in Visitors : /\ ConstraintRun(v)
                                  /\ ExecuteConstraint(v) \/ (v = Collector /\ ConvergeQuickly)
           \/ BeginMarking
<1>0. /\ stack \in [Visitors -> SUBSET Cells] /\ shared \subseteq Cells /\ marked \subseteq Cells
      /\ picked \in [Visitors -> Constraints \cup {None}]
  BY Zenon DEF IInv, Types, TypeOK
<1>1. ASSUME NEW v \in Visitors, NEW a, NEW w, StealAndDrain(v, a, w), marked' = marked
      PROVE  CellsMove(v)
  <2>1. PICK S \in SUBSET shared : stack' = [stack EXCEPT ![v] = @ \cup S] /\ shared' = shared \ S
    BY <1>1, Zenon DEF StealAndDrain
  <2>2. stack[v] \cup S \in SUBSET Cells /\ (stack[v] \cup S) \cup shared' = stack[v] \cup shared
    BY <2>1, <1>0, Zenon
  <2> QED BY <2>1, <2>2, <1>0, <1>1, Zenon DEF CellsMove
<1>2. ASSUME NEW v \in Visitors, DonateAll(v) PROVE CellsMove(v)
  <2>1. stack' = [stack EXCEPT ![v] = {}] /\ shared' = shared \cup stack[v] /\ marked' = marked
    BY <1>2, Zenon DEF DonateAll
  <2>2. {} \in SUBSET Cells /\ {} \cup shared' = stack[v] \cup shared /\ shared' \subseteq Cells
    BY <2>1, <1>0, Zenon
  <2> QED BY <2>1, <2>2, Zenon DEF CellsMove
<1>3. ASSUME NEW v \in Visitors, VisitorStep(v) PROVE CellsKept \/ (CellVisited(v) /\ Visit(v))
  <2>1. CASE Visit(v)
    BY <2>1, Zenon DEF Visit, Append, CellVisited
  <2>2. CASE DonateKnownParallel(v)
    <3>1. PICK S \in SUBSET stack[v] : stack' = [stack EXCEPT ![v] = @ \ S] /\ shared' = shared \cup S
      BY <2>2, Zenon DEF DonateKnownParallel
    <3>2. /\ stack[v] \ S \in SUBSET Cells /\ (stack[v] \ S) \cup shared' = stack[v] \cup shared
          /\ shared' \subseteq Cells /\ marked' = marked
      BY <3>1, <2>2, <1>0, Zenon DEF DonateKnownParallel
    <3> QED BY <3>1, <3>2, Zenon DEF CellsMove, CellsKept
  <2>3. CASE DrainReturns(v)
    BY <2>3, Zenon DEF DrainReturns, CellsKept
  <2> QED BY <1>3, <2>1, <2>2, <2>3, Zenon DEF VisitorStep
<1>4. ASSUME NEW v \in Visitors, TaskStep(v) PROVE CellsKept \/ (ConstraintRun(v) /\ ExecuteConstraint(v))
  <2>1. CASE ExecuteConstraint(v)
    <3>1. picked[v] \in Constraints
      BY <2>1, <1>0, Zenon DEF ExecuteConstraint
    <3>2. Append(v, stack[v], ConstraintAppends(picked[v])) /\ shared' = shared
      BY <2>1, Zenon DEF ExecuteConstraint
    <3> QED BY <2>1, <3>1, <3>2, Zenon DEF Append, ConstraintRun
  <2> QED BY <1>4, <2>1, Zenon DEF TaskStep, PickNext, TaskReturns, CellsKept
<1>5. ASSUME NEW h \in Helpers, HelperStep(h)
      PROVE  CellsKept \/ (ConstraintRun(h) /\ ExecuteConstraint(h))
  <2>1. h \in Visitors
    BY VisitorFacts, Zenon
  <2>2. CASE TaskStep(h)
    BY <2>1, <2>2, <1>4, Zenon
  <2>3. ASSUME NEW a, NEW w, NEW b, HelperWaitUntilReady(h, a, w, b) PROVE CellsKept
    BY <2>1, <2>3, <1>1, Zenon DEF HelperWaitUntilReady, CellsKept, marks
  <2> QED BY <1>5, <2>2, <2>3, Zenon DEF HelperStep, ClaimTask, HelperTop, HelperWakes, HelperLeaves, CellsKept
<1>6. CASE CollectorStep
  <2>0. Collector \in Visitors
    BY VisitorFacts, Zenon
  <2>1. CASE ConvergeQuickly
    BY <2>0, <2>1, Zenon DEF ConvergeQuickly, ConstraintRun
  <2>2. CASE TaskStep(Collector)
    BY <2>0, <2>2, <1>4, Zenon
  <2>3. ASSUME NEW a, NEW w, MainWaitForWork(a, w) PROVE CellsKept
    BY <2>0, <2>3, <1>1, Zenon DEF MainWaitForWork, CellsKept, marks
  <2>4. CASE ConcurrentPoll \/ DrainInParallelPassively
    BY <2>0, <2>4, <1>2, Zenon DEF ConcurrentPoll, DrainInParallelPassively, CellsKept
  <2> QED BY <2>0, <1>6, <2>1, <2>2, <2>3, <2>4, Zenon DEF CollectorStep, Fixpoint, ExecuteConvergence,
         RunTaskInParallelWaits, DidExecuteConstraints, MainTop, MainWakes, FixpointDrained,
         WaitForTermination, StopTheWorld, EndMarking, FinishClears, FinishReturns, CellsKept
<1>7. CASE MutatorStep
  <2>0. Mutator \in Visitors
    BY VisitorFacts, Zenon
  <2>1. CASE IncrementBegins
    <3>1. stack[Mutator] = {}
      BY <2>1, VisitorFacts, Zenon DEF IncrementBegins, IInv, StackLabels
    <3>2. PICK S \in SUBSET shared : stack' = [stack EXCEPT ![Mutator] = S] /\ shared' = shared \ S
      BY <2>1, Zenon DEF IncrementBegins
    <3>3. /\ S \in SUBSET Cells /\ S \cup shared' = stack[Mutator] \cup shared
          /\ shared' \subseteq Cells /\ marked' = marked
      BY <3>1, <3>2, <2>1, <1>0, Zenon DEF IncrementBegins
    <3> QED BY <2>0, <3>2, <3>3, Zenon DEF CellsMove, CellsKept
  <2>2. CASE IncrementReturns
    BY <2>0, <2>2, <1>2, Zenon DEF IncrementReturns, CellsKept
  <2> QED BY <1>7, <2>1, <2>2, Zenon DEF MutatorStep
<1>8. CASE TimeToResumeElapses \/ TimeToStopElapses
  BY <1>8, Zenon DEF TimeToResumeElapses, TimeToStopElapses, TimeoutElapses, CellsKept
<1> QED BY <1>3, <1>5, <1>6, <1>7, <1>8, VisitorFacts, Zenon DEF Next
CellTypes == marked \subseteq Cells /\ shared \subseteq Cells /\ stack \in [Visitors -> SUBSET Cells]

\* A constraint appends live cells only.
LEMMA ConstraintsAppendLive ==
    ASSUME IInv, NEW k \in Constraints PROVE ConstraintAppends(k) \subseteq Live
<1>1. marked \subseteq Live
  BY Zenon DEF IInv, Colours
<1> QED BY <1>1, LiveFacts DEF ConstraintAppends, Closed

\* Cells that move stay grey.
LEMMA KeptCells ==
    ASSUME IInv, CellsKept
    PROVE  CellTypes' /\ Colours' /\ (NoWorkAnywhere => NoWorkAnywhere') /\ marked' = marked
<1>0. CellTypes /\ Colours
  BY Zenon DEF IInv, Types, TypeOK, CellTypes
<1>1. CASE UNCHANGED marks
  BY <1>0, <1>1, Zenon DEF marks, CellTypes, Colours, NoWorkAnywhere, Grey
<1>2. ASSUME NEW v \in Visitors, CellsMove(v)
      PROVE  CellTypes' /\ Colours' /\ (NoWorkAnywhere => NoWorkAnywhere') /\ marked' = marked
  <2>1. PICK X \in SUBSET Cells : /\ stack' = [stack EXCEPT ![v] = X]
                                  /\ X \cup shared' = stack[v] \cup shared
    BY <1>2, Zenon DEF CellsMove
  <2>2. marked' = marked /\ shared' \subseteq Cells
    BY <1>2, Zenon DEF CellsMove
  <2>3. \A u \in Visitors : stack'[u] = IF u = v THEN X ELSE stack[u]
    BY <2>1, <1>0, Zenon DEF CellTypes
  <2>4. CellTypes'
    BY <2>1, <2>2, <1>0, Zenon DEF CellTypes
  <2>5. \A c : Grey(c)' <=> Grey(c)
    BY <2>1, <2>3, Zenon DEF Grey
  <2>6. NoWorkAnywhere => NoWorkAnywhere'
    BY <2>1, <2>3, Zenon DEF NoWorkAnywhere
  <2>7. Colours'
    BY <2>2, <2>5, <1>0, Zenon DEF Colours
  <2> QED BY <2>2, <2>4, <2>6, <2>7, Zenon
<1> QED BY <1>1, <1>2, Zenon DEF CellsKept

\* Cells that are appended are marked and live, and a cell that is visited has marked children.
LEMMA GrownCells ==
    ASSUME IInv, NEW v \in Visitors, NEW from \in SUBSET stack[v], NEW cells \in SUBSET Live,
           \A c \in stack[v] \ from : Children[c] \subseteq cells,
           marked' = marked \cup cells, shared' = shared,
           stack' = [stack EXCEPT ![v] = from \cup (cells \ marked)]
    PROVE  /\ CellTypes' /\ Colours'
           /\ NoWorkAnywhere /\ cells \subseteq marked => NoWorkAnywhere'
           /\ marked \subseteq marked'
<1>0. CellTypes /\ Colours /\ Live \subseteq Cells
  BY LiveFacts, Zenon DEF IInv, Types, TypeOK, CellTypes
<1>1. \A u \in Visitors : stack'[u] = IF u = v THEN from \cup (cells \ marked) ELSE stack[u]
  BY <1>0, Zenon DEF CellTypes
<1>2. CellTypes'
  BY <1>0, Zenon DEF CellTypes
<1>3. marked' \subseteq Live
  BY <1>0, Zenon DEF Colours
<1>4. \A c \in Cells : Grey(c)' => Grey(c) \/ c \in cells
  BY <1>1 DEF Grey
<1>5. \A c \in marked' : Grey(c)' \/ c \in marked
  BY <1>1 DEF Grey
<1>6. \A c : Grey(c) => Grey(c)' \/ c \in stack[v] \ from
  BY <1>1 DEF Grey
<1>7. \A c \in marked' : Grey(c)' \/ Children[c] \subseteq marked'
  BY <1>0, <1>5, <1>6, Zenon DEF Colours
<1>8. \A c \in Cells : Grey(c)' => c \in marked'
  BY <1>0, <1>4, Zenon DEF Colours
<1>9. NoWorkAnywhere /\ cells \subseteq marked => NoWorkAnywhere'
  BY <1>1, Zenon DEF NoWorkAnywhere
<1> QED BY <1>2, <1>3, <1>7, <1>8, <1>9, Zenon DEF Colours

\* A cell that is visited leaves its stack, and its children are marked.
LEMMA VisitedCells ==
    ASSUME IInv, NEW v \in Visitors, CellVisited(v)
    PROVE  CellTypes' /\ Colours' /\ ~NoWorkAnywhere /\ marked \subseteq marked'
<1>1. PICK c \in stack[v] :
        /\ marked' = marked \cup Children[c] /\ shared' = shared
        /\ stack' = [stack EXCEPT ![v] = (stack[v] \ {c}) \cup (Children[c] \ marked)]
  BY Zenon DEF CellVisited
<1>2. c \in Live
  BY Zenon DEF IInv, Types, TypeOK, Colours, Grey
<1>3. Children[c] \subseteq Live
  BY <1>2, LiveFacts, Zenon DEF Closed
<1>4. ~NoWorkAnywhere
  BY Zenon DEF NoWorkAnywhere
<1>5. /\ stack[v] \ {c} \in SUBSET stack[v]
      /\ \A d \in stack[v] \ (stack[v] \ {c}) : Children[d] \subseteq Children[c]
  BY Zenon
<1> QED BY <1>1, <1>3, <1>4, <1>5, GrownCells, Zenon

\* The cells a constraint appends are marked and live.
LEMMA ConstraintCells ==
    ASSUME IInv, NEW v \in Visitors, ConstraintRun(v)
    PROVE  /\ CellTypes' /\ Colours' /\ marked \subseteq marked'
           /\ ~visited' => marked' = marked /\ (NoWorkAnywhere => NoWorkAnywhere')
<1>1. PICK k \in Constraints :
        /\ marked' = marked \cup ConstraintAppends(k) /\ shared' = shared
        /\ stack' = [stack EXCEPT ![v] = stack[v] \cup (ConstraintAppends(k) \ marked)]
        /\ ~visited' => ConstraintAppends(k) \subseteq marked
  BY Zenon DEF ConstraintRun
<1>2. ConstraintAppends(k) \subseteq Live
  BY ConstraintsAppendLive, Zenon
<1>3. /\ stack[v] \in SUBSET stack[v]
      /\ \A d \in stack[v] \ stack[v] : Children[d] \subseteq ConstraintAppends(k)
  BY Zenon
<1>4. /\ CellTypes' /\ Colours' /\ marked \subseteq marked'
      /\ NoWorkAnywhere /\ ConstraintAppends(k) \subseteq marked => NoWorkAnywhere'
  BY <1>1, <1>2, <1>3, GrownCells, Zenon
<1> QED BY <1>1, <1>4, Zenon

\* runBeginPhase clears the mark bits when no cell is on a stack.
LEMMA ClearedCells ==
    ASSUME IInv, BeginMarking PROVE CellTypes' /\ Colours' /\ NoWorkAnywhere'
<1>1. marked' = {} /\ stack' = stack /\ shared' = shared /\ pc[Collector] = "idle"
  BY Zenon DEF BeginMarking
<1>2. NoWorkAnywhere
  BY <1>1, Zenon DEF IInv, Quiescent, Quiet
<1>3. NoWorkAnywhere'
  BY <1>1, <1>2, Zenon DEF NoWorkAnywhere
<1>4. \A c \in Cells : ~Grey(c)'
  BY <1>3, Zenon DEF Grey, NoWorkAnywhere
<1>5. Colours'
  BY <1>1, <1>4, Zenon DEF Colours
<1>6. CellTypes'
  BY <1>1, Zenon DEF IInv, Types, TypeOK, CellTypes
<1> QED BY <1>3, <1>5, <1>6, Zenon

\* Every step keeps the types of the mark stacks and the colours.
LEMMA CellStep == ASSUME IInv, Next PROVE CellTypes' /\ Colours'
BY CellSteps, KeptCells, VisitedCells, ConstraintCells, ClearedCells, Zenon
-----------------------------------------------------------------------------
(* The other variables keep their types.                                     *)

FlagTypes ==
    /\ shouldExit \in BOOLEAN /\ bonus \in BOOLEAN /\ clientTask \in BOOLEAN
    /\ cond \subseteq Visitors
    /\ concurrent \in BOOLEAN /\ elapsed \in BOOLEAN /\ visited \in BOOLEAN
    /\ iteration \in 1 .. 3 /\ todo \subseteq Constraints
    /\ picked \in [Visitors -> Constraints \cup {None}]
    /\ timeouts \in 0 .. MaxTimeouts /\ collections \in 0 .. MaxCollections
    /\ gcIncrements \in BOOLEAN

\* Every step keeps the types of the flags, the solver and the bounds.
LEMMA FlagTypeStep == ASSUME IInv, Next PROVE FlagTypes'
<1>0. FlagTypes
  BY Zenon DEF IInv, Types, TypeOK, FlagTypes
<1> USE VisitorFacts DEF solver, clock
<1>1. ASSUME NEW v \in Visitors, VisitorStep(v) PROVE FlagTypes'
  BY <1>0, <1>1, Zenon DEF VisitorStep, Visit, Append, DonateKnownParallel, DrainReturns, FlagTypes
<1>2. ASSUME NEW v \in Visitors, TaskStep(v) PROVE FlagTypes'
  <2>1. CASE PickNext(v)
    BY <1>0, <2>1, Zenon DEF PickNext, FlagTypes
  <2>2. CASE ExecuteConstraint(v)
    BY <1>0, <2>2, Zenon DEF ExecuteConstraint, Append, FlagTypes
  <2>3. CASE TaskReturns(v)
    BY <1>0, <2>3, Zenon DEF TaskReturns, FlagTypes
  <2> QED BY <1>2, <2>1, <2>2, <2>3, Zenon DEF TaskStep
<1>3. ASSUME NEW h \in Helpers, HelperStep(h) PROVE FlagTypes'
  <2>1. ASSUME NEW a, NEW w, NEW b \in SUBSET Visitors, HelperWaitUntilReady(h, a, w, b)
        PROVE  FlagTypes'
    BY <1>0, <2>1, Zenon DEF HelperWaitUntilReady, FlagTypes
  <2>2. CASE HelperTop(h) \/ HelperWakes(h)
    BY <1>0, <2>1, <2>2 DEF HelperTop, HelperWakes, FlagTypes
  <2>3. CASE ClaimTask(h) \/ HelperLeaves(h)
    BY <1>0, <2>3, Zenon DEF ClaimTask, HelperLeaves, FlagTypes
  <2> QED BY <1>3, <1>2, <2>2, <2>3, Zenon DEF HelperStep
<1>4. CASE CollectorStep
  <2>1. CASE Fixpoint \/ ExecuteConvergence
    BY <1>0, <2>1, Zenon DEF Fixpoint, ExecuteConvergence, ToExecute, Constraints, FlagTypes
  <2>2. CASE ConvergeQuickly
    <3>1. /\ todo' \subseteq Constraints /\ visited' \in BOOLEAN /\ bonus' \in BOOLEAN
          /\ cond' \subseteq Visitors
      BY <1>0, <2>2, Zenon DEF ConvergeQuickly, FlagTypes
    <3> QED BY <1>0, <2>2, <3>1, Zenon DEF ConvergeQuickly, FlagTypes
  <2>3. CASE RunTaskInParallelWaits \/ DidExecuteConstraints
    <3>1. iteration' \in 1 .. 3
      BY <1>0, <2>3 DEF RunTaskInParallelWaits, DidExecuteConstraints, FlagTypes
    <3> QED BY <1>0, <2>3, <3>1, Zenon DEF RunTaskInParallelWaits, DidExecuteConstraints, FlagTypes
  <2>4. ASSUME NEW a, NEW w, MainWaitForWork(a, w) PROVE FlagTypes'
    BY <1>0, <2>4, Zenon DEF MainWaitForWork, FlagTypes
  <2>5. CASE MainTop \/ MainWakes
    BY <2>4, <2>5, Zenon DEF MainTop, MainWakes
  <2>6. CASE FixpointDrained \/ ConcurrentPoll
    BY <1>0, <2>6, Zenon DEF FixpointDrained, ConcurrentPoll, DonateAll, FlagTypes
  <2>7. CASE DrainInParallelPassively \/ WaitForTermination
    BY <1>0, <2>7, Zenon DEF DrainInParallelPassively, WaitForTermination, DonateAll, FlagTypes
  <2>8. CASE StopTheWorld \/ EndMarking \/ FinishClears \/ FinishReturns
    BY <1>0, <2>8, Zenon DEF StopTheWorld, EndMarking, FinishClears, FinishReturns, FlagTypes
  <2> QED BY <1>4, <1>2, <2>1, <2>2, <2>3, <2>5, <2>6, <2>7, <2>8, Zenon DEF CollectorStep
<1>5. CASE MutatorStep
  BY <1>0, <1>5, Zenon DEF MutatorStep, IncrementBegins, IncrementReturns, DonateAll, FlagTypes
<1>6. CASE BeginMarking
  <2>1. collections' \in 0 .. MaxCollections /\ iteration' \in 1 .. 3
    BY <1>0, <1>6, BoundsAssumption DEF BeginMarking, FlagTypes
  <2> QED BY <1>0, <1>6, <2>1, Zenon DEF BeginMarking, FlagTypes
<1>7. CASE TimeToResumeElapses \/ TimeToStopElapses
  <2>1. timeouts' \in 0 .. MaxTimeouts
    BY <1>0, <1>7, BoundsAssumption DEF TimeToResumeElapses, TimeToStopElapses, FlagTypes
  <2>2. TimeoutElapses
    BY <1>7, Zenon DEF TimeToResumeElapses, TimeToStopElapses
  <2> QED BY <1>0, <2>1, <2>2, Zenon DEF TimeoutElapses, FlagTypes
<1> QED BY <1>1, <1>3, <1>4, <1>5, <1>6, <1>7, Zenon DEF Next

\* Every step keeps the types.
LEMMA TypeStep == ASSUME IInv, Next PROVE Types'
BY CountStep, PCStep, CellStep, FlagTypeStep, Zenon DEF Types, TypeOK, CellTypes, FlagTypes

-----------------------------------------------------------------------------
(* Who is where: the control of the collector and the flags it sets.         *)

Flags ==
    /\ pc[Mutator] # "idle" => concurrent
    /\ concurrent => pc[Collector] \in Running
    /\ bonus => pc[Collector] = "task"
    /\ shouldExit => pc[Collector] \in {"finish", "finishWait", "idle"}
    /\ clientTask => pc[Collector] \notin {"finishWait", "idle"}

Tasks ==
    /\ \A h \in Helpers : /\ pc[Collector] = "idle" => pc[h] = "idle"
                          /\ pc[h] = "task" => pc[Collector] \in {"task", "taskWait"}
    /\ \A v \in Visitors : picked[v] # None => pc[v] = "task"

\* Draining keeps the flags and the tasks in step with the collector.
LEMMA VisitorControl == ASSUME IInv, NEW v \in Visitors, VisitorStep(v) PROVE Flags' /\ Tasks'
<1>0. Flags /\ Tasks /\ pc \in [Visitors -> Labels] /\ pc[Mutator] \in MutatorLabels
  BY Zenon DEF IInv, Control, Flags, Tasks, Types, TypeOK
<1> USE VisitorFacts
<1>1. CASE Visit(v)
  <2>1. /\ bonus' = bonus /\ shouldExit' = shouldExit /\ clientTask' = clientTask
        /\ concurrent' = concurrent /\ picked' = picked
    BY <1>1, Zenon DEF Visit
  <2>2. CASE pc[v] # "increment"
    <3>1. pc' = pc
      BY <1>1, <2>2, Zenon DEF Visit
    <3> QED BY <1>0, <2>1, <3>1, Zenon DEF Flags, Tasks
  <2>3. CASE pc[v] = "increment"
    <3>1. pc' = [pc EXCEPT ![v] = "drain"]
      BY <1>1, <2>3, Zenon DEF Visit
    <3>2. v = Mutator
      BY <2>3, Zenon DEF IInv, Types, TypeOK, HelperLabels, CollectorLabels, Visitors
    <3> QED BY <1>0, <2>1, <2>3, <3>1, <3>2, Zenon DEF Flags, Tasks
  <2> QED BY <2>2, <2>3, Zenon
<1>2. CASE DonateKnownParallel(v)
  BY <1>0, <1>2, Zenon DEF DonateKnownParallel, solver, Flags, Tasks
<1>3. CASE DrainReturns(v)
  BY <1>0, <1>3, Zenon DEF DrainReturns, Goto, solver, Flags, Tasks, Running
<1> QED BY <1>1, <1>2, <1>3, Zenon DEF VisitorStep

\* So does the solver's task.
LEMMA TaskControl == ASSUME IInv, NEW v \in Visitors, TaskStep(v) PROVE Flags' /\ Tasks'
<1>0. /\ Flags /\ Tasks /\ pc \in [Visitors -> Labels] /\ pc[Mutator] \in MutatorLabels
      /\ picked \in [Visitors -> Constraints \cup {None}]
  BY Zenon DEF IInv, Control, Flags, Tasks, Types, TypeOK
<1> USE VisitorFacts
<1>1. CASE PickNext(v) \/ ExecuteConstraint(v)
  BY <1>0, <1>1 DEF PickNext, ExecuteConstraint, Flags, Tasks
<1>2. CASE TaskReturns(v)
  <2>1. /\ bonus' = FALSE /\ shouldExit' = shouldExit /\ clientTask' = clientTask
        /\ concurrent' = concurrent /\ picked' = picked /\ picked[v] = None
        /\ pc[v] = "task" /\ pc' = [pc EXCEPT ![v] = IF v = Collector THEN "taskWait" ELSE "top"]
    BY <1>2, Zenon DEF TaskReturns, solver, Goto
  <2>2. v # Mutator
    BY <2>1, <1>0, Zenon DEF MutatorLabels
  <2> QED BY <1>0, <2>1, <2>2, Zenon DEF Flags, Tasks, Running
<1> QED BY <1>1, <1>2, Zenon DEF TaskStep

\* So does drainFromShared in a helper: it takes the bonus task only while the collector runs it.
LEMMA HelperControl == ASSUME IInv, NEW h \in Helpers, HelperStep(h) PROVE Flags' /\ Tasks'
<1>0. /\ Flags /\ Tasks /\ pc \in [Visitors -> Labels]
  BY Zenon DEF IInv, Control, Flags, Tasks, Types, TypeOK
<1> USE VisitorFacts
<1>1. CASE ClaimTask(h) \/ HelperLeaves(h)
  BY <1>0, <1>1 DEF ClaimTask, HelperLeaves, Goto, solver, Flags, Tasks
<1>2. ASSUME NEW a, NEW w, NEW b, HelperWaitUntilReady(h, a, w, b), pc[h] \in {"enter", "top", "wait"}
      PROVE  Flags' /\ Tasks'
  <2>1. /\ bonus' = bonus /\ shouldExit' = shouldExit /\ clientTask' = clientTask
        /\ concurrent' = concurrent /\ picked' = picked
    BY <1>2, Zenon DEF HelperWaitUntilReady, solver
  <2>2. \E l \in {"wait", "leave", "task", "drain"} :
            (l = "task" => bonus) /\ pc' = [pc EXCEPT ![h] = l]
    BY <1>2, Zenon DEF HelperWaitUntilReady, StealAndDrain, Goto
  <2> QED BY <1>0, <1>2, <2>1, <2>2, Zenon DEF Flags, Tasks
<1>3. CASE HelperTop(h) \/ HelperWakes(h)
  BY <1>2, <1>3, Zenon DEF HelperTop, HelperWakes
<1> QED BY <1>1, <1>3, TaskControl, Zenon DEF HelperStep
\* So do the phases: the collector goes on only when no helper holds its task.
LEMMA CollectorControl == ASSUME IInv, CollectorStep PROVE Flags' /\ Tasks'
<1>0. /\ Flags /\ Tasks /\ pc \in [Visitors -> Labels] /\ concurrent \in BOOLEAN
  BY Zenon DEF IInv, Control, Flags, Tasks, Types, TypeOK
<1> USE VisitorFacts DEF Goto, solver, Running
<1>1. CASE Fixpoint
  BY <1>0, <1>1, Zenon DEF Fixpoint, Flags, Tasks
<1>2. CASE ExecuteConvergence
  BY <1>0, <1>2, Zenon DEF ExecuteConvergence, Flags, Tasks
<1>3. CASE ConvergeQuickly
  <2>1. /\ shouldExit' = shouldExit /\ clientTask' = clientTask /\ pc[Collector] = "converge"
        /\ concurrent' = concurrent /\ picked' = picked
        /\ \/ pc' = [pc EXCEPT ![Collector] = "converged"] /\ bonus' = bonus
           \/ pc' = [pc EXCEPT ![Collector] = "task"]
    BY <1>3, Zenon DEF ConvergeQuickly
  <2> QED BY <1>0, <2>1 DEF Flags, Tasks
<1>4. CASE TaskStep(Collector)
  BY <1>4, TaskControl, Zenon
<1>5. CASE RunTaskInParallelWaits
  BY <1>0, <1>5, Zenon DEF RunTaskInParallelWaits, HoldsTask, Flags, Tasks
<1>6. CASE DidExecuteConstraints
  BY <1>0, <1>6, Zenon DEF DidExecuteConstraints, Flags, Tasks
<1>7. ASSUME NEW a, NEW w, MainWaitForWork(a, w), pc[Collector] \in {"enter", "top", "wait"}
      PROVE  Flags' /\ Tasks'
  <2>1. /\ bonus' = bonus /\ shouldExit' = shouldExit /\ clientTask' = clientTask
        /\ concurrent' = concurrent /\ picked' = picked
    BY <1>7, Zenon DEF MainWaitForWork
  <2>2. \E l \in {"stop", "drained", "drain", "wait"} :
            (concurrent => l # "drained") /\ pc' = [pc EXCEPT ![Collector] = l]
    BY <1>7, Zenon DEF MainWaitForWork, StealAndDrain, DrainFromSharedReturns
  <2> QED BY <1>0, <1>7, <2>1, <2>2, Zenon DEF Flags, Tasks
<1>8. CASE MainTop \/ MainWakes
  BY <1>7, <1>8, Zenon DEF MainTop, MainWakes
<1>9. CASE FixpointDrained
  BY <1>0, <1>9 DEF FixpointDrained, Flags, Tasks
<1>10. CASE ConcurrentPoll
  BY <1>0, <1>10, Zenon DEF ConcurrentPoll, Flags, Tasks
<1>11. CASE DrainInParallelPassively
  BY <1>0, <1>11, Zenon DEF DrainInParallelPassively, Flags, Tasks
<1>12. CASE WaitForTermination
  BY <1>0, <1>12, Zenon DEF WaitForTermination, DrainFromSharedReturns, Flags, Tasks
<1>13. CASE StopTheWorld
  BY <1>0, <1>13, Zenon DEF StopTheWorld, Flags, Tasks
<1>14. CASE EndMarking
  BY <1>0, <1>14, Zenon DEF EndMarking, Flags, Tasks
<1>15. CASE FinishClears
  BY <1>0, <1>15, Zenon DEF FinishClears, Flags, Tasks
<1>16. CASE FinishReturns
  BY <1>0, <1>16, Zenon DEF FinishReturns, Flags, Tasks
<1> QED BY <1>1, <1>2, <1>3, <1>4, <1>5, <1>6, <1>8, <1>9, <1>10, <1>11, <1>12, <1>13, <1>14, <1>15,
           <1>16, Zenon DEF CollectorStep

\* So does every step.
LEMMA FlagStep == ASSUME IInv, Next PROVE Flags' /\ Tasks'
<1>0. /\ Flags /\ Tasks /\ pc \in [Visitors -> Labels]
  BY Zenon DEF IInv, Control, Flags, Tasks, Types, TypeOK
<1> USE VisitorFacts DEF Goto, solver
<1>1. CASE MutatorStep
  BY <1>0, <1>1 DEF MutatorStep, IncrementBegins, IncrementReturns, Flags, Tasks
<1>2. CASE BeginMarking
  BY <1>0, <1>2, Zenon DEF BeginMarking, Flags, Tasks, Running
<1>3. CASE TimeToResumeElapses \/ TimeToStopElapses
  BY <1>0, <1>3 DEF TimeToResumeElapses, TimeToStopElapses, TimeoutElapses, Flags, Tasks
<1> QED BY <1>1, <1>2, <1>3, VisitorControl, HelperControl, CollectorControl, Zenon DEF Next

\* Nothing becomes active between the termination that runFixpointPhase finds and its solver.
LEMMA ConvergeStep == ASSUME IInv, Next, (pc[Collector] = "converge")' PROVE active' = 0
<1>0. /\ pc \in [Visitors -> Labels] /\ (pc[Collector] = "converge" => active = 0 /\ ~bonus /\ ~shouldExit)
      /\ (pc[Collector] = "converge" => NoWorkAnywhere)
      /\ \A h \in Helpers : pc[h] = "task" => pc[Collector] \in {"task", "taskWait"}
  BY Zenon DEF IInv, Control, Types, Quiescent, Quiet
<1> USE VisitorFacts DEF Goto, counters
<1>1. ASSUME NEW v \in Visitors, VisitorStep(v) PROVE active' = 0
  <2>1. active' = active
    BY <1>1, Zenon DEF VisitorStep, Visit, DonateKnownParallel, DrainReturns
  <2>2. pc[Collector] = "converge"
    BY <1>0, <1>1, Zenon DEF VisitorStep, Visit, DonateKnownParallel, DrainReturns
  <2> QED BY <1>0, <2>1, <2>2, Zenon
<1>2. ASSUME NEW h \in Helpers, HelperStep(h) PROVE active' = 0
  <2>1. ASSUME NEW a, NEW w, NEW b, HelperWaitUntilReady(h, a, w, b), pc[Collector] = "converge"
        PROVE  active' = a
    <3>1. ~IsReady(h)
      BY <1>0, <2>1, Zenon DEF IsReady, HasWork, NoWorkAnywhere
    <3> QED BY <2>1, <3>1, Zenon DEF HelperWaitUntilReady
  <2>2. CASE HelperTop(h) \/ HelperWakes(h)
    <3>1. pc[Collector] = "converge"
      BY <1>0, <2>2, Zenon DEF HelperTop, HelperWakes, HelperWaitUntilReady, StealAndDrain
    <3>2. pc[h] # "top"
      BY <1>0, <3>1, CountFacts, Zenon DEF ActiveSet, ActiveAt
    <3> QED BY <1>0, <2>1, <2>2, <3>1, <3>2, Zenon DEF HelperTop, HelperWakes, ActiveAtTop
  <2>3. CASE ClaimTask(h) \/ HelperLeaves(h)
    BY <1>0, <2>3, Zenon DEF ClaimTask, HelperLeaves
  <2>4. CASE TaskStep(h)
    BY <1>0, <2>4, Zenon DEF TaskStep, PickNext, ExecuteConstraint, TaskReturns
  <2> QED BY <1>2, <2>2, <2>3, <2>4, Zenon DEF HelperStep
<1>3. CASE CollectorStep
  <2>1. CASE Fixpoint
    BY <1>0, <2>1, Zenon DEF Fixpoint, DidReachTermination
  <2>2. ASSUME NEW a, NEW w, MainWaitForWork(a, w) PROVE FALSE
    BY <1>0, <2>2, Zenon DEF MainWaitForWork, StealAndDrain, DrainFromSharedReturns
  <2>3. CASE ConvergeQuickly \/ ExecuteConvergence
    BY <1>0, <2>3, Zenon DEF ConvergeQuickly, ExecuteConvergence
  <2>4. CASE RunTaskInParallelWaits \/ DidExecuteConstraints \/ FixpointDrained
    BY <1>0, <2>4, Zenon DEF RunTaskInParallelWaits, DidExecuteConstraints, FixpointDrained
  <2>5. CASE ConcurrentPoll \/ DrainInParallelPassively \/ WaitForTermination
    BY <1>0, <2>5, Zenon DEF ConcurrentPoll, DrainInParallelPassively, WaitForTermination, DrainFromSharedReturns
  <2>6. CASE StopTheWorld \/ EndMarking \/ FinishClears \/ FinishReturns
    BY <1>0, <2>6, Zenon DEF StopTheWorld, EndMarking, FinishClears, FinishReturns
  <2>7. CASE TaskStep(Collector)
    BY <1>0, <2>7, Zenon DEF TaskStep, PickNext, ExecuteConstraint, TaskReturns
  <2> QED BY <1>3, <2>1, <2>2, <2>3, <2>4, <2>5, <2>6, <2>7, Zenon DEF CollectorStep, MainTop, MainWakes
<1>4. CASE MutatorStep
  BY <1>0, <1>4, Zenon DEF MutatorStep, IncrementBegins, IncrementReturns
<1>5. CASE BeginMarking
  BY <1>0, <1>5, Zenon DEF BeginMarking
<1>6. CASE TimeToResumeElapses \/ TimeToStopElapses
  BY <1>0, <1>6, Zenon DEF TimeToResumeElapses, TimeToStopElapses, TimeoutElapses
<1> QED BY <1>1, <1>2, <1>3, <1>4, <1>5, <1>6, Zenon DEF Next

\* Every step keeps Control.
LEMMA ControlStep == ASSUME IInv, Next PROVE Control'
BY FlagStep, ConvergeStep, Zenon DEF Control, Flags, Tasks
-----------------------------------------------------------------------------
(* Who has cells on its stack.                                               *)

HasCellsAt(v, l) == l \in IF v = Mutator THEN {"increment", "drain"} ELSE {"drain", "task", "top"}

\* A visitor other than the collector that moves and changes its own stack only
LEMMA StackMove ==
    ASSUME IInv, NEW v \in Visitors,
           \A u \in Visitors \ {v, Collector} : stack'[u] = stack[u] /\ pc'[u] = pc[u],
           v # Collector /\ stack'[v] # {} => HasCellsAt(v, pc'[v])
    PROVE  StackLabels'
<1>1. \A u \in Visitors \ {Collector} : stack[u] # {} => HasCellsAt(u, pc[u])
  BY Zenon DEF IInv, StackLabels, HasCellsAt
<1>2. \A u \in Visitors \ {Collector} : stack'[u] # {} => HasCellsAt(u, pc'[u])
  BY <1>1, Zenon
<1> QED BY <1>2, Zenon DEF StackLabels, HasCellsAt

\* A visitor that leaves the labels of a marker at work has no cell on its stack.
LEMMA StackStep == ASSUME IInv, Next PROVE StackLabels'
<1>0. /\ pc \in [Visitors -> Labels] /\ stack \in [Visitors -> SUBSET Cells]
      /\ pc[Mutator] \in MutatorLabels /\ \A h \in Helpers : pc[h] \in HelperLabels
      /\ \A u \in Visitors \ {Collector} : stack[u] # {} => HasCellsAt(u, pc[u])
  BY Zenon DEF IInv, Types, TypeOK, StackLabels, HasCellsAt
<1> USE VisitorFacts DEF Goto, marks
<1>1. ASSUME NEW v \in Visitors, VisitorStep(v) PROVE StackLabels'
  <2>1. \A u \in Visitors \ {v, Collector} : stack'[u] = stack[u] /\ pc'[u] = pc[u]
    BY <1>0, <1>1, Zenon DEF VisitorStep, Visit, Append, DonateKnownParallel, DrainReturns
  <2>2. CASE Visit(v)
    <3>1. v # Collector => HasCellsAt(v, pc'[v])
      BY <1>0, <2>2, Zenon DEF Visit, Draining, HasCellsAt, HelperLabels, MutatorLabels, Visitors
    <3> QED BY <2>1, <3>1, StackMove, Zenon
  <2>3. CASE DonateKnownParallel(v)
    <3>1. pc' = pc /\ pc[v] \in {"drain", "firstDrain"}
      BY <2>3, Zenon DEF DonateKnownParallel
    <3>2. v # Collector => HasCellsAt(v, pc'[v])
      BY <1>0, <3>1, Zenon DEF HasCellsAt, HelperLabels, MutatorLabels, Visitors
    <3> QED BY <2>1, <3>2, StackMove, Zenon
  <2>4. CASE DrainReturns(v)
    <3>1. v # Collector => stack'[v] = {}
      BY <2>4, Zenon DEF DrainReturns
    <3> QED BY <2>1, <3>1, StackMove, Zenon
  <2> QED BY <1>1, <2>2, <2>3, <2>4, Zenon DEF VisitorStep
<1>2. ASSUME NEW v \in Visitors, TaskStep(v) PROVE StackLabels'
  <2>1. \A u \in Visitors \ {v, Collector} : stack'[u] = stack[u] /\ pc'[u] = pc[u]
    BY <1>0, <1>2, Zenon DEF TaskStep, PickNext, ExecuteConstraint, TaskReturns, Append
  <2>2. v # Collector => HasCellsAt(v, pc'[v])
    BY <1>0, <1>2, Zenon DEF TaskStep, PickNext, ExecuteConstraint, TaskReturns, HasCellsAt, MutatorLabels
  <2> QED BY <2>1, <2>2, StackMove, Zenon
<1>3. ASSUME NEW h \in Helpers, HelperStep(h) PROVE StackLabels'
  <2>1. ASSUME NEW a, NEW w, NEW b, HelperWaitUntilReady(h, a, w, b) PROVE StackLabels'
    <3>1. \A u \in Visitors \ {h, Collector} : stack'[u] = stack[u] /\ pc'[u] = pc[u]
      BY <1>0, <2>1, Zenon DEF HelperWaitUntilReady, StealAndDrain
    <3>2. shouldExit => stack[h] = {}
      BY Zenon DEF IInv, Control, Quiescent, Quiet, NoWorkAnywhere
    <3>3. stack'[h] # {} => HasCellsAt(h, pc'[h])
      <4>1. CASE StealAndDrain(h, a, w)
        BY <1>0, <4>1, Zenon DEF StealAndDrain, HasCellsAt
      <4>2. CASE ~StealAndDrain(h, a, w)
        BY <1>0, <2>1, <3>2, <4>2, Zenon DEF HelperWaitUntilReady, IsReady, HasWork, HasCellsAt
      <4> QED BY <4>1, <4>2, Zenon
    <3> QED BY <3>1, <3>3, StackMove, Zenon
  <2>2. CASE ClaimTask(h) \/ HelperLeaves(h)
    <3>1. \A u \in Visitors \ {h, Collector} : stack'[u] = stack[u] /\ pc'[u] = pc[u]
      BY <1>0, <2>2, Zenon DEF ClaimTask, HelperLeaves
    <3>2. stack'[h] = {}
      BY <1>0, <2>2, Zenon DEF ClaimTask, HelperLeaves, HasCellsAt
    <3> QED BY <3>1, <3>2, StackMove, Zenon
  <2> QED BY <1>2, <1>3, <2>1, <2>2, Zenon DEF HelperStep, HelperTop, HelperWakes
<1>4. ASSUME \A u \in Visitors \ {Collector} : stack'[u] = stack[u] /\ pc'[u] = pc[u]
      PROVE  StackLabels'
  BY <1>4, StackMove, Zenon
<1>5. CASE CollectorStep
  <2>1. CASE ConvergeQuickly
    <3>1. \A u \in Visitors \ {Collector} : stack'[u] = stack[u] /\ pc'[u] = pc[u]
      BY <1>0, <2>1, Zenon DEF ConvergeQuickly
    <3> QED BY <1>4, <3>1, Zenon
  <2>2. ASSUME NEW a, NEW w, MainWaitForWork(a, w) PROVE StackLabels'
    <3>1. \A u \in Visitors \ {Collector} : stack'[u] = stack[u] /\ pc'[u] = pc[u]
      BY <1>0, <2>2, Zenon DEF MainWaitForWork, StealAndDrain, DrainFromSharedReturns
    <3> QED BY <1>4, <3>1, Zenon
  <2>3. CASE Fixpoint \/ ExecuteConvergence \/ RunTaskInParallelWaits \/ DidExecuteConstraints
    <3>1. \A u \in Visitors \ {Collector} : stack'[u] = stack[u] /\ pc'[u] = pc[u]
      BY <1>0, <2>3, Zenon DEF Fixpoint, ExecuteConvergence, RunTaskInParallelWaits, DidExecuteConstraints
    <3> QED BY <1>4, <3>1, Zenon
  <2>4. CASE FixpointDrained \/ ConcurrentPoll \/ DrainInParallelPassively \/ WaitForTermination
    <3>1. \A u \in Visitors \ {Collector} : stack'[u] = stack[u] /\ pc'[u] = pc[u]
      BY <1>0, <2>4, Zenon DEF FixpointDrained, ConcurrentPoll, DrainInParallelPassively, WaitForTermination,
                        DonateAll, DrainFromSharedReturns
    <3> QED BY <1>4, <3>1, Zenon
  <2>5. CASE StopTheWorld \/ EndMarking \/ FinishClears \/ FinishReturns
    <3>1. \A u \in Visitors \ {Collector} : stack'[u] = stack[u] /\ pc'[u] = pc[u]
      BY <1>0, <2>5, Zenon DEF StopTheWorld, EndMarking, FinishClears, FinishReturns
    <3> QED BY <1>4, <3>1, Zenon
  <2> QED BY <1>2, <1>5, <2>1, <2>2, <2>3, <2>4, <2>5, Zenon DEF CollectorStep, MainTop, MainWakes
<1>6. CASE MutatorStep
  <2>1. \A u \in Visitors \ {Mutator, Collector} : stack'[u] = stack[u] /\ pc'[u] = pc[u]
    BY <1>0, <1>6, Zenon DEF MutatorStep, IncrementBegins, IncrementReturns, DonateAll
  <2>2. stack'[Mutator] # {} => HasCellsAt(Mutator, pc'[Mutator])
    BY <1>0, <1>6, Zenon DEF MutatorStep, IncrementBegins, IncrementReturns, DonateAll, HasCellsAt
  <2> QED BY <2>1, <2>2, StackMove, Zenon
<1>7. CASE BeginMarking \/ TimeToResumeElapses \/ TimeToStopElapses
  <2>1. \A u \in Visitors \ {Collector} : stack'[u] = stack[u] /\ pc'[u] = pc[u]
    BY <1>0, <1>7, Zenon DEF BeginMarking, TimeToResumeElapses, TimeToStopElapses, TimeoutElapses
  <2> QED BY <1>4, <2>1, Zenon
<1> QED BY <1>1, <1>3, <1>5, <1>6, <1>7, Zenon DEF Next

-----------------------------------------------------------------------------
(* Termination, and what the solver has done.                                *)

Still == pc[Collector] \in Quiet \/ (pc[Collector] \in Solving /\ ~visited)

\* The solver picks and ends nothing, and the collector stays where it is or away from the solver
SolverUntouched ==
    /\ \/ pc'[Collector] = pc[Collector]
       \/ {pc[Collector], pc'[Collector]} \cap (Quiet \cup Solving) = {}
    /\ visited \in BOOLEAN /\ visited' \in BOOLEAN /\ (visited => visited')
    /\ UNCHANGED <<iteration, todo, picked>>

\* The collector's control and the solver's state change in these ways only.
LEMMA SolverSteps ==
    ASSUME IInv, Next
    PROVE  \/ SolverUntouched
           \/ \E v \in Visitors : PickNext(v) \/ ExecuteConstraint(v)
           \/ \E v \in {Collector} : TaskReturns(v)
           \/ BeginMarking \/ Fixpoint \/ ExecuteConvergence \/ ConvergeQuickly \/ RunTaskInParallelWaits
           \/ DidExecuteConstraints \/ EndMarking \/ FinishClears \/ FinishReturns
<1>0. /\ pc \in [Visitors -> Labels] /\ visited \in BOOLEAN
  BY Zenon DEF IInv, Types, TypeOK
<1> USE VisitorFacts DEF Goto, Quiet, Solving, solver, SolverUntouched
<1>1. ASSUME NEW v \in Visitors, VisitorStep(v) PROVE SolverUntouched
  <2>1. CASE Visit(v)
    <3>1. pc'[Collector] = pc[Collector]
      <4>1. CASE pc[v] = "increment"
        <5>1. v # Collector
          BY <4>1, Zenon DEF IInv, Types, TypeOK, CollectorLabels
        <5> QED BY <1>0, <2>1, <4>1, <5>1, Zenon DEF Visit
      <4> QED BY <1>0, <2>1, <4>1, Zenon DEF Visit
    <3>2. visited' \in BOOLEAN /\ (visited => visited')
      BY <1>0, <2>1, Zenon DEF Visit, Append
    <3> QED BY <1>0, <2>1, <3>1, <3>2, Zenon DEF Visit
  <2>2. CASE DonateKnownParallel(v)
    BY <1>0, <2>2, Zenon DEF DonateKnownParallel
  <2>3. CASE DrainReturns(v)
    BY <1>0, <2>3, Zenon DEF DrainReturns
  <2> QED BY <1>1, <2>1, <2>2, <2>3, Zenon DEF VisitorStep
<1>2. ASSUME NEW h \in Helpers, HelperStep(h), ~PickNext(h), ~ExecuteConstraint(h) PROVE SolverUntouched
  <2>1. /\ pc'[Collector] = pc[Collector]
        /\ UNCHANGED solver
    BY <1>0, <1>2, Zenon DEF HelperStep, ClaimTask, HelperLeaves, HelperTop, HelperWakes, HelperWaitUntilReady,
         StealAndDrain, TaskStep, TaskReturns
  <2> QED BY <1>0, <2>1, Zenon
<1>3. ASSUME NEW a, NEW w, MainWaitForWork(a, w), pc[Collector] \in {"enter", "top", "wait"} PROVE SolverUntouched
  <2>1. UNCHANGED solver
    BY <1>3, Zenon DEF MainWaitForWork
  <2>2. pc'[Collector] \in {"stop", "drained", "drain", "wait"}
    BY <1>0, <1>3, Zenon DEF MainWaitForWork, StealAndDrain, DrainFromSharedReturns
  <2> QED BY <1>0, <1>3, <2>1, <2>2, Zenon
<1>4. CASE MainTop \/ MainWakes
  BY <1>3, <1>4, Zenon DEF MainTop, MainWakes
<1>5. CASE FixpointDrained \/ ConcurrentPoll \/ DrainInParallelPassively \/ WaitForTermination \/ StopTheWorld
  <2>1. UNCHANGED solver
    BY <1>5, Zenon DEF FixpointDrained, ConcurrentPoll, DrainInParallelPassively, WaitForTermination, StopTheWorld
  <2>2. /\ pc[Collector] \in {"drained", "concurrent", "passive", "stop"}
        /\ pc'[Collector] \in {"drained", "concurrent", "passive", "stop", "fixpoint", "firstDrain"}
    BY <1>0, <1>5, Zenon DEF FixpointDrained, ConcurrentPoll, DrainInParallelPassively, WaitForTermination,
                      StopTheWorld, DrainFromSharedReturns
  <2> QED BY <1>0, <2>1, <2>2, Zenon
<1>6. CASE MutatorStep \/ TimeToResumeElapses \/ TimeToStopElapses
  BY <1>0, <1>6, Zenon DEF MutatorStep, IncrementBegins, IncrementReturns, TimeToResumeElapses,
                    TimeToStopElapses, TimeoutElapses
<1> QED BY <1>1, <1>2, <1>4, <1>5, <1>6, Zenon DEF Next, CollectorStep, TaskStep
\* runFixpointPhase goes on to the constraints only when no cell is on any stack: the markers that are
\* not active have none, and the world is stopped.
LEMMA TerminationIsGlobal ==
    ASSUME IInv, pc[Collector] = "fixpoint", DidReachTermination(Collector, active) PROVE NoWorkAnywhere
<1>1. active = 0 /\ shared = {} /\ stack[Collector] = {}
  BY Zenon DEF DidReachTermination, HasWork
<1>2. pc[Mutator] = "idle"
  BY Zenon DEF IInv, Control, Running
<1>3. ASSUME NEW v \in Visitors \ {Collector} PROVE stack[v] = {}
  <2>1. v \notin ActiveSet
    BY <1>1, CountFacts, Zenon
  <2> QED BY <1>2, <2>1, Zenon DEF ActiveSet, ActiveAt, IInv, StackLabels
<1> QED BY <1>1, <1>3, Zenon DEF NoWorkAnywhere

\* No cell is on a stack before a step that ends where termination was found.
LEMMA StillBefore == ASSUME IInv, Next, Still' PROVE NoWorkAnywhere
<1>0. /\ pc \in [Visitors -> Labels] /\ visited \in BOOLEAN
  BY Zenon DEF IInv, Types, TypeOK
<1>1. ASSUME Still PROVE NoWorkAnywhere
  BY <1>1, Zenon DEF IInv, Quiescent, Still
<1> USE VisitorFacts DEF Goto, Quiet, Solving, solver
<1>2. CASE SolverUntouched
  BY <1>1, <1>2, Zenon DEF Still, SolverUntouched
<1>3. ASSUME NEW v \in Visitors, PickNext(v) \/ ExecuteConstraint(v) PROVE NoWorkAnywhere
  <2>1. pc' = pc /\ (visited => visited')
    BY <1>0, <1>3, Zenon DEF PickNext, ExecuteConstraint, Append
  <2> QED BY <1>1, <2>1, Zenon DEF Still
<1>4. CASE TaskReturns(Collector)
  BY <1>0, <1>1, <1>4, Zenon DEF TaskReturns, Still
<1>5. CASE Fixpoint
  BY <1>0, <1>5, TerminationIsGlobal, Zenon DEF Fixpoint, Still
<1>6. CASE ExecuteConvergence \/ ConvergeQuickly
  BY <1>1, <1>6, Zenon DEF ExecuteConvergence, ConvergeQuickly, Still
<1>7. CASE RunTaskInParallelWaits
  BY <1>0, <1>1, <1>7, Zenon DEF RunTaskInParallelWaits, Still
<1>8. CASE DidExecuteConstraints
  BY <1>0, <1>1, <1>8, Zenon DEF DidExecuteConstraints, Converged, Still
<1>9. CASE BeginMarking \/ EndMarking \/ FinishClears \/ FinishReturns
  BY <1>0, <1>1, <1>9, Zenon DEF BeginMarking, EndMarking, FinishClears, FinishReturns, Still
<1> QED BY <1>2, <1>3, <1>4, <1>5, <1>6, <1>7, <1>8, <1>9, SolverSteps, Zenon

\* A constraint that runs while nothing was visited visits nothing.
LEMMA StillRun ==
    ASSUME IInv, Still', NEW v \in Visitors,
           ExecuteConstraint(v) \/ (v = Collector /\ ConvergeQuickly)
    PROVE  ~visited'
<1>0. pc \in [Visitors -> Labels] /\ pc[Mutator] \in MutatorLabels
  BY Zenon DEF IInv, Types, TypeOK
<1>1. CASE ExecuteConstraint(v)
  <2>1. pc' = pc /\ pc[v] = "task"
    BY <1>1, Zenon DEF ExecuteConstraint
  <2>2. pc[Collector] \in {"task", "taskWait"}
    BY <1>0, <2>1, Zenon DEF IInv, Control, Visitors, MutatorLabels
  <2> QED BY <2>1, <2>2, Zenon DEF Still, Quiet
<1>2. CASE ConvergeQuickly
  BY <1>0, <1>2, VisitorFacts, Zenon DEF ConvergeQuickly, Goto, Still, Quiet
<1> QED BY <1>1, <1>2, Zenon

\* While nothing is visited no cell comes onto a stack, and none is marked.
LEMMA StillCells ==
    ASSUME IInv, Next, Still' PROVE NoWorkAnywhere' /\ (BeginMarking \/ marked' = marked)
BY CellSteps, KeptCells, VisitedCells, ConstraintCells, ClearedCells, StillBefore, StillRun, Zenon

\* Every step keeps Quiescent.
LEMMA QuiescentStep == ASSUME IInv, Next PROVE Quiescent'
BY StillCells, Zenon DEF Still, Quiescent

\* A solver that has run all its constraints and visited nothing has found all that is live.
LEMMA ConvergedIsClosed ==
    ASSUME IInv, pc[Collector] = "converged", Converged PROVE marked = Live
<1>1. NoWorkAnywhere /\ todo = {} /\ ToExecute = Constraints /\ pc[Mutator] \in MutatorLabels
  BY DEF IInv, Types, TypeOK, Quiescent, Solving, Solved, Converged, ToExecute
<1>2. \A v \in Visitors : picked[v] = None
  BY <1>1, Zenon DEF IInv, Control, Visitors, MutatorLabels
<1>3. \A k \in Constraints : ConstraintAppends(k) \subseteq marked
  BY <1>1, <1>2, Zenon DEF IInv, Solved, Solving, Converged, Constraints, None
<1>4. \A c \in marked : Children[c] \subseteq marked
  BY <1>1, Zenon DEF IInv, Colours, Grey, NoWorkAnywhere
<1>5. Roots \subseteq marked /\ \A c \in marked : Outgrowths[c] \subseteq marked
  BY <1>3, Zenon DEF Constraints, ConstraintAppends
<1>6. Closed(marked) /\ marked \in SUBSET Cells /\ marked \subseteq Live
  BY <1>4, <1>5, Zenon DEF Closed, IInv, Types, TypeOK, Colours
<1> QED BY <1>6, LiveFacts, Zenon

Asked ==
    \A k \in ToExecute : \/ k \in todo
                         \/ \E v \in Visitors : picked[v] = k
                         \/ ConstraintAppends(k) \subseteq marked

\* No constraint is forgotten between todo, the visitors that run it and the marks.
LEMMA AskedStep ==
    ASSUME IInv, Next, (pc[Collector] \in Solving)', ~visited' PROVE Asked'
<1>0. /\ pc \in [Visitors -> Labels] /\ visited \in BOOLEAN
      /\ picked \in [Visitors -> Constraints \cup {None}] /\ todo \subseteq Constraints
      /\ pc[Collector] \in Solving /\ ~visited => Asked
      /\ \A k \in ToExecute : k \in Constraints
  BY Zenon DEF IInv, Types, TypeOK, Solved, Asked, ToExecute, Constraints
<1> USE VisitorFacts DEF Goto, solver
<1>1. marked' = marked
  <2>1. Still'
    BY Zenon DEF Still
  <2>2. CASE BeginMarking
    BY <1>0, <2>2, Zenon DEF BeginMarking, Solving
  <2> QED BY <2>1, <2>2, StillCells, Zenon
<1>2. \A k : ConstraintAppends(k)' = ConstraintAppends(k)
  BY <1>1, Zenon DEF ConstraintAppends
<1>3. ASSUME pc[Collector] \in Solving, ~visited, UNCHANGED <<iteration, todo, picked>> PROVE Asked'
  BY <1>0, <1>1, <1>2, <1>3, Zenon DEF Asked, ToExecute
<1>4. CASE SolverUntouched
  <2>1. pc[Collector] \in Solving /\ ~visited
    BY <1>4, Zenon DEF SolverUntouched
  <2> QED BY <1>3, <1>4, <2>1, Zenon DEF SolverUntouched
<1>5. ASSUME NEW v \in Visitors, PickNext(v) PROVE Asked'
  <2>1. /\ pc' = pc /\ visited' = visited /\ iteration' = iteration /\ picked[v] = None
        /\ \E k \in todo : picked' = [picked EXCEPT ![v] = k] /\ todo' = todo \ {k}
    BY <1>5, Zenon DEF PickNext
  <2>2. Asked /\ ToExecute' = ToExecute
    BY <1>0, <2>1, Zenon DEF ToExecute
  <2>3. None \notin Constraints
    BY Zenon DEF None, Constraints
  <2>4. ASSUME NEW k \in ToExecute
        PROVE  k \in todo' \/ (\E u \in Visitors : picked'[u] = k) \/ ConstraintAppends(k) \subseteq marked
    BY <1>0, <2>1, <2>2, <2>3, <2>4, Zenon DEF Asked
  <2> QED BY <1>1, <1>2, <2>2, <2>4, Zenon DEF Asked
<1>6. ASSUME NEW v \in Visitors, ExecuteConstraint(v) PROVE Asked'
  <2>1. /\ pc' = pc /\ (visited => visited') /\ iteration' = iteration /\ todo' = todo
        /\ picked' = [picked EXCEPT ![v] = None]
        /\ ~visited' => ConstraintAppends(picked[v]) \subseteq marked
    BY <1>6, Zenon DEF ExecuteConstraint, Append
  <2>2. Asked /\ ToExecute' = ToExecute
    BY <1>0, <2>1, Zenon DEF ToExecute
  <2>3. ASSUME NEW k \in ToExecute
        PROVE  k \in todo' \/ (\E u \in Visitors : picked'[u] = k) \/ ConstraintAppends(k) \subseteq marked
    BY <1>0, <2>1, <2>2, <2>3, Zenon DEF Asked
  <2> QED BY <1>1, <1>2, <2>2, <2>3, Zenon DEF Asked
<1>7. CASE TaskReturns(Collector) \/ RunTaskInParallelWaits
  BY <1>3, <1>7, Zenon DEF TaskReturns, RunTaskInParallelWaits, Solving
<1>8. CASE ExecuteConvergence
  BY <1>8, Zenon DEF ExecuteConvergence, Asked, ToExecute
<1>9. CASE ConvergeQuickly
  <2>1. PICK k \in Constraints : /\ visited' = ~(ConstraintAppends(k) \subseteq marked)
                                 /\ todo' = IF visited' THEN {} ELSE Constraints \ {k}
    BY <1>9, Zenon DEF ConvergeQuickly
  <2>2. ConstraintAppends(k) \subseteq marked /\ todo' = Constraints \ {k}
    BY <2>1, Zenon
  <2>3. ToExecute' = ToExecute
    BY <1>9, Zenon DEF ConvergeQuickly, ToExecute
  <2> QED BY <1>0, <1>1, <1>2, <2>2, <2>3, Zenon DEF Asked
<1>10. CASE \/ BeginMarking \/ Fixpoint \/ DidExecuteConstraints
            \/ EndMarking \/ FinishClears \/ FinishReturns
  BY <1>0, <1>10, Zenon DEF BeginMarking, Fixpoint, DidExecuteConstraints, EndMarking, FinishClears,
                     FinishReturns, Solving
<1> QED BY <1>4, <1>5, <1>6, <1>7, <1>8, <1>9, <1>10, SolverSteps, Zenon
\* Every step keeps Solved.
LEMMA SolvedStep == ASSUME IInv, Next PROVE Solved'
<1>0. /\ pc \in [Visitors -> Labels] /\ visited \in BOOLEAN /\ todo \subseteq Constraints
      /\ pc[Collector] \in {"taskWait", "converged"} => todo = {} \/ visited
      /\ pc[Collector] \in {"end", "finish", "finishWait"} => marked = Live
  BY Zenon DEF IInv, Types, TypeOK, Solved
<1> USE VisitorFacts DEF Goto, solver, Quiet, Solving
<1> DEFINE Done == pc[Collector] \in {"taskWait", "converged"} => todo = {} \/ visited
<1>1. (pc[Collector] \in Solving)' /\ ~visited' => Asked'
  BY AskedStep, Zenon
<1>2. CASE SolverUntouched
  <2>1. Done'
    BY <1>0, <1>2, Zenon DEF SolverUntouched
  <2>2. ASSUME pc'[Collector] \in {"end", "finish", "finishWait"} PROVE marked' = Live
    <3>1. pc[Collector] = pc'[Collector]
      BY <1>2, <2>2, Zenon DEF SolverUntouched
    <3>2. marked' = marked
      BY <2>2, <3>1, StillCells, Zenon DEF Still, BeginMarking
    <3> QED BY <1>0, <2>2, <3>1, <3>2, Zenon
  <2> QED BY <1>1, <2>1, <2>2, Zenon DEF Solved, Asked, Live, Closed
<1>3. ASSUME NEW v \in Visitors, PickNext(v) \/ ExecuteConstraint(v) PROVE Solved'
  <2>1. /\ pc' = pc /\ (visited => visited') /\ pc[v] = "task" /\ todo' \subseteq todo
    BY <1>0, <1>3, Zenon DEF PickNext, ExecuteConstraint, Append
  <2>2. pc[Collector] \notin {"end", "finish", "finishWait"}
    BY <2>1, Zenon DEF IInv, Types, TypeOK, Control, Visitors, MutatorLabels
  <2> QED BY <1>0, <1>1, <2>1, <2>2, Zenon DEF Solved, Asked, Live, Closed
<1>4. CASE TaskReturns(Collector)
  BY <1>0, <1>1, <1>4, Zenon DEF TaskReturns, CanPick, Solved, Asked, Live, Closed
<1>5. CASE BeginMarking \/ Fixpoint \/ ExecuteConvergence
  BY <1>0, <1>1, <1>5, Zenon DEF BeginMarking, Fixpoint, ExecuteConvergence, Solved, Asked, Live, Closed
<1>6. CASE ConvergeQuickly
  <2>1. pc'[Collector] \in {"converged", "task"} /\ (pc'[Collector] = "converged" => visited')
    BY <1>0, <1>6, Zenon DEF ConvergeQuickly
  <2> QED BY <1>1, <2>1, Zenon DEF Solved, Asked, Live, Closed
<1>7. CASE RunTaskInParallelWaits
  BY <1>0, <1>1, <1>7, Zenon DEF RunTaskInParallelWaits, Solved, Asked, Live, Closed
<1>8. CASE DidExecuteConstraints
  <2>1. /\ marked' = marked /\ pc[Collector] = "converged"
        /\ pc'[Collector] \in {"end", "firstDrain"} /\ (pc'[Collector] = "end" => Converged)
    BY <1>0, <1>8, Zenon DEF DidExecuteConstraints, marks
  <2>2. pc'[Collector] = "end" => marked' = Live
    BY <2>1, ConvergedIsClosed, Zenon
  <2> QED BY <2>1, <2>2, Zenon DEF Solved, Live, Closed
<1>9. CASE EndMarking \/ FinishClears \/ FinishReturns
  BY <1>0, <1>9, Zenon DEF EndMarking, FinishClears, FinishReturns, marks, Solved, Live, Closed
<1> QED BY <1>2, <1>3, <1>4, <1>5, <1>6, <1>7, <1>8, <1>9, SolverSteps, Zenon

-----------------------------------------------------------------------------
\* The invariant holds when the heap is created.
LEMMA InitInv == Init => IInv
<1> SUFFICES ASSUME Init PROVE IInv
  BY Zenon
<1> USE VisitorFacts
<1>1. pc = [v \in Visitors |-> "idle"] /\ Types
  <2>1. pc = [v \in Visitors |-> "idle"] /\ pc \in [Visitors -> Labels]
    BY Zenon DEF Init, Labels, HelperLabels
  <2>2. 0 \in 0 .. MaxTimeouts /\ 0 \in 0 .. MaxCollections /\ 1 \in 1 .. 3 /\ 0 \in Nat
    BY BoundsAssumption
  <2>3. /\ \A h \in Helpers : pc[h] \in HelperLabels
        /\ pc[Collector] \in CollectorLabels /\ pc[Mutator] \in MutatorLabels
    BY <2>1, Zenon DEF HelperLabels, CollectorLabels, MutatorLabels
  <2>4. CellTypes /\ FlagTypes
    BY <2>2, Zenon DEF Init, CellTypes, FlagTypes
  <2>5. TypeOK
    BY <2>2, <2>3, <2>4, Zenon DEF Init, TypeOK, CellTypes, FlagTypes
  <2> QED BY <2>1, <2>5, Zenon DEF Types
<1>2. ActiveSet = {} /\ Waiters = {}
  BY <1>1, Zenon DEF ActiveSet, Waiters, ActiveAt
<1>3. Counted
  BY <1>2, FS_EmptySet DEF Init, Counted
<1>4. Control /\ StackLabels /\ Quiescent /\ NoWorkAnywhere
  BY <1>1, Zenon DEF Init, Control, StackLabels, Quiescent, NoWorkAnywhere
<1>5. Colours
  BY <1>4, Zenon DEF Init, Colours, Grey, NoWorkAnywhere
<1>6. Solved
  BY <1>1, Zenon DEF Solved, Solving
<1> QED BY <1>1, <1>3, <1>4, <1>5, <1>6, Zenon DEF IInv

\* A step that changes nothing keeps the invariant.
LEMMA StutterInv == ASSUME IInv, UNCHANGED vars PROVE IInv'
<1>1. /\ UNCHANGED <<marked, stack, shared, active, waiting, shouldExit, bonus, cond, clientTask, pc>>
      /\ UNCHANGED <<concurrent, iteration, todo, picked, visited, elapsed, timeouts, gcIncrements,
                     collections>>
  BY Zenon DEF vars, marks, counters, solver, clock
<1>2. Types'
  BY <1>1, Zenon DEF IInv, Types, TypeOK
<1>3. Counted' /\ Control' /\ StackLabels'
  BY <1>1, Zenon DEF IInv, Counted, ActiveSet, Waiters, Control, StackLabels
<1>4. Colours' /\ Quiescent'
  BY <1>1, Zenon DEF IInv, Colours, Grey, Quiescent, NoWorkAnywhere
<1>5. Solved'
  BY <1>1, Zenon DEF IInv, Solved, ToExecute, ConstraintAppends
<1> QED BY <1>2, <1>3, <1>4, <1>5, Zenon DEF IInv

\* The invariant holds in every reachable state.
LEMMA MarkingInductive == Spec => []IInv
<1>1. IInv /\ [Next]_vars => IInv'
  BY TypeStep, CountStep, ControlStep, StackStep, CellStep, QuiescentStep, SolvedStep, StutterInv, Zenon DEF IInv
<1> QED BY InitInv, <1>1, PTL DEF Spec

\* The mark stacks, the marker counts, the solver's state and the labels of the threads have their types:
\* the decrements of m_numberOfActiveParallelMarkers and m_numberOfWaitingParallelMarkers in
\* drainFromShared never go below zero, for any number of helper threads and any heap.
THEOREM MarkingTypeCorrect == Spec => []TypeOK
<1>1. IInv => TypeOK
  BY Zenon DEF IInv, Types
<1> QED BY <1>1, MarkingInductive, PTL

\* assertMarkStacksEmpty holds where runFixpointPhase and runBeginPhase rely on it, a bonus task has
\* ended in every helper when runTaskInParallel returns, and no marker is left in drainFromShared
\* after m_helperClient.finish(), for any number of helper threads and any heap.
THEOREM NoCellLeftBehind == Spec => []MarkStacksEmpty
<1>1. ASSUME IInv PROVE MarkStacksEmpty
  <2>1. pc[Collector] \in Quiet => NoWorkAnywhere
    BY <1>1, Zenon DEF IInv, Quiescent
  <2>2. pc[Collector] = "converged" => \A h \in Helpers : pc[h] # "task" /\ picked[h] = None
    BY <1>1, VisitorFacts, Zenon DEF IInv, Control
  <2>3. pc[Collector] = "idle" => active = 0 /\ \A h \in Helpers : pc[h] = "idle"
    <3>1. ASSUME pc[Collector] = "idle" PROVE \A h \in Helpers : pc[h] = "idle"
      BY <1>1, <3>1, Zenon DEF IInv, Control
    <3>2. ASSUME pc[Collector] = "idle" PROVE ActiveSet = {}
      BY <3>1, <3>2, VisitorFacts, Zenon DEF ActiveSet, ActiveAt, Visitors
    <3>3. ActiveSet = {} => active = 0
      BY <1>1, FS_EmptySet, Zenon DEF IInv, Counted
    <3> QED BY <3>1, <3>2, <3>3, Zenon
  <2> QED BY <2>1, <2>2, <2>3, Zenon DEF MarkStacksEmpty, Quiet
<1> QED BY <1>1, MarkingInductive, PTL

\* When runFixpointPhase moves to the End phase the marked cells are exactly the live ones, for any
\* number of helper threads and any heap: whatever order the helpers, the collector and the mutator
\* drain, steal and donate in, and whichever constraints run in parallel, no reachable cell is missed.
THEOREM AllLiveCellsMarked == Spec => []MarkingComplete
<1>1. IInv => MarkingComplete
  BY Zenon DEF IInv, Solved, MarkingComplete
<1> QED BY <1>1, MarkingInductive, PTL
====

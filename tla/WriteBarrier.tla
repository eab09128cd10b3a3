---------------------------- MODULE WriteBarrier ----------------------------
(***************************************************************************)
(* Marking while the program runs: the write barrier of the mutator        *)
(* (heap/HeapInlines.h, Heap::addToRememberedSet), the visits of the       *)
(* markers (heap/SlotVisitor.cpp), and the phases of a collection that     *)
(* start from the roots, converge and free what is not marked, for full    *)
(* and eden collections one after the other.                               *)
(*                                                                         *)
(* The stacks of all markers and the shared ones are one set, markStack:   *)
(* ParallelMarking models how they share it.  A cell that is there more    *)
(* than once is still there when it has been taken.  A push to or a pop    *)
(* from a thread's own stack is one step with the change of the cell's     *)
(* state next to it, which is what other threads see.                      *)
(*                                                                         *)
(* The mutator is the thread that holds the JSLock.  It stops only between *)
(* two operations: there is no safepoint inside a store and its barrier.   *)
(* Cells that are not marked are freed when the collection ends; the code  *)
(* sweeps them later.                                                      *)
(***************************************************************************)
EXTENDS Naturals, FiniteSets

CONSTANTS Cells, Slots, Markers, Null,
          CodeBlocks,  \* the cells that are CodeBlocks, executing while a root refers to them
          MaxRoots,    \* bound on the cells the mutator holds at a time
          Copies       \* bound: whether a cell can be on a stack more than once

ASSUME CellsAssumption == Null \notin Cells /\ CodeBlocks \subseteq Cells
ASSUME BoundsAssumption == MaxRoots \in Nat /\ Copies \in BOOLEAN

VARIABLES allocated, roots, slots,          \* what the mutator sees: see ManagedHeap
          cellState, marked,
          markStack, m_mutatorMarkStack, m_raceMarkStack,   \* the cells on each stack
          m_mutatorShouldBeFenced, m_collectionScope,
          m_currentPhase, m_iteration,
          stackScanned,                     \* lastVersion = m_phaseVersion
          mutator, from,                    \* the mutator's place in a barrier, and on which cell
          pc, m_currentCell, left, child,   \* of each marker: slots still to read, cell to mark
          garbage                           \* history: the garbage when a full collection began

heap == <<allocated, roots, slots>>
stacks == <<markStack, m_mutatorMarkStack, m_raceMarkStack>>
cycle == <<m_mutatorShouldBeFenced, m_collectionScope, m_currentPhase, m_iteration,
           stackScanned, garbage>>
barrier == <<mutator, from>>
markers == <<pc, m_currentCell, left, child>>
vars == <<heap, cellState, marked, stacks, cycle, barrier, markers>>

White == "DefinitelyWhite"
Grey == "PossiblyGrey"
Black == "PossiblyBlack"

TypeOK ==
    /\ allocated \in SUBSET Cells /\ roots \in SUBSET Cells /\ marked \in SUBSET Cells
    /\ garbage \in SUBSET Cells
    /\ slots \in [Cells -> [Slots -> Cells \cup {Null}]]
    /\ cellState \in [Cells -> {White, Grey, Black}]
    /\ markStack \in SUBSET Cells /\ m_mutatorMarkStack \in SUBSET Cells
    /\ m_raceMarkStack \in SUBSET Cells
    /\ m_mutatorShouldBeFenced \in BOOLEAN
    /\ m_collectionScope \in {"none", "Full", "Eden"}
    /\ m_currentPhase \in {"NotRunning", "Fixpoint", "Concurrent", "End"}
    /\ m_iteration \in {1, 2}
    /\ stackScanned \in BOOLEAN
    /\ mutator \in {"run", "check", "slow", "remember", "rewhite", "recheck", "reblack", "grey"}
    /\ from \in Cells \cup {Null} /\ (mutator = "run" <=> from = Null)
    /\ pc \in [Markers -> {"idle", "scan", "mark", "grey"}]
    /\ m_currentCell \in [Markers -> Cells \cup {Null}]
    /\ left \in [Markers -> SUBSET Slots]
    /\ child \in [Markers -> Cells \cup {Null}]
    /\ \A k \in Markers : pc[k] = "idle" <=> m_currentCell[k] = Null

Init ==
    /\ allocated = {} /\ roots = {}
    /\ slots = [c \in Cells |-> [s \in Slots |-> Null]]
    /\ cellState = [c \in Cells |-> White]
    /\ marked = {}
    /\ markStack = {} /\ m_mutatorMarkStack = {} /\ m_raceMarkStack = {}
    /\ m_mutatorShouldBeFenced = FALSE /\ m_collectionScope = "none"
    /\ m_currentPhase = "NotRunning" /\ m_iteration = 1 /\ stackScanned = FALSE
    /\ mutator = "run" /\ from = Null
    /\ pc = [k \in Markers |-> "idle"]
    /\ m_currentCell = [k \in Markers |-> Null]
    /\ left = [k \in Markers |-> {}]
    /\ child = [k \in Markers |-> Null]
    /\ garbage = {}

MH == INSTANCE ManagedHeap

-----------------------------------------------------------------------------
(* The mutator                                                              *)

worldIsStopped == m_currentPhase \in {"Fixpoint", "End"}

Running == ~worldIsStopped /\ mutator = "run" /\ Cardinality(roots') <= MaxRoots

\* Mutant: a new cell is allocated black
AllocateBlack(c) ==
    /\ MH!Allocate(c)
    /\ Running
    /\ cellState' = [cellState EXCEPT ![c] = Black]
    /\ UNCHANGED <<marked, stacks, cycle, barrier, markers>>

\* A new cell is white and not marked, in a collection or not
Allocate(c) ==
    /\ MH!Allocate(c)
    /\ Running
    /\ cellState' = [cellState EXCEPT ![c] = White]
    /\ UNCHANGED <<marked, stacks, cycle, barrier, markers>>

Load(c, s) ==
    /\ MH!Load(c, s)
    /\ Running
    /\ UNCHANGED <<cellState, marked, stacks, cycle, barrier, markers>>

Forget(c) ==
    /\ MH!Forget(c)
    /\ Running
    /\ UNCHANGED <<cellState, marked, stacks, cycle, barrier, markers>>

\* WriteBarrierBase::set: the store comes before the barrier, which a null does not need
Set(c, s, v) ==
    /\ MH!Store(c, s, v)
    /\ Running
    /\ IF v = Null THEN UNCHANGED barrier ELSE mutator' = "check" /\ from' = c
    /\ UNCHANGED <<cellState, marked, stacks, cycle, markers>>

At(l) == mutator = l /\ UNCHANGED <<heap, marked, markStack, m_raceMarkStack, cycle, markers>>
Goto(l) == mutator' = l /\ UNCHANGED from
Done == mutator' = "run" /\ from' = Null

Resume == UNCHANGED <<cellState, m_mutatorMarkStack>>

\* isWithinThreshold(from->cellState(), barrierThreshold()): in a collection the threshold is
\* tautological
writeBarrier ==
    /\ At("check")
    /\ \/ m_mutatorShouldBeFenced /\ Goto("slow")
       \/ ~m_mutatorShouldBeFenced /\ cellState[from] = Black /\ Goto("remember")
       \/ ~m_mutatorShouldBeFenced /\ cellState[from] # Black /\ Done
    /\ Resume

\* The second look at the state, after storeLoadFence
writeBarrierSlowPath ==
    /\ At("slow")
    /\ IF cellState[from] = Black THEN Goto("remember") ELSE Done
    /\ Resume

addToRememberedSet ==
    /\ At("remember")
    /\ IF m_mutatorShouldBeFenced /\ from \notin marked THEN Goto("rewhite") ELSE Goto("grey")
    /\ Resume

\* Mutant: after the compare-and-swap the mark is not looked at again
ReWhiteOnly ==
    /\ At("rewhite")
    /\ \/ /\ cellState[from] = Black
          /\ cellState' = [cellState EXCEPT ![from] = White]
          /\ Done
       \/ cellState[from] # Black /\ Done /\ UNCHANGED cellState
    /\ UNCHANGED m_mutatorMarkStack

\* The compare-and-swap of a cell that was not marked
ReWhite ==
    /\ At("rewhite")
    /\ \/ /\ cellState[from] = Black
          /\ cellState' = [cellState EXCEPT ![from] = White]
          /\ Goto("recheck")
       \/ cellState[from] # Black /\ Done /\ UNCHANGED cellState
    /\ UNCHANGED m_mutatorMarkStack

\* It was marked after all, when the compare-and-swap came
ReCheck ==
    /\ At("recheck")
    /\ IF from \in marked THEN Goto("reblack") ELSE Done
    /\ Resume

ReBlack ==
    /\ At("reblack")
    /\ cellState' = [cellState EXCEPT ![from] = Black]
    /\ Done
    /\ UNCHANGED m_mutatorMarkStack

Remember ==
    /\ At("grey")
    /\ cellState' = [cellState EXCEPT ![from] = Grey]
    /\ m_mutatorMarkStack' = m_mutatorMarkStack \cup {from}
    /\ Done

Barrier ==
    writeBarrier \/ writeBarrierSlowPath \/ addToRememberedSet \/ ReWhite \/ ReCheck \/ ReBlack
    \/ Remember

-----------------------------------------------------------------------------
(* A marker                                                                 *)

Step(k, from_, to) ==
    /\ pc[k] = from_ /\ pc' = [pc EXCEPT ![k] = to]
    /\ m_currentPhase \in {"Fixpoint", "Concurrent"}
    /\ UNCHANGED <<heap, m_mutatorMarkStack, cycle, barrier>>

\* Mutant: the cell stays grey while its slots are read
VisitUncoloured(k, c) ==
    /\ Step(k, "idle", "scan")
    /\ c \in markStack /\ (markStack' = markStack \ {c} \/ (Copies /\ UNCHANGED markStack))
    /\ m_currentCell' = [m_currentCell EXCEPT ![k] = c]
    /\ left' = [left EXCEPT ![k] = Slots]
    /\ UNCHANGED <<cellState, marked, m_raceMarkStack, child>>

\* A cell comes off the stack (drain) and is black before its first slot is read
visitChildren(k, c) ==
    /\ Step(k, "idle", "scan")
    /\ c \in markStack /\ (markStack' = markStack \ {c} \/ (Copies /\ UNCHANGED markStack))
    /\ m_currentCell' = [m_currentCell EXCEPT ![k] = c]
    /\ cellState' = [cellState EXCEPT ![c] = Black]
    /\ left' = [left EXCEPT ![k] = Slots]
    /\ UNCHANGED <<marked, m_raceMarkStack, child>>

\* One slot is read; a null is skipped
appendHidden(k, s) ==
    /\ s \in left[k]
    /\ left' = [left EXCEPT ![k] = @ \ {s}]
    /\ LET v == slots[m_currentCell[k]][s]
       IN IF v = Null
          THEN Step(k, "scan", "scan") /\ UNCHANGED child
          ELSE Step(k, "scan", "mark") /\ child' = [child EXCEPT ![k] = v]
    /\ UNCHANGED <<cellState, marked, markStack, m_raceMarkStack, m_currentCell>>

\* The mutator changed the layout of the cell while it was read (JSObject::visitButterfly): the
\* slot is not visited, the cell is kept for another visit
didRace(k, s) ==
    /\ Step(k, "scan", "scan") /\ m_currentPhase = "Concurrent"
    /\ s \in left[k]
    /\ left' = [left EXCEPT ![k] = @ \ {s}]
    /\ cellState' = [cellState EXCEPT ![m_currentCell[k]] = Grey]
    /\ m_raceMarkStack' = m_raceMarkStack \cup {m_currentCell[k]}
    /\ UNCHANGED <<marked, markStack, m_currentCell, child>>

testAndSetMarked(k) ==
    /\ \/ child[k] \in marked /\ Step(k, "mark", "scan") /\ UNCHANGED marked
       \/ child[k] \notin marked /\ Step(k, "mark", "grey") /\ marked' = marked \cup {child[k]}
    /\ child' = [child EXCEPT ![k] = IF @ \in marked THEN Null ELSE @]
    /\ UNCHANGED <<cellState, markStack, m_raceMarkStack, m_currentCell, left>>

appendToMarkStack(k) ==
    /\ Step(k, "grey", "scan")
    /\ cellState' = [cellState EXCEPT ![child[k]] = Grey]
    /\ markStack' = markStack \cup {child[k]}
    /\ child' = [child EXCEPT ![k] = Null]
    /\ UNCHANGED <<marked, m_raceMarkStack, m_currentCell, left>>

\* visitChildren returns, and SetCurrentCellScope forgets the cell
Visited(k) ==
    /\ Step(k, "scan", "idle")
    /\ left[k] = {}
    /\ m_currentCell' = [m_currentCell EXCEPT ![k] = Null]
    /\ UNCHANGED <<cellState, marked, markStack, m_raceMarkStack, left, child>>

Marker(k) ==
    \/ \E c \in Cells : visitChildren(k, c)
    \/ \E s \in Slots : appendHidden(k, s) \/ didRace(k, s)
    \/ testAndSetMarked(k) \/ appendToMarkStack(k) \/ Visited(k)

-----------------------------------------------------------------------------
(* The phases of a collection                                               *)

didReachTermination == markStack = {} /\ \A k \in Markers : pc[k] = "idle"

\* finishChangingPhase: another m_phaseVersion
ChangePhase(a, b) ==
    /\ m_currentPhase = a /\ m_currentPhase' = b
    /\ stackScanned' = FALSE
    /\ UNCHANGED <<heap, barrier, markers>>

Garbage == UNION {G \in SUBSET allocated : MH!Unreferenced(G)}

\* Mutant: a full collection keeps the remembered set
BeginRemembering(scope) ==
    /\ mutator = "run"
    /\ ChangePhase("NotRunning", "Fixpoint")
    /\ m_collectionScope' = scope
    /\ m_mutatorShouldBeFenced' = TRUE
    /\ m_iteration' = 1
    /\ IF scope = "Full"
       THEN marked' = {} /\ garbage' = Garbage
       ELSE UNCHANGED <<marked, garbage>>
    /\ UNCHANGED <<cellState, stacks>>

\* The mutator stops; a full collection forgets all marks and the remembered set, an eden
\* collection starts from both
runBeginPhase(scope) ==
    /\ mutator = "run"
    /\ ChangePhase("NotRunning", "Fixpoint")
    /\ m_collectionScope' = scope
    /\ m_mutatorShouldBeFenced' = TRUE
    /\ m_iteration' = 1
    /\ IF scope = "Full"
       THEN marked' = {} /\ m_mutatorMarkStack' = {} /\ garbage' = Garbage
       ELSE UNCHANGED <<marked, m_mutatorMarkStack, garbage>>
    /\ UNCHANGED <<cellState, markStack, m_raceMarkStack>>

\* The conservative scan, skipped when it was made in this very phase, and the merging of
\* the mutator's stack and of the race stack
ScanFinds == IF stackScanned THEN {} ELSE roots \ marked
Merges == m_mutatorMarkStack # {} \/ m_raceMarkStack # {}
Produces(constraint) == IF constraint = "Cs" THEN ScanFinds # {} ELSE Merges

Execute(constraints) ==
    LET found == IF "Cs" \in constraints THEN ScanFinds ELSE {}
        msm == "Msm" \in constraints
    IN /\ marked' = marked \cup found
       /\ cellState' = [c \in Cells |-> IF c \in found THEN Grey ELSE cellState[c]]
       /\ stackScanned' = (stackScanned \/ "Cs" \in constraints)
       /\ markStack' = markStack \cup found
              \cup (IF msm THEN m_mutatorMarkStack \cup m_raceMarkStack ELSE {})
       /\ m_mutatorMarkStack' = (IF msm THEN {} ELSE m_mutatorMarkStack)
       /\ m_raceMarkStack' = (IF msm THEN {} ELSE m_raceMarkStack)

\* The first round executes the constraints on roots, and has never converged.  The second, for
\* the constraints on outgrowths, is left out: the model has none.  The later ones execute
\* constraints in some order until one produces work, and have converged when all were executed
\* and none did.
executeConvergence ==
    /\ m_currentPhase = "Fixpoint" /\ didReachTermination
    /\ UNCHANGED <<heap, barrier, markers, m_mutatorShouldBeFenced, m_collectionScope, garbage>>
    /\ \/ m_iteration = 1 /\ Execute({"Cs", "Msm"}) /\ m_iteration' = 2 /\ UNCHANGED m_currentPhase
       \/ /\ m_iteration = 2 /\ UNCHANGED m_iteration
          /\ \E constraints \in SUBSET {"Cs", "Msm"} :
              /\ Execute(constraints)
              /\ \/ (\E x \in constraints : Produces(x)) /\ UNCHANGED m_currentPhase
                 \/ /\ constraints = {"Cs", "Msm"}
                    /\ \A x \in constraints : ~Produces(x)
                    /\ m_currentPhase' = "End"

\* It is time to let the mutator run, and there is work left for the markers
runFixpointPhase ==
    /\ ~didReachTermination
    /\ ChangePhase("Fixpoint", "Concurrent")
    /\ UNCHANGED <<cellState, marked, stacks, m_mutatorShouldBeFenced, m_collectionScope,
                   m_iteration, garbage>>

\* The Concurrent and the Reloop phase end: the mutator stops
runConcurrentPhase ==
    /\ mutator = "run"
    /\ ChangePhase("Concurrent", "Fixpoint")
    /\ UNCHANGED <<cellState, marked, stacks, m_mutatorShouldBeFenced, m_collectionScope,
                   m_iteration, garbage>>

\* The executing CodeBlocks are barriered, what is not marked is freed, and the barrier is
\* as it is between collections
runEndPhase ==
    LET executing == {c \in CodeBlocks \cap roots \cap marked : cellState[c] = Black}
        dead == allocated \ marked
    IN /\ m_currentPhase = "End" /\ m_currentPhase' = "NotRunning"
       /\ cellState' = [c \in Cells |-> CASE c \in dead -> White
                                         [] c \in executing -> Grey
                                         [] OTHER -> cellState[c]]
       /\ m_mutatorMarkStack' = m_mutatorMarkStack \cup executing
       /\ allocated' = allocated \ dead
       /\ slots' = [c \in Cells |-> IF c \in dead THEN [s \in Slots |-> Null] ELSE slots[c]]
       /\ m_mutatorShouldBeFenced' = FALSE /\ m_collectionScope' = "none"
       /\ m_iteration' = 1 /\ stackScanned' = FALSE /\ garbage' = {}
       /\ UNCHANGED <<roots, marked, markStack, m_raceMarkStack, barrier, markers>>

Collection ==
    \/ \E scope \in {"Full", "Eden"} : runBeginPhase(scope)
    \/ executeConvergence \/ runFixpointPhase \/ runConcurrentPhase \/ runEndPhase

Next ==
    \/ \E c \in Cells :
        \/ Allocate(c) \/ Forget(c)
        \/ \E s \in Slots : Load(c, s) \/ \E v \in Cells \cup {Null} : Set(c, s, v)
    \/ Barrier
    \/ \E k \in Markers : Marker(k)
    \/ Collection

Spec == Init /\ [][Next]_vars

-----------------------------------------------------------------------------
(* Properties                                                               *)

\* c will be visited, from its first slot on
Awaits(c) ==
    \/ c \in markStack \cup m_mutatorMarkStack \cup m_raceMarkStack
    \/ from = c /\ mutator = "grey"
    \/ \E k \in Markers : child[k] = c /\ pc[k] = "grey"

\* A marker is at slot s of c or has what was there in hand, or the mutator is in the barrier
\* of a store to c
InHand(c, s) ==
    \/ \E k \in Markers : \/ m_currentCell[k] = c /\ s \in left[k]
                          \/ child[k] = slots[c][s] /\ pc[k] = "mark"
    \/ from = c /\ mutator \in {"check", "slow", "remember"}

\* The wavefront (writeBarrier, addToRememberedSet, visitChildren): when a marked cell refers to
\* a cell that is not marked, the marked one is still to be visited, or a marker or a barrier is
\* about to see the reference.
Wavefront ==
    \A c \in marked : \A s \in Slots :
        slots[c][s] \in Cells \ marked => Awaits(c) \/ InHand(c, s)

\* What the assertions of addToRememberedSet (Heap.cpp:1085 and 1115), of runBeginPhase
\* (Heap.cpp:1371, 1416) and of runEndPhase (Heap.cpp:1572-1573) say: only in a full collection
\* does a barrier meet a black cell that is not marked, and the stacks are empty where they
\* should be.
AssertionsHold ==
    /\ mutator = "remember" /\ from \notin marked => m_collectionScope = "Full"
    /\ m_currentPhase = "NotRunning" => m_raceMarkStack = {} /\ didReachTermination
    /\ m_currentPhase = "End" =>
           m_mutatorMarkStack = {} /\ m_raceMarkStack = {} /\ didReachTermination

\* A full collection is precise: no cell that was garbage when it began gets marked, so that
\* runEndPhase frees it (runBeginPhase clears what the last cycles remembered).
GarbageNotMarked == m_collectionScope = "Full" => garbage \cap marked = {}

\* The collector keeps the promise of a managed heap: only cells the mutator could not get at
\* any more go away (runEndPhase), whatever it stored where and while marking went on.
ImplementsManagedHeap == MH!Spec

=============================================================================

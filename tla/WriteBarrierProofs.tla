------------------------- MODULE WriteBarrierProofs -------------------------
(***************************************************************************)
(* Proofs for WriteBarrier, for any set of cells, slots and markers.       *)
(***************************************************************************)
EXTENDS WriteBarrier, TLAPS

\* Nothing refers to a cell that is no object: the program, the slots of objects, the stacks,
\* the markers and the barrier
Objects ==
    /\ marked \subseteq allocated /\ roots \subseteq allocated
    /\ \A c \in allocated : \A s \in Slots : slots[c][s] \in allocated \cup {Null}
    /\ markStack \subseteq marked /\ m_mutatorMarkStack \subseteq marked
    /\ m_raceMarkStack \subseteq marked
    /\ \A k \in Markers : /\ pc[k] = "idle" => left[k] = {}
                          /\ pc[k] # "idle" => m_currentCell[k] \in marked
                          /\ pc[k] = "mark" => child[k] \in allocated
                          /\ pc[k] = "grey" => child[k] \in marked
    /\ from # Null => from \in roots
    /\ mutator \in {"grey", "reblack"} => from \in marked

\* What holds in a phase: who is at rest, which stacks are empty, and that a scan of the stack
\* in this phase has marked the roots
Phases ==
    /\ m_currentPhase = "NotRunning" <=> m_collectionScope = "none"
    /\ m_mutatorShouldBeFenced <=> m_currentPhase # "NotRunning"
    /\ worldIsStopped => mutator = "run"
    /\ m_currentPhase \in {"NotRunning", "End"} => didReachTermination /\ m_raceMarkStack = {}
    /\ m_currentPhase = "End" => m_mutatorMarkStack = {} /\ roots \subseteq marked
    /\ stackScanned => worldIsStopped /\ roots \subseteq marked

\* What the state of a cell tells: outside a full collection a cell that is not marked is white,
\* and a marked one that is not black awaits a visit or is about to be black again
Colours ==
    /\ m_collectionScope # "Full" => \A c \in allocated \ marked : cellState[c] = White
    /\ \A c \in marked : cellState[c] # Black =>
           Awaits(c) \/ (from = c /\ mutator \in {"recheck", "reblack"})
    /\ mutator = "remember" /\ from \notin marked => m_collectionScope = "Full"

\* The inductive invariant.  Wavefront is not inductive alone: a barrier that finds a cell not
\* black returns, and Colours says that the cell then awaits a visit.
IInv == TypeOK /\ Objects /\ Phases /\ Colours /\ Wavefront

\* What a round of executeConvergence comes to: it finds roots that were not marked, it may move
\* the two stacks, and it ends marking only when there was nothing to find or to move
Round(found, moved) ==
    /\ m_currentPhase = "Fixpoint" /\ didReachTermination
    /\ marked' = marked \cup found
    /\ cellState' = [c \in Cells |-> IF c \in found THEN Grey ELSE cellState[c]]
    /\ markStack' = found \cup (IF moved THEN m_mutatorMarkStack \cup m_raceMarkStack ELSE {})
    /\ m_mutatorMarkStack' = (IF moved THEN {} ELSE m_mutatorMarkStack)
    /\ m_raceMarkStack' = (IF moved THEN {} ELSE m_raceMarkStack)
    /\ stackScanned' \in BOOLEAN
    /\ stackScanned' => stackScanned \/ found = roots \ marked
    /\ m_iteration' \in {1, 2}
    /\ \/ m_currentPhase' = "Fixpoint"
       \/ /\ m_currentPhase' = "End" /\ stackScanned'
          /\ found = {} /\ m_mutatorMarkStack = {} /\ m_raceMarkStack = {}
    /\ UNCHANGED <<heap, barrier, markers, m_mutatorShouldBeFenced, m_collectionScope, garbage>>

LEMMA RoundFacts ==
    ASSUME TypeOK, executeConvergence
    PROVE  \E found \in SUBSET (roots \ marked), moved \in BOOLEAN : Round(found, moved)
<1>1. PICK constraints \in SUBSET {"Cs", "Msm"} :
        /\ Execute(constraints)
        /\ m_iteration' \in {1, 2}
        /\ \/ UNCHANGED m_currentPhase
           \/ /\ constraints = {"Cs", "Msm"} /\ m_currentPhase' = "End"
              /\ \A x \in constraints : ~Produces(x)
  <2>1. CASE m_iteration = 1
    <3>1. Execute({"Cs", "Msm"}) /\ m_iteration' = 2 /\ UNCHANGED m_currentPhase
      BY <2>1 DEF executeConvergence
    <3> QED BY <3>1, Zenon
  <2>2. CASE m_iteration # 1
    <3>1. PICK constraints \in SUBSET {"Cs", "Msm"} :
            /\ Execute(constraints) /\ m_iteration' \in {1, 2}
            /\ \/ UNCHANGED m_currentPhase
               \/ /\ constraints = {"Cs", "Msm"} /\ m_currentPhase' = "End"
                  /\ \A x \in constraints : ~Produces(x)
      BY <2>2, Zenon DEF executeConvergence
    <3> QED BY <3>1, Zenon
  <2> QED BY <2>1, <2>2, Zenon
<1> DEFINE found == IF "Cs" \in constraints THEN ScanFinds ELSE {}
<1> DEFINE moved == "Msm" \in constraints
<1>2. found \in SUBSET (roots \ marked) /\ moved \in BOOLEAN
  BY DEF ScanFinds
<1>3. m_currentPhase = "Fixpoint" /\ didReachTermination /\ markStack = {}
      /\ UNCHANGED <<heap, barrier, markers, m_mutatorShouldBeFenced, m_collectionScope, garbage>>
  BY Zenon DEF executeConvergence, didReachTermination
<1>4. stackScanned' => stackScanned \/ found = roots \ marked
  BY <1>1, Zenon DEF Execute, ScanFinds
<1>5. ASSUME constraints = {"Cs", "Msm"}, \A x \in constraints : ~Produces(x)
      PROVE  /\ found = {} /\ m_mutatorMarkStack = {} /\ m_raceMarkStack = {} /\ stackScanned'
  BY <1>1, <1>5, Zenon DEF Execute, Produces, Merges
<1>6. Round(found, moved)
  BY <1>1, <1>3, <1>4, <1>5, Zenon DEF Round, Execute, TypeOK
<1> QED BY <1>2, <1>6, Zenon

\* Why nothing dangles after a collection: when marking ends, nobody awaits a visit or has a
\* reference in hand, so that marked cells refer to marked cells only
LEMMA EndFacts ==
    ASSUME IInv, m_currentPhase = "End"
    PROVE  /\ roots \subseteq marked
           /\ \A c \in marked : \A s \in Slots : slots[c][s] \in marked \cup {Null}
<1>1. /\ roots \subseteq marked /\ mutator = "run" /\ from = Null
      /\ markStack = {} /\ m_mutatorMarkStack = {} /\ m_raceMarkStack = {}
      /\ \A k \in Markers : pc[k] = "idle" /\ left[k] = {}
  BY Zenon DEF IInv, TypeOK, Objects, Phases, worldIsStopped, didReachTermination
<1>2. ASSUME NEW c \in marked, NEW s \in Slots, slots[c][s] \notin marked \cup {Null} PROVE FALSE
  <2>1. c \in Cells /\ slots[c][s] \in Cells \ marked
    BY <1>2 DEF IInv, TypeOK
  <2>2. Awaits(c) \/ InHand(c, s)
    BY <2>1, Zenon DEF IInv, Wavefront
  <2> QED BY <1>1, <2>1, <2>2, CellsAssumption, Zenon DEF Awaits, InHand
<1> QED BY <1>1, <1>2, Zenon

\* Every step keeps the types
LEMMA TypeStep ==
    ASSUME IInv, [Next]_vars
    PROVE  TypeOK'
<1> USE DEF At, Goto, Done, Resume, Step, Running, ChangePhase, heap, stacks, cycle, barrier,
   markers
<1>1. ASSUME NEW c \in Cells, Allocate(c) PROVE TypeOK'
  BY <1>1, Zenon DEF IInv, TypeOK, White, Grey, Black, Allocate, MH!Allocate
<1>2. ASSUME NEW c \in Cells, Forget(c) PROVE TypeOK'
  BY <1>2, Zenon DEF IInv, TypeOK, White, Grey, Black, Forget, MH!Forget
<1>3. ASSUME NEW c \in Cells, NEW s \in Slots, Load(c, s) PROVE TypeOK'
  BY <1>3 DEF IInv, TypeOK, White, Grey, Black, Load, MH!Load
<1>4. ASSUME NEW c \in Cells, NEW s \in Slots, NEW v \in Cells \cup {Null}, Set(c, s, v)
      PROVE  TypeOK'
  BY CellsAssumption, <1>4 DEF IInv, TypeOK, White, Grey, Black, Set, MH!Store
<1>5. CASE writeBarrier
  BY <1>5, Zenon DEF IInv, TypeOK, White, Grey, Black, writeBarrier
<1>6. CASE writeBarrierSlowPath
  BY <1>6, Zenon DEF IInv, TypeOK, White, Grey, Black, writeBarrierSlowPath
<1>7. CASE addToRememberedSet
  BY <1>7, Zenon DEF IInv, TypeOK, White, Grey, Black, addToRememberedSet
<1>8. CASE ReWhite
  BY <1>8, Zenon DEF IInv, TypeOK, White, Grey, Black, ReWhite
<1>9. CASE ReCheck
  BY <1>9, Zenon DEF IInv, TypeOK, White, Grey, Black, ReCheck
<1>10. CASE ReBlack
  BY <1>10, Zenon DEF IInv, TypeOK, White, Grey, Black, ReBlack
<1>11. CASE Remember
  BY <1>11, Zenon DEF IInv, TypeOK, White, Grey, Black, Remember
<1>12. ASSUME NEW k \in Markers, NEW c \in Cells, visitChildren(k, c) PROVE TypeOK'
  BY CellsAssumption, <1>12 DEF IInv, TypeOK, White, Grey, Black, visitChildren
<1>13. ASSUME NEW k \in Markers, NEW s \in Slots, appendHidden(k, s) PROVE TypeOK'
  BY <1>13, SMTT(20) DEF IInv, TypeOK, White, Grey, Black, appendHidden
<1>14. ASSUME NEW k \in Markers, NEW s \in Slots, didRace(k, s) PROVE TypeOK'
  BY <1>14 DEF IInv, TypeOK, White, Grey, Black, didRace
<1>15. ASSUME NEW k \in Markers, testAndSetMarked(k) PROVE TypeOK'
  <2>1. child[k] \in Cells
    BY <1>15, Zenon DEF IInv, TypeOK, Objects, testAndSetMarked
  <2> QED BY <1>15, <2>1 DEF IInv, TypeOK, testAndSetMarked
<1>16. ASSUME NEW k \in Markers, appendToMarkStack(k) PROVE TypeOK'
  <2>1. child[k] \in Cells
    BY <1>16, Zenon DEF IInv, TypeOK, Objects, appendToMarkStack
  <2> QED BY <1>16, <2>1 DEF IInv, TypeOK, White, Grey, Black, appendToMarkStack
<1>17. ASSUME NEW k \in Markers, Visited(k) PROVE TypeOK'
  BY <1>17 DEF IInv, TypeOK, White, Grey, Black, Visited
<1>18. ASSUME NEW scope \in {"Full", "Eden"}, runBeginPhase(scope) PROVE TypeOK'
  <2>1. Garbage \subseteq Cells
    BY Zenon DEF IInv, TypeOK, Garbage
  <2> QED BY <1>18, <2>1, Zenon DEF IInv, TypeOK, White, Grey, Black, runBeginPhase
<1>19. CASE executeConvergence
  <2>1. PICK found \in SUBSET (roots \ marked), moved \in BOOLEAN : Round(found, moved)
    BY <1>19, RoundFacts, Zenon DEF IInv
  <2> QED BY CellsAssumption, <2>1, Zenon DEF IInv, TypeOK, White, Grey, Black, Round, didReachTermination
<1>20. CASE runFixpointPhase
  BY <1>20, Zenon DEF IInv, TypeOK, White, Grey, Black, runFixpointPhase
<1>21. CASE runConcurrentPhase
  BY <1>21, Zenon DEF IInv, TypeOK, White, Grey, Black, runConcurrentPhase
<1>22. CASE runEndPhase
  BY <1>22, Zenon DEF IInv, TypeOK, White, Grey, Black, runEndPhase
<1>23. CASE UNCHANGED vars
  BY <1>23 DEF IInv, TypeOK, White, Grey, Black, vars
<1> QED BY <1>1, <1>2, <1>3, <1>4, <1>5, <1>6, <1>7, <1>8, <1>9, <1>10, <1>11, <1>12, <1>13,
   <1>14, <1>15, <1>16, <1>17, <1>18, <1>19, <1>20, <1>21, <1>22, <1>23, Zenon DEF Next, Barrier, Marker,
   Collection

\* Every step keeps references within the objects
LEMMA ObjectsStep ==
    ASSUME IInv, [Next]_vars
    PROVE  Objects'
<1> USE DEF At, Goto, Done, Resume, Step, Running, ChangePhase, heap, stacks, cycle, barrier,
   markers
<1>1. ASSUME NEW c \in Cells, Allocate(c) PROVE Objects'
  BY <1>1 DEF IInv, TypeOK, Objects, Allocate, MH!Allocate
<1>2. ASSUME NEW c \in Cells, Forget(c) PROVE Objects'
  BY <1>2, Zenon DEF IInv, TypeOK, Objects, Forget, MH!Forget
<1>3. ASSUME NEW c \in Cells, NEW s \in Slots, Load(c, s) PROVE Objects'
  BY <1>3 DEF IInv, TypeOK, Objects, Load, MH!Load
<1>4. ASSUME NEW c \in Cells, NEW s \in Slots, NEW v \in Cells \cup {Null}, Set(c, s, v)
      PROVE  Objects'
  BY <1>4 DEF IInv, TypeOK, Objects, Set, MH!Store
<1>5. CASE writeBarrier
  BY <1>5, Zenon DEF IInv, TypeOK, Objects, writeBarrier
<1>6. CASE writeBarrierSlowPath
  BY <1>6, Zenon DEF IInv, TypeOK, Objects, writeBarrierSlowPath
<1>7. CASE addToRememberedSet
  BY <1>7, Zenon DEF IInv, TypeOK, Objects, Phases, Colours, addToRememberedSet
<1>8. CASE ReWhite
  BY <1>8, Zenon DEF IInv, TypeOK, Objects, ReWhite
<1>9. CASE ReCheck
  BY <1>9, Zenon DEF IInv, TypeOK, Objects, ReCheck
<1>10. CASE ReBlack
  BY <1>10, Zenon DEF IInv, TypeOK, Objects, ReBlack
<1>11. CASE Remember
  BY <1>11, Zenon DEF IInv, TypeOK, Objects, Remember
<1>12. ASSUME NEW k \in Markers, NEW c \in Cells, visitChildren(k, c) PROVE Objects'
  BY <1>12, Zenon DEF IInv, TypeOK, Objects, visitChildren
<1>13. ASSUME NEW k \in Markers, NEW s \in Slots, appendHidden(k, s) PROVE Objects'
  BY <1>13 DEF IInv, TypeOK, Objects, appendHidden
<1>14. ASSUME NEW k \in Markers, NEW s \in Slots, didRace(k, s) PROVE Objects'
  BY <1>14 DEF IInv, TypeOK, Objects, didRace
<1>15. ASSUME NEW k \in Markers, testAndSetMarked(k) PROVE Objects'
  BY <1>15 DEF IInv, TypeOK, Objects, testAndSetMarked
<1>16. ASSUME NEW k \in Markers, appendToMarkStack(k) PROVE Objects'
  BY <1>16 DEF IInv, TypeOK, Objects, appendToMarkStack
<1>17. ASSUME NEW k \in Markers, Visited(k) PROVE Objects'
  BY <1>17, Zenon DEF IInv, TypeOK, Objects, Visited
<1>18. ASSUME NEW scope \in {"Full", "Eden"}, runBeginPhase(scope) PROVE Objects'
  BY <1>18, Zenon DEF IInv, TypeOK, Objects, Phases, didReachTermination, runBeginPhase
<1>19. CASE executeConvergence
  <2>1. PICK found \in SUBSET (roots \ marked), moved \in BOOLEAN : Round(found, moved)
    BY <1>19, RoundFacts, Zenon DEF IInv
  <2> QED BY CellsAssumption, <2>1, Zenon DEF IInv, TypeOK, Objects, Round, didReachTermination
<1>20. CASE runFixpointPhase
  BY <1>20, Zenon DEF IInv, TypeOK, Objects, runFixpointPhase
<1>21. CASE runConcurrentPhase
  BY <1>21, Zenon DEF IInv, TypeOK, Objects, runConcurrentPhase
<1>22. CASE runEndPhase
  <2>1. m_currentPhase = "End" /\ from = Null /\ mutator = "run" /\ \A k \in Markers : pc[k] =
     "idle"
    BY <1>22, Zenon DEF IInv, TypeOK, Phases, worldIsStopped, didReachTermination, runEndPhase
  <2> QED BY <1>22, <2>1, EndFacts, Zenon DEF IInv, TypeOK, Objects, runEndPhase
<1>23. CASE UNCHANGED vars
  BY <1>23, Zenon DEF IInv, TypeOK, Objects, vars
<1> QED BY <1>1, <1>2, <1>3, <1>4, <1>5, <1>6, <1>7, <1>8, <1>9, <1>10, <1>11, <1>12, <1>13,
   <1>14, <1>15, <1>16, <1>17, <1>18, <1>19, <1>20, <1>21, <1>22, <1>23, Zenon DEF Next, Barrier, Marker,
   Collection

\* Every step keeps what holds in a phase
LEMMA PhasesStep ==
    ASSUME IInv, [Next]_vars
    PROVE  Phases'
<1> USE DEF At, Goto, Done, Resume, Step, Running, ChangePhase, heap, stacks, cycle, barrier,
   markers
<1>1. ASSUME NEW c \in Cells, Allocate(c) PROVE Phases'
  BY <1>1, Zenon DEF IInv, TypeOK, Phases, worldIsStopped, didReachTermination, Allocate, MH!Allocate
<1>2. ASSUME NEW c \in Cells, Forget(c) PROVE Phases'
  BY <1>2, Zenon DEF IInv, TypeOK, Phases, worldIsStopped, didReachTermination, Forget, MH!Forget
<1>3. ASSUME NEW c \in Cells, NEW s \in Slots, Load(c, s) PROVE Phases'
  BY <1>3, Zenon DEF IInv, TypeOK, Phases, worldIsStopped, didReachTermination, Load, MH!Load
<1>4. ASSUME NEW c \in Cells, NEW s \in Slots, NEW v \in Cells \cup {Null}, Set(c, s, v)
      PROVE  Phases'
  BY <1>4, Zenon DEF IInv, TypeOK, Phases, worldIsStopped, didReachTermination, Set, MH!Store
<1>5. CASE writeBarrier
  BY <1>5, Zenon DEF IInv, TypeOK, Phases, worldIsStopped, didReachTermination, writeBarrier
<1>6. CASE writeBarrierSlowPath
  BY <1>6, Zenon DEF IInv, TypeOK, Phases, worldIsStopped, didReachTermination, writeBarrierSlowPath
<1>7. CASE addToRememberedSet
  BY <1>7, Zenon DEF IInv, TypeOK, Phases, worldIsStopped, didReachTermination, addToRememberedSet
<1>8. CASE ReWhite
  BY <1>8, Zenon DEF IInv, TypeOK, Phases, worldIsStopped, didReachTermination, ReWhite
<1>9. CASE ReCheck
  BY <1>9, Zenon DEF IInv, TypeOK, Phases, worldIsStopped, didReachTermination, ReCheck
<1>10. CASE ReBlack
  BY <1>10, Zenon DEF IInv, TypeOK, Phases, worldIsStopped, didReachTermination, ReBlack
<1>11. CASE Remember
  BY <1>11, Zenon DEF IInv, TypeOK, Phases, worldIsStopped, didReachTermination, Remember
<1>12. ASSUME NEW k \in Markers, NEW c \in Cells, visitChildren(k, c) PROVE Phases'
  BY <1>12, Zenon DEF IInv, TypeOK, Phases, worldIsStopped, didReachTermination, visitChildren
<1>13. ASSUME NEW k \in Markers, NEW s \in Slots, appendHidden(k, s) PROVE Phases'
  BY <1>13, Zenon DEF IInv, TypeOK, Phases, worldIsStopped, didReachTermination, appendHidden
<1>14. ASSUME NEW k \in Markers, NEW s \in Slots, didRace(k, s) PROVE Phases'
  BY <1>14, Zenon DEF IInv, TypeOK, Phases, worldIsStopped, didReachTermination, didRace
<1>15. ASSUME NEW k \in Markers, testAndSetMarked(k) PROVE Phases'
  BY <1>15 DEF IInv, TypeOK, Phases, worldIsStopped, didReachTermination, testAndSetMarked
<1>16. ASSUME NEW k \in Markers, appendToMarkStack(k) PROVE Phases'
  BY <1>16, Zenon DEF IInv, TypeOK, Phases, worldIsStopped, didReachTermination, appendToMarkStack
<1>17. ASSUME NEW k \in Markers, Visited(k) PROVE Phases'
  BY <1>17, Zenon DEF IInv, TypeOK, Phases, worldIsStopped, didReachTermination, Visited
<1>18. ASSUME NEW scope \in {"Full", "Eden"}, runBeginPhase(scope) PROVE Phases'
  BY <1>18, Zenon DEF IInv, TypeOK, Phases, worldIsStopped, didReachTermination, runBeginPhase
<1>19. CASE executeConvergence
  <2>1. PICK found \in SUBSET (roots \ marked), moved \in BOOLEAN : Round(found, moved)
    BY <1>19, RoundFacts, Zenon DEF IInv
  <2> QED BY CellsAssumption, <2>1, Zenon DEF IInv, TypeOK, Phases, worldIsStopped, Round,
     didReachTermination
<1>20. CASE runFixpointPhase
  BY <1>20, Zenon DEF IInv, TypeOK, Phases, worldIsStopped, didReachTermination, runFixpointPhase
<1>21. CASE runConcurrentPhase
  BY <1>21, Zenon DEF IInv, TypeOK, Phases, worldIsStopped, didReachTermination, runConcurrentPhase
<1>22. CASE runEndPhase
  BY <1>22, Zenon DEF IInv, TypeOK, Phases, worldIsStopped, didReachTermination, runEndPhase
<1>23. CASE UNCHANGED vars
  BY <1>23, Zenon DEF IInv, TypeOK, Phases, worldIsStopped, didReachTermination, vars
<1> QED BY <1>1, <1>2, <1>3, <1>4, <1>5, <1>6, <1>7, <1>8, <1>9, <1>10, <1>11, <1>12, <1>13,
   <1>14, <1>15, <1>16, <1>17, <1>18, <1>19, <1>20, <1>21, <1>22, <1>23, Zenon DEF Next, Barrier, Marker,
   Collection

\* Every step keeps what the state of a cell tells
LEMMA ColoursStep ==
    ASSUME IInv, [Next]_vars
    PROVE  Colours'
<1> USE DEF At, Goto, Done, Resume, Step, Running, ChangePhase, heap, stacks, cycle, barrier,
   markers
<1>1. ASSUME NEW c \in Cells, Allocate(c) PROVE Colours'
  BY <1>1 DEF IInv, TypeOK, Objects, Colours, Awaits, White, Grey, Black,
     Allocate, MH!Allocate
<1>2. ASSUME NEW c \in Cells, Forget(c) PROVE Colours'
  BY <1>2 DEF IInv, TypeOK, Objects, Colours, Awaits, White, Grey, Black,
     Forget, MH!Forget
<1>3. ASSUME NEW c \in Cells, NEW s \in Slots, Load(c, s) PROVE Colours'
  BY <1>3 DEF IInv, TypeOK, Objects, Colours, Awaits, White, Grey, Black,
     Load, MH!Load
<1>4. ASSUME NEW c \in Cells, NEW s \in Slots, NEW v \in Cells \cup {Null}, Set(c, s, v)
      PROVE  Colours'
  BY <1>4 DEF IInv, TypeOK, Objects, Colours, Awaits, White, Grey, Black, Set,
     MH!Store
<1>5. CASE writeBarrier
  BY <1>5 DEF IInv, TypeOK, Objects, Colours, Awaits, White, Grey, Black,
     writeBarrier
<1>6. CASE writeBarrierSlowPath
  BY <1>6 DEF IInv, TypeOK, Objects, Colours, Awaits, White, Grey, Black,
     writeBarrierSlowPath
<1>7. CASE addToRememberedSet
  BY <1>7 DEF IInv, TypeOK, Objects, Colours, Awaits, White, Grey, Black,
     addToRememberedSet
<1>8. CASE ReWhite
  BY <1>8 DEF IInv, TypeOK, Objects, Colours, Awaits, White, Grey, Black, ReWhite
<1>9. CASE ReCheck
  BY <1>9 DEF IInv, TypeOK, Objects, Colours, Awaits, White, Grey, Black, ReCheck
<1>10. CASE ReBlack
  BY <1>10 DEF IInv, TypeOK, Objects, Colours, Awaits, White, Grey, Black, ReBlack
<1>11. CASE Remember
  BY <1>11 DEF IInv, TypeOK, Objects, Colours, Awaits, White, Grey, Black, Remember
<1>12. ASSUME NEW k \in Markers, NEW c \in Cells, visitChildren(k, c) PROVE Colours'
  BY <1>12 DEF IInv, TypeOK, Objects, Colours, Awaits, White, Grey, Black,
     visitChildren
<1>13. ASSUME NEW k \in Markers, NEW s \in Slots, appendHidden(k, s) PROVE Colours'
  BY <1>13 DEF IInv, TypeOK, Objects, Colours, Awaits, White, Grey, Black,
     appendHidden
<1>14. ASSUME NEW k \in Markers, NEW s \in Slots, didRace(k, s) PROVE Colours'
  BY <1>14 DEF IInv, TypeOK, Objects, Colours, Awaits, White, Grey, Black, didRace
<1>15. ASSUME NEW k \in Markers, testAndSetMarked(k) PROVE Colours'
  BY <1>15 DEF IInv, TypeOK, Objects, Colours, Awaits, White, Grey, Black,
     testAndSetMarked
<1>16. ASSUME NEW k \in Markers, appendToMarkStack(k) PROVE Colours'
  BY <1>16 DEF IInv, TypeOK, Objects, Colours, Awaits, White, Grey, Black,
     appendToMarkStack
<1>17. ASSUME NEW k \in Markers, Visited(k) PROVE Colours'
  BY <1>17 DEF IInv, TypeOK, Objects, Colours, Awaits, White, Grey, Black, Visited
<1>18. ASSUME NEW scope \in {"Full", "Eden"}, runBeginPhase(scope) PROVE Colours'
  <2>1. m_collectionScope = "none" /\ mutator = "run" /\ mutator' = "run" /\ m_collectionScope'
     = scope
    BY <1>18, Zenon DEF IInv, Phases, runBeginPhase
  <2>2. CASE scope = "Full"
    BY <1>18, <2>1, <2>2, Zenon DEF Colours, runBeginPhase
  <2>3. CASE scope = "Eden"
    BY <1>18, <2>1, <2>3, Zenon DEF IInv, Colours, Awaits, runBeginPhase
  <2> QED BY <2>2, <2>3, Zenon
<1>19. CASE executeConvergence
  <2>1. PICK found \in SUBSET (roots \ marked), moved \in BOOLEAN : Round(found, moved)
    BY <1>19, RoundFacts, Zenon DEF IInv
  <2> QED BY CellsAssumption, <2>1, Zenon DEF IInv, TypeOK, Objects, Colours, Awaits, White, Grey,
     Black, Round, didReachTermination
<1>20. CASE runFixpointPhase
  BY <1>20 DEF IInv, TypeOK, Objects, Colours, Awaits, White, Grey, Black,
     runFixpointPhase
<1>21. CASE runConcurrentPhase
  BY <1>21 DEF IInv, TypeOK, Objects, Colours, Awaits, White, Grey, Black,
     runConcurrentPhase
<1>22. CASE runEndPhase
  <2>1. /\ mutator = "run" /\ mutator' = "run" /\ from = Null /\ marked' = marked
        /\ allocated' = allocated \ (allocated \ marked)
        /\ marked \subseteq allocated /\ marked \subseteq Cells
    BY <1>22, Zenon DEF IInv, TypeOK, Objects, Phases, worldIsStopped, runEndPhase
  <2>2. allocated' \ marked' = {}
    BY <2>1, Zenon
  <2>3. ASSUME NEW c \in marked, cellState'[c] # Black
        PROVE  Awaits(c)'
    <3>1. CASE c \in CodeBlocks \cap roots /\ cellState[c] = Black
      BY <1>22, <3>1, Zenon DEF runEndPhase, Awaits
    <3>2. CASE ~(c \in CodeBlocks \cap roots /\ cellState[c] = Black)
      <4>1. cellState'[c] = cellState[c]
        BY <1>22, <2>1, <3>2, Zenon DEF runEndPhase
      <4>2. Awaits(c)
        BY <2>1, <2>3, <4>1, Zenon DEF IInv, Colours
      <4> QED BY <1>22, <4>2, Zenon DEF runEndPhase, Awaits
    <3> QED BY <3>1, <3>2, Zenon
  <2> QED BY <2>1, <2>2, <2>3, Zenon DEF Colours
<1>23. CASE UNCHANGED vars
  BY <1>23 DEF IInv, TypeOK, Objects, Colours, Awaits, White, Grey, Black, vars
<1> QED BY <1>1, <1>2, <1>3, <1>4, <1>5, <1>6, <1>7, <1>8, <1>9, <1>10, <1>11, <1>12, <1>13,
   <1>14, <1>15, <1>16, <1>17, <1>18, <1>19, <1>20, <1>21, <1>22, <1>23, Zenon DEF Next, Barrier, Marker,
   Collection

\* Every step keeps the wavefront
LEMMA WavefrontStep ==
    ASSUME IInv, [Next]_vars
    PROVE  Wavefront'
<1> USE DEF At, Goto, Done, Resume, Step, Running, ChangePhase, heap, stacks, cycle, barrier,
   markers
<1>1. ASSUME NEW c \in Cells, Allocate(c) PROVE Wavefront'
  BY <1>1 DEF IInv, TypeOK, Objects, Wavefront, Awaits, InHand, Allocate,
     MH!Allocate
<1>2. ASSUME NEW c \in Cells, Forget(c) PROVE Wavefront'
  BY <1>2 DEF IInv, TypeOK, Objects, Wavefront, Awaits, InHand, Forget, MH!Forget
<1>3. ASSUME NEW c \in Cells, NEW s \in Slots, Load(c, s) PROVE Wavefront'
  BY <1>3 DEF IInv, TypeOK, Objects, Wavefront, Awaits, InHand, Load, MH!Load
<1>4. ASSUME NEW c \in Cells, NEW s \in Slots, NEW v \in Cells \cup {Null}, Set(c, s, v)
      PROVE  Wavefront'
  BY CellsAssumption, <1>4 DEF IInv, TypeOK, Objects, Wavefront, Awaits, InHand, Set, MH!Store
<1>5. CASE writeBarrier
  BY <1>5 DEF IInv, TypeOK, Objects, Wavefront, Awaits, InHand, Colours, writeBarrier
<1>6. CASE writeBarrierSlowPath
  BY <1>6 DEF IInv, TypeOK, Objects, Wavefront, Awaits, InHand, Colours, writeBarrierSlowPath
<1>7. CASE addToRememberedSet
  BY <1>7 DEF IInv, TypeOK, Objects, Wavefront, Awaits, InHand, addToRememberedSet
<1>8. CASE ReWhite
  BY <1>8 DEF IInv, TypeOK, Objects, Wavefront, Awaits, InHand, ReWhite
<1>9. CASE ReCheck
  BY <1>9 DEF IInv, TypeOK, Objects, Wavefront, Awaits, InHand, ReCheck
<1>10. CASE ReBlack
  BY <1>10 DEF IInv, TypeOK, Objects, Wavefront, Awaits, InHand, ReBlack
<1>11. CASE Remember
  BY <1>11 DEF IInv, TypeOK, Objects, Wavefront, Awaits, InHand, Remember
<1>12. ASSUME NEW k \in Markers, NEW c \in Cells, visitChildren(k, c) PROVE Wavefront'
  BY <1>12 DEF IInv, TypeOK, Objects, Wavefront, Awaits, InHand, visitChildren
<1>13. ASSUME NEW k \in Markers, NEW s \in Slots, appendHidden(k, s) PROVE Wavefront'
  <2> SUFFICES ASSUME NEW x \in marked', NEW r \in Slots, slots'[x][r] \in Cells \ marked'
               PROVE  Awaits(x)' \/ InHand(x, r)'
    BY Zenon DEF Wavefront
  <2>1. /\ x \in marked /\ slots[x][r] \in Cells \ marked /\ slots' = slots
        /\ Awaits(x) \/ InHand(x, r)
    BY <1>13, Zenon DEF IInv, Wavefront, appendHidden
  <2>2. CASE Awaits(x)
    BY <1>13, <2>2 DEF IInv, TypeOK, Awaits, appendHidden
  <2>3. CASE from = x /\ mutator \in {"check", "slow", "remember"}
    BY <1>13, <2>3, Zenon DEF InHand, appendHidden
  <2>4. ASSUME NEW j \in Markers, child[j] = slots[x][r] /\ pc[j] = "mark"
        PROVE  InHand(x, r)'
    BY <1>13, <2>1, <2>4, SMTT(20) DEF IInv, TypeOK, InHand, appendHidden
  <2>5. ASSUME NEW j \in Markers, m_currentCell[j] = x /\ r \in left[j]
        PROVE  InHand(x, r)'
    <3>1. CASE j = k /\ r = s
      <4>1. child'[k] = slots[x][r] /\ pc'[k] = "mark"
        BY <1>13, <2>1, <2>5, <3>1, CellsAssumption, Zenon DEF IInv, TypeOK, appendHidden
      <4> QED BY <2>1, <4>1, Zenon DEF InHand
    <3>2. CASE ~(j = k /\ r = s)
      BY <1>13, <2>5, <3>2, Zenon DEF IInv, TypeOK, InHand, appendHidden
    <3> QED BY <3>1, <3>2, Zenon
  <2> QED BY <2>1, <2>2, <2>3, <2>4, <2>5, Zenon DEF InHand
<1>14. ASSUME NEW k \in Markers, NEW s \in Slots, didRace(k, s) PROVE Wavefront'
  <2> SUFFICES ASSUME NEW x \in marked', NEW r \in Slots, slots'[x][r] \in Cells \ marked'
               PROVE  Awaits(x)' \/ InHand(x, r)'
    BY Zenon DEF Wavefront
  <2>1. /\ x \in marked /\ slots[x][r] \in Cells \ marked /\ slots' = slots
        /\ Awaits(x) \/ InHand(x, r)
    BY <1>14, Zenon DEF IInv, Wavefront, didRace
  <2>2. CASE x = m_currentCell[k]
    BY <1>14, <2>2, Zenon DEF Awaits, didRace
  <2>3. CASE x # m_currentCell[k] /\ Awaits(x)
    BY <1>14, <2>3, Zenon DEF IInv, TypeOK, Awaits, didRace
  <2>4. CASE x # m_currentCell[k] /\ InHand(x, r)
    BY <1>14, <2>1, <2>4, Zenon DEF IInv, TypeOK, InHand, didRace
  <2> QED BY <2>1, <2>2, <2>3, <2>4, Zenon
<1>15. ASSUME NEW k \in Markers, testAndSetMarked(k) PROVE Wavefront'
  <2> SUFFICES ASSUME NEW x \in marked', NEW r \in Slots, slots'[x][r] \in Cells \ marked'
               PROVE  Awaits(x)' \/ InHand(x, r)'
    BY Zenon DEF Wavefront
  <2>1. /\ slots' = slots /\ marked \subseteq marked'
        /\ child[k] \in marked' /\ child[k] # slots[x][r] /\ pc[k] = "mark"
    BY <1>15, Zenon DEF IInv, Objects, testAndSetMarked
  <2>2. CASE x \notin marked
    <3>1. x = child[k] /\ child'[k] = x /\ pc'[k] = "grey"
      BY <1>15, <2>2 DEF IInv, TypeOK, testAndSetMarked
    <3> QED BY <3>1, Zenon DEF Awaits
  <2>3. CASE x \in marked
    <3>1. Awaits(x) \/ InHand(x, r)
      BY <2>1, <2>3, Zenon DEF IInv, Wavefront
    <3>2. CASE Awaits(x)
      BY <1>15, <2>1, <3>2, SMTT(20) DEF IInv, TypeOK, Awaits, testAndSetMarked
    <3>3. CASE InHand(x, r)
      BY <1>15, <2>1, <3>3, Zenon DEF IInv, TypeOK, InHand, testAndSetMarked
    <3> QED BY <3>1, <3>2, <3>3, Zenon
  <2> QED BY <2>2, <2>3, Zenon
<1>16. ASSUME NEW k \in Markers, appendToMarkStack(k) PROVE Wavefront'
  <2> SUFFICES ASSUME NEW x \in marked', NEW r \in Slots, slots'[x][r] \in Cells \ marked'
               PROVE  Awaits(x)' \/ InHand(x, r)'
    BY Zenon DEF Wavefront
  <2>1. /\ x \in marked /\ slots[x][r] \in Cells \ marked /\ slots' = slots /\ pc[k] = "grey"
        /\ Awaits(x) \/ InHand(x, r)
    BY <1>16, Zenon DEF IInv, Wavefront, appendToMarkStack
  <2>2. CASE Awaits(x)
    BY <1>16, <2>1, <2>2, Zenon DEF IInv, TypeOK, Awaits, appendToMarkStack
  <2>3. CASE InHand(x, r)
    BY <1>16, <2>1, <2>3, Zenon DEF IInv, TypeOK, InHand, appendToMarkStack
  <2> QED BY <2>1, <2>2, <2>3, Zenon
<1>17. ASSUME NEW k \in Markers, Visited(k) PROVE Wavefront'
  BY <1>17, SMTT(20) DEF IInv, TypeOK, Objects, Wavefront, Awaits, InHand, Visited
<1>18. ASSUME NEW scope \in {"Full", "Eden"}, runBeginPhase(scope) PROVE Wavefront'
  BY <1>18, SMTT(20) DEF IInv, TypeOK, Objects, Wavefront, Awaits, InHand, runBeginPhase
<1>19. CASE executeConvergence
  <2>1. PICK found \in SUBSET (roots \ marked), moved \in BOOLEAN : Round(found, moved)
    BY <1>19, RoundFacts, Zenon DEF IInv
  <2> QED BY CellsAssumption, <2>1, SMTT(20) DEF IInv, TypeOK, Objects, Wavefront, Awaits,
     InHand, Round, didReachTermination
<1>20. CASE runFixpointPhase
  BY <1>20, SMTT(20) DEF IInv, TypeOK, Objects, Wavefront, Awaits, InHand, runFixpointPhase
<1>21. CASE runConcurrentPhase
  BY <1>21, SMTT(20) DEF IInv, TypeOK, Objects, Wavefront, Awaits, InHand, runConcurrentPhase
<1>22. CASE runEndPhase
  <2>1. m_currentPhase = "End" /\ marked' = marked /\ marked \subseteq Cells
    BY <1>22, Zenon DEF IInv, TypeOK, runEndPhase
  <2>2. \A c \in marked : slots'[c] = slots[c]
    BY <1>22, <2>1, Zenon DEF runEndPhase
  <2> QED BY <2>1, <2>2, EndFacts, CellsAssumption, Zenon DEF Wavefront
<1>23. CASE UNCHANGED vars
  BY <1>23, SMTT(20) DEF IInv, TypeOK, Objects, Wavefront, Awaits, InHand, vars
<1> QED BY <1>1, <1>2, <1>3, <1>4, <1>5, <1>6, <1>7, <1>8, <1>9, <1>10, <1>11, <1>12, <1>13,
   <1>14, <1>15, <1>16, <1>17, <1>18, <1>19, <1>20, <1>21, <1>22, <1>23, Zenon DEF Next, Barrier, Marker,
   Collection

\* What was garbage when a full collection began stays garbage: it exists, the program does not
\* hold it, no marker has it in hand, and no other object refers to it
Precise ==
    m_collectionScope = "Full" =>
        /\ garbage \subseteq allocated /\ garbage \cap (roots \cup marked) = {}
        /\ \A k \in Markers : pc[k] = "mark" => child[k] \notin garbage
        /\ \A c \in allocated \ garbage : \A s \in Slots : slots[c][s] \notin garbage

\* The garbage is itself a set nothing refers to: the union of all of them is one
LEMMA GarbageFacts ==
    /\ Garbage \subseteq allocated /\ Garbage \cap roots = {}
    /\ \A c \in allocated \ Garbage : \A s \in Slots : slots[c][s] \notin Garbage
BY Zenon DEF Garbage, MH!Unreferenced

\* Every step keeps the garbage of a full collection out of reach
LEMMA PreciseStep ==
    ASSUME IInv, Precise, [Next]_vars
    PROVE  Precise'
<1> USE DEF At, Goto, Done, Resume, Step, Running, ChangePhase, heap, stacks, cycle, barrier,
   markers
<1>1. ASSUME NEW c \in Cells, Allocate(c) PROVE Precise'
  BY CellsAssumption, <1>1 DEF IInv, TypeOK, Objects, Precise, Allocate, MH!Allocate
<1>2. ASSUME NEW c \in Cells, Forget(c) PROVE Precise'
  BY <1>2, Zenon DEF IInv, TypeOK, Objects, Precise, Forget, MH!Forget
<1>3. ASSUME NEW c \in Cells, NEW s \in Slots, Load(c, s) PROVE Precise'
  BY <1>3 DEF IInv, TypeOK, Objects, Precise, Load, MH!Load
<1>4. ASSUME NEW c \in Cells, NEW s \in Slots, NEW v \in Cells \cup {Null}, Set(c, s, v)
      PROVE  Precise'
  BY CellsAssumption, <1>4, SMTT(20) DEF IInv, TypeOK, Objects, Precise, Set, MH!Store
<1>5. CASE writeBarrier
  BY <1>5, Zenon DEF IInv, TypeOK, Objects, Precise, writeBarrier
<1>6. CASE writeBarrierSlowPath
  BY <1>6, Zenon DEF IInv, TypeOK, Objects, Precise, writeBarrierSlowPath
<1>7. CASE addToRememberedSet
  BY <1>7, Zenon DEF IInv, TypeOK, Objects, Precise, addToRememberedSet
<1>8. CASE ReWhite
  BY <1>8, Zenon DEF IInv, TypeOK, Objects, Precise, ReWhite
<1>9. CASE ReCheck
  BY <1>9, Zenon DEF IInv, TypeOK, Objects, Precise, ReCheck
<1>10. CASE ReBlack
  BY <1>10, Zenon DEF IInv, TypeOK, Objects, Precise, ReBlack
<1>11. CASE Remember
  BY <1>11, Zenon DEF IInv, TypeOK, Objects, Precise, Remember
<1>12. ASSUME NEW k \in Markers, NEW c \in Cells, visitChildren(k, c) PROVE Precise'
  BY <1>12, Zenon DEF IInv, TypeOK, Objects, Precise, visitChildren
<1>13. ASSUME NEW k \in Markers, NEW s \in Slots, appendHidden(k, s) PROVE Precise'
  BY <1>13, SMTT(20) DEF IInv, TypeOK, Objects, Precise, appendHidden
<1>14. ASSUME NEW k \in Markers, NEW s \in Slots, didRace(k, s) PROVE Precise'
  BY <1>14 DEF IInv, TypeOK, Objects, Precise, didRace
<1>15. ASSUME NEW k \in Markers, testAndSetMarked(k) PROVE Precise'
  BY <1>15 DEF IInv, TypeOK, Objects, Precise, testAndSetMarked
<1>16. ASSUME NEW k \in Markers, appendToMarkStack(k) PROVE Precise'
  BY <1>16, Zenon DEF IInv, TypeOK, Objects, Precise, appendToMarkStack
<1>17. ASSUME NEW k \in Markers, Visited(k) PROVE Precise'
  BY <1>17, Zenon DEF IInv, TypeOK, Objects, Precise, Visited
<1>18. ASSUME NEW scope \in {"Full", "Eden"}, runBeginPhase(scope) PROVE Precise'
  BY <1>18, GarbageFacts, Zenon DEF IInv, Phases, didReachTermination, Precise, runBeginPhase
<1>19. CASE executeConvergence
  <2>1. PICK found \in SUBSET (roots \ marked), moved \in BOOLEAN : Round(found, moved)
    BY <1>19, RoundFacts, Zenon DEF IInv
  <2> QED BY CellsAssumption, <2>1, Zenon DEF IInv, TypeOK, Objects, Precise, Round, didReachTermination
<1>20. CASE runFixpointPhase
  BY <1>20, Zenon DEF IInv, TypeOK, Objects, Precise, runFixpointPhase
<1>21. CASE runConcurrentPhase
  BY <1>21, Zenon DEF IInv, TypeOK, Objects, Precise, runConcurrentPhase
<1>22. CASE runEndPhase
  BY <1>22, Zenon DEF IInv, TypeOK, Objects, Precise, runEndPhase
<1>23. CASE UNCHANGED vars
  BY <1>23, Zenon DEF IInv, TypeOK, Objects, Precise, vars
<1> QED BY <1>1, <1>2, <1>3, <1>4, <1>5, <1>6, <1>7, <1>8, <1>9, <1>10, <1>11, <1>12, <1>13,
   <1>14, <1>15, <1>16, <1>17, <1>18, <1>19, <1>20, <1>21, <1>22, <1>23, Zenon DEF Next, Barrier, Marker,
   Collection

\* The inductive invariant holds at the start and every step keeps it
LEMMA InitInv == Init => IInv /\ Precise
<1> SUFFICES ASSUME Init PROVE IInv /\ Precise
  BY Zenon
<1>1. TypeOK
  BY Zenon DEF Init, TypeOK, White
<1>2. Objects /\ Precise
  BY CellsAssumption, Zenon DEF Init, Objects, Precise
<1>3. Phases
  BY Zenon DEF Init, Phases, worldIsStopped, didReachTermination
<1>4. Colours /\ Wavefront
  BY Zenon DEF Init, Colours, Wavefront, White
<1> QED BY <1>1, <1>2, <1>3, <1>4, Zenon DEF IInv

LEMMA Invariance == Spec => [](IInv /\ Precise)
<1>1. IInv /\ Precise /\ [Next]_vars => (IInv /\ Precise)'
  BY TypeStep, ObjectsStep, PhasesStep, ColoursStep, WavefrontStep, PreciseStep, Zenon DEF IInv
<1> QED BY InitInv, <1>1, PTL DEF Spec

\* The types of the state of the heap, the mutator, the markers and the collector are kept, and a
\* marker has a current cell exactly while it visits one (SetCurrentCellScope).
THEOREM TypesKept == Spec => []TypeOK
<1>1. IInv /\ Precise => TypeOK
  BY Zenon DEF IInv
<1> QED BY Invariance, <1>1, PTL

\* Whatever the mutator stores while any number of markers visit cells, a reference from a marked
\* cell to an unmarked one is about to be seen (writeBarrier, addToRememberedSet, visitChildren).
THEOREM WavefrontKept == Spec => []Wavefront
<1>1. IInv /\ Precise => Wavefront
  BY Zenon DEF IInv
<1> QED BY Invariance, <1>1, PTL

\* The assertions of addToRememberedSet, runBeginPhase and runEndPhase never fail.
THEOREM AssertionsNeverFail == Spec => []AssertionsHold
<1>1. IInv /\ Precise => AssertionsHold
  BY Zenon DEF IInv, Colours, Phases, AssertionsHold
<1> QED BY Invariance, <1>1, PTL

\* A full collection frees all that was garbage when it began: runBeginPhase leaves no way for it
\* to be marked.
THEOREM FullCollectionIsPrecise == Spec => []GarbageNotMarked
<1>1. IInv /\ Precise => GarbageNotMarked
  BY Zenon DEF Precise, GarbageNotMarked
<1> QED BY Invariance, <1>1, PTL

\* A step of the mutator is that step of a managed heap, the end of a collection takes
\* unreferenced cells away (EndFacts), and no other step touches the heap the mutator sees
LEMMA StepRefines ==
    ASSUME IInv, [Next]_vars
    PROVE  [MH!Next]_(MH!vars)
<1>1. ASSUME NEW c \in Cells, Allocate(c) \/ Forget(c) PROVE MH!Next
  BY <1>1, Zenon DEF Allocate, Forget, MH!Next
<1>2. ASSUME NEW c \in Cells, NEW s \in Slots, Load(c, s) PROVE MH!Next
  BY <1>2, Zenon DEF Load, MH!Next
<1>3. ASSUME NEW c \in Cells, NEW s \in Slots, NEW v \in Cells \cup {Null}, Set(c, s, v)
      PROVE  MH!Next
  BY <1>3, Zenon DEF Set, MH!Next
<1>4. CASE Barrier
  BY <1>4, Zenon DEF Barrier, writeBarrier, writeBarrierSlowPath, addToRememberedSet, ReWhite, ReCheck,
     ReBlack, Remember, At, heap, MH!vars
<1>5. ASSUME NEW k \in Markers, Marker(k) PROVE UNCHANGED MH!vars
  BY <1>5, Zenon DEF Marker, visitChildren, appendHidden, didRace, testAndSetMarked, appendToMarkStack,
     Visited, Step, heap, MH!vars
<1>6. CASE runEndPhase
  <2>1. m_currentPhase = "End"
    BY <1>6, Zenon DEF runEndPhase
  <2>2. MH!Unreferenced(allocated \ marked)
    BY <2>1, EndFacts, CellsAssumption, SMTT(20) DEF IInv, TypeOK, Objects, MH!Unreferenced
  <2>3. MH!Collect(allocated \ marked)
    BY <1>6, <2>2, Zenon DEF runEndPhase, MH!Collect
  <2>4. allocated \ marked \in SUBSET Cells
    BY Zenon DEF IInv, TypeOK
  <2> QED BY <2>3, <2>4, Zenon DEF MH!Next
<1>7. CASE executeConvergence
  BY <1>7, Zenon DEF executeConvergence, heap, MH!vars
<1>8. ASSUME NEW scope \in {"Full", "Eden"}, runBeginPhase(scope) PROVE UNCHANGED MH!vars
  BY <1>8, Zenon DEF runBeginPhase, ChangePhase, heap, MH!vars
<1>9. CASE runFixpointPhase \/ runConcurrentPhase
  BY <1>9, Zenon DEF runFixpointPhase, runConcurrentPhase, ChangePhase, heap, MH!vars
<1>10. CASE UNCHANGED vars
  BY <1>10, Zenon DEF vars, heap, MH!vars
<1> QED BY <1>1, <1>2, <1>3, <1>4, <1>5, <1>6, <1>7, <1>8, <1>9, <1>10, Zenon DEF Next, Collection

\* Marking concurrent with the mutator implements a managed heap: the cells a collection frees
\* are cells that the program could not get at any more (runEndPhase, EndFacts).
THEOREM WriteBarrierImplementsManagedHeap == Spec => ImplementsManagedHeap
<1>1. Init => MH!Init
  BY Zenon DEF Init, MH!Init
<1>2. IInv /\ Precise /\ [Next]_vars => [MH!Next]_(MH!vars)
  BY StepRefines, Zenon
<1> QED BY Invariance, <1>1, <1>2, PTL DEF Spec, ImplementsManagedHeap, MH!Spec

=============================================================================

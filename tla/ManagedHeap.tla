---------------------------- MODULE ManagedHeap ----------------------------
(***************************************************************************)
(* What a garbage collector promises the program: the program allocates    *)
(* cells, holds some of them, reads and writes the slots of those, and the *)
(* only cells that ever go away are cells it could not have got at any     *)
(* more.  WriteBarrier is shown to implement this module.                  *)
(***************************************************************************)
CONSTANTS Cells, Slots, Null

VARIABLES allocated,   \* the cells that are objects now
          roots,       \* the ones the program holds: its stack and registers
          slots        \* what each slot of each cell refers to

vars == <<allocated, roots, slots>>

\* A set of objects that no root and no other object refers to
Unreferenced(G) ==
    /\ G \subseteq allocated
    /\ roots \cap G = {}
    /\ \A c \in allocated \ G : \A s \in Slots : slots[c][s] \notin G

Init ==
    /\ allocated = {} /\ roots = {}
    /\ slots = [c \in Cells |-> [s \in Slots |-> Null]]

Allocate(c) ==
    /\ c \in Cells \ allocated
    /\ allocated' = allocated \cup {c}
    /\ roots' = roots \cup {c}
    /\ slots' = [slots EXCEPT ![c] = [s \in Slots |-> Null]]

Load(c, s) ==
    /\ c \in roots /\ slots[c][s] # Null
    /\ roots' = roots \cup {slots[c][s]}
    /\ UNCHANGED <<allocated, slots>>

Forget(c) ==
    /\ c \in roots
    /\ roots' = roots \ {c}
    /\ UNCHANGED <<allocated, slots>>

Store(c, s, v) ==
    /\ c \in roots /\ v \in roots \cup {Null}
    /\ slots' = [slots EXCEPT ![c][s] = v]
    /\ UNCHANGED <<allocated, roots>>

\* The collector takes some garbage away
Collect(G) ==
    /\ Unreferenced(G)
    /\ allocated' = allocated \ G
    /\ slots' = [c \in Cells |-> IF c \in G THEN [s \in Slots |-> Null] ELSE slots[c]]
    /\ UNCHANGED roots

Next ==
    \/ \E c \in Cells :
        \/ Allocate(c) \/ Forget(c)
        \/ \E s \in Slots : Load(c, s) \/ \E v \in Cells \cup {Null} : Store(c, s, v)
    \/ \E G \in SUBSET Cells : Collect(G)

Spec == Init /\ [][Next]_vars

============================================================================

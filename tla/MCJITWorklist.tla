--------------------------- MODULE MCJITWorklist ---------------------------
(* A small instance of JITWorklist: two VMs and two threads, of which one   *)
(* may work for the DFG.  The plans p1 and p2 are for the same code, so     *)
(* that a plan can be made while a cancelled one is still with its thread.  *)
EXTENDS JITWorklist, TLC

CONSTANTS v1, v2, p1, p2, p3, k1, k2

MCMaximum == ("Baseline" :> 2) @@ ("DFG" :> 1)
MCvm == (p1 :> v1) @@ (p2 :> v1) @@ (p3 :> v2)
MCtier == (p1 :> "DFG") @@ (p2 :> "DFG") @@ (p3 :> "Baseline")
MCkey == (p1 :> k1) @@ (p2 :> k1) @@ (p3 :> k2)

\* p1 and p2 agree in VM, tier and key
PlanSymmetry == Permutations({p1, p2})
=============================================================================

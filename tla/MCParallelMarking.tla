-------------------------- MODULE MCParallelMarking --------------------------
(***************************************************************************)
(* Small instances of ParallelMarking: two roots with a common child,      *)
(* which keeps d alive through an outgrowth constraint, as d keeps e; f is *)
(* dead.                                                                   *)
(***************************************************************************)
EXTENDS ParallelMarking, TLC

MCCells == {"a", "b", "c", "d", "e", "f"}
MCRoots == {"a", "b"}
MCChildren == [x \in {"a", "b"} |-> {"c"}] @@ ("f" :> {"a"}) @@ [x \in {"c", "d", "e"} |-> {}]
MCOutgrowths == ("c" :> {"d"}) @@ ("d" :> {"e"}) @@ [x \in {"a", "b", "e", "f"} |-> {}]
=============================================================================

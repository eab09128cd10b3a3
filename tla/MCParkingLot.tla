----------------------------- MODULE MCParkingLot -----------------------------
(* Small instances of ParkingLot.  The two addresses of MCHash share a slot   *)
(* in tables of size 1 and 2, and have slots of their own in one of size 3.   *)
EXTENDS ParkingLot, TLC

CONSTANTS t1, t2, t3, a1, a2

MCHash == (a1 :> 1) @@ (a2 :> 3)
MCHashOne == (a1 :> 3)

\* Two threads wait at either address; the third parks, too, which makes the
\* table grow again, and notifies at one address
MCParks == [t \in Threads |-> IF t = t3 THEN {<<a1, "compare">>} ELSE Addresses \X {"wait"}]
MCNotifies == [t \in Threads |-> IF t = t3 THEN {a1} ELSE {}]
ThreadSymmetry == Permutations({t1, t2})

\* Two threads park in either way, and the third only notifies
FlagParks == [t \in Threads |-> IF t = t3 THEN {} ELSE {a1} \X {"wait", "compare"}]
\* One of the two only waits, and may end
LiveParks == [FlagParks EXCEPT ![t2] = {<<a1, "wait">>}]
==============================================================================

------------------------------- MODULE MCLock -------------------------------
(* Small instances of Lock *)
EXTENDS Lock

CONSTANTS t1, t2, t3, t4
=============================================================================

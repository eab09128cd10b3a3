----------------------------- MODULE MCWordLock -----------------------------
(* The instance of WordLock for TLC: one thread holds the lock and two queue. *)
EXTENDS WordLock

=============================================================================

------------------------------ MODULE MCJSLock ------------------------------
(* A small instance of JSLock, for two threads.                             *)
EXTENDS JSLock
=============================================================================

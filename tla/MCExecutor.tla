------------------------------ MODULE MCExecutor ------------------------------
(* Instances of ObcExecutor for TLC. *)
EXTENDS ObcExecutor

CONSTANTS t1, t2   \* threads
=============================================================================

------------------------------- MODULE MCTimer -------------------------------
(* Instances of PbftTimer for TLC. *)
EXTENDS PbftTimer
=============================================================================

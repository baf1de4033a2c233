------------------------------ MODULE MCTimer -------------------------------
(* Instances of Timer for TLC.                                             *)
EXTENDS Timer
=============================================================================

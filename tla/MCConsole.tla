----------------------------- MODULE MCConsole ------------------------------
(* Instances of Console for TLC.                                           *)
EXTENDS Console
MCWrites == {<<1, 2>>}
=============================================================================

---------------------------- MODULE MCCrashDump -----------------------------
(* Instances of CrashDump for TLC.                                         *)
EXTENDS CrashDump
MCPayloadSize == [d \in Domains |-> IF d = "cpu1" THEN 16 * PAGESIZE ELSE 100]
=============================================================================

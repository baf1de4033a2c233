------------------------------- MODULE MCFpu --------------------------------
(* Instances of FpuContext for TLC.                                        *)
EXTENDS FpuContext

MCPrios == 1..3
MCValues == 1..2
=============================================================================

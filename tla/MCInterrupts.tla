---------------------------- MODULE MCInterrupts ----------------------------
(* Instances of Interrupts for TLC: the timer and one shared peripheral    *)
(* besides the kill, whose distributor registers it shares.                *)
EXTENDS Interrupts

MCIds == {30, 53, 62}
MCPrios == {128, 144}
MCUserIds == {30, 53}
=============================================================================

----------------------------- MODULE FpuContext -----------------------------
(***************************************************************************)
(* The floating-point registers of a payload under nested interrupts.      *)
(* Access is trapped when the payload starts and when a handler is         *)
(* entered.  The trap of the first access ever only records that the unit  *)
(* is in use; every later trap pushes the registers, which belong to       *)
(* whoever was interrupted, onto an array, and the return of a handler     *)
(* that caused a trap pops them.                                           *)
(*                                                                         *)
(* Exceptions mask IRQs, so each is one action.                            *)
(***************************************************************************)
EXTENDS Integers, Sequences, FiniteSets

CONSTANTS
    Frames,   \* register sets that fit in FPUContext (4224 / 528)
    Prios,    \* priority levels of payload interrupts; lower preempts
    Values    \* contents of the registers

ASSUME PriosAssumption == Prios \subseteq Nat /\ IsFiniteSet(Prios)
ASSUME FramesAssumption == Frames = Cardinality(Prios)
ASSUME ValuesAssumption == Values \subseteq Nat \ {0}

VARIABLES
    fpen,     \* CPACR_EL1.FPEN: accesses are not trapped
    status,   \* FPUStatus
    base,     \* FPUContextBase, as an index into FPUContext
    ctx,      \* FPUContext; index -1 is the memory just below it
    regs,     \* the registers, 0 if nobody has written them
    nest,     \* priority and saved CPACR_EL1 of each handler
    halted,   \* the payload has crashed and loops in its exception handler
    live      \* history: what main and each handler last wrote, or 0

vars == <<fpen, status, base, ctx, regs, nest, halted, live>>

Init ==
    /\ fpen = FALSE /\ status = FALSE /\ base = 0
    /\ ctx = [k \in -1..Frames-1 |-> 0] /\ regs = 0
    /\ nest = <<>> /\ halted = FALSE /\ live = <<0>>

(* Mutant: registers in use are not pushed.                                *)
EnableFpu_NoSave == fpen' = TRUE /\ status' = TRUE /\ base' = 0 /\ UNCHANGED ctx

(* The trap of a floating-point access, after which it is retried.         *)
EnableFpu ==
    /\ fpen' = TRUE
    /\ IF status
       THEN /\ ctx' = [ctx EXCEPT ![base] = regs]
            /\ base' = base + 1 /\ UNCHANGED status
       ELSE status' = TRUE /\ base' = 0 /\ UNCHANGED ctx

SynchronousInterruptHandler ==
    /\ ~fpen /\ ~halted
    /\ EnableFpu
    /\ UNCHANGED <<regs, nest, halted, live>>

(* The code that executes computes something.                              *)
FpWrite(v) ==
    /\ fpen /\ ~halted
    /\ regs' = v /\ live' = [live EXCEPT ![Len(live)] = v]
    /\ UNCHANGED <<fpen, status, base, ctx, nest, halted>>

IRQInterruptHandler(p) ==
    /\ ~halted
    /\ nest # <<>> => p < nest[Len(nest)].prio
    /\ nest' = Append(nest, [prio |-> p, saved |-> fpen])
    /\ fpen' = FALSE /\ live' = Append(live, 0)
    /\ UNCHANGED <<status, base, ctx, regs, halted>>

(* Mutant: the new top of the array is not stored.                         *)
RestorePrevState_NoPop ==
    /\ nest # <<>> /\ ~halted
    /\ regs' = (IF fpen THEN ctx[base - 1] ELSE regs)
    /\ fpen' = nest[Len(nest)].saved
    /\ nest' = SubSeq(nest, 1, Len(nest) - 1)
    /\ live' = SubSeq(live, 1, Len(live) - 1)
    /\ UNCHANGED <<status, base, ctx, halted>>

(* A handler returns.                                                      *)
RestorePrevState ==
    /\ nest # <<>> /\ ~halted
    /\ IF fpen THEN regs' = ctx[base - 1] /\ base' = base - 1
       ELSE UNCHANGED <<regs, base>>
    /\ fpen' = nest[Len(nest)].saved
    /\ nest' = SubSeq(nest, 1, Len(nest) - 1)
    /\ live' = SubSeq(live, 1, Len(live) - 1)
    /\ UNCHANGED <<status, ctx, halted>>

(* A fault: saveFpuState, in the handler, may itself cause the trap.       *)
SynchronousInterrupt ==
    /\ ~halted /\ halted' = TRUE
    /\ IF fpen THEN UNCHANGED <<fpen, status, base, ctx>> ELSE EnableFpu
    /\ UNCHANGED <<regs, nest, live>>

(* Mutant: FPUStatus is not cleared.                                       *)
InitEL1_StatusKept ==
    /\ fpen' = FALSE
    /\ nest' = <<>> /\ halted' = FALSE /\ live' = <<0>>
    /\ UNCHANGED <<status, base, ctx, regs>>

(* The payload is killed, wherever it is, and another one started: only    *)
(* the trap and FPUStatus are reset.                                       *)
InitEL1 ==
    /\ fpen' = FALSE /\ status' = FALSE
    /\ nest' = <<>> /\ halted' = FALSE /\ live' = <<0>>
    /\ UNCHANGED <<base, ctx, regs>>

Next == \/ SynchronousInterruptHandler \/ RestorePrevState
        \/ SynchronousInterrupt \/ InitEL1
        \/ \E v \in Values : FpWrite(v)
        \/ \E p \in Prios : IRQInterruptHandler(p)

Spec == Init /\ [][Next]_vars

-----------------------------------------------------------------------------
TypeOK ==
    /\ fpen \in BOOLEAN /\ status \in BOOLEAN /\ halted \in BOOLEAN
    /\ base \in -1..Frames
    /\ ctx \in [-1..Frames-1 -> Values \cup {0}] /\ regs \in Values \cup {0}
    /\ nest \in Seq([prio : Prios, saved : BOOLEAN])
    /\ live \in Seq(Values \cup {0}) /\ Len(live) = Len(nest) + 1

(* Interrupts are invisible to floating-point code: whoever executes finds *)
(* in the registers what it wrote last, at every depth of nesting and      *)
(* whichever handlers computed in between.                                 *)
FpPreserved == fpen /\ live[Len(live)] # 0 => regs = live[Len(live)]

(* One register set per priority level is enough: no trap pushes past the  *)
(* end of the array, across nesting, crashes and restarts of payloads.     *)
SavesBelowEnd == status /\ ~fpen => base < Frames

(* The comments on savefloatregister and FPUContext: registers are saved   *)
(* to the array.                                                           *)
SavesInArray == status /\ ~fpen => base \in 0..Frames-1
=============================================================================

SPECIFICATION Spec
CONSTANTS
    Cores = {2, 3}
    Procs = {"p", "q", "r"}
    Plans <- MCPlans
INVARIANTS
    TypeOK
    BootedIsPrepared
    OpenSeesMonitor
    RunLeavesIdle
PROPERTIES
    ForeignUntouched
    KillsOwnCore
CHECK_DEADLOCK FALSE

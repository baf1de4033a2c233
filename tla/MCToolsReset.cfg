SPECIFICATION Spec
CONSTANTS
    Cores = {2, 3}
    Procs = {"p", "q", "r"}
    Plans <- MCBootPlans
PROPERTY
    NeverBackInReset
CHECK_DEADLOCK FALSE

SPECIFICATION Spec
CONSTANTS
    Ids <- MCIds
    Ipi = 62
    Timer = 30
    PayloadIds <- MCUserIds
    Prios <- MCPrios
INVARIANTS
    PeripheralsAtEL1

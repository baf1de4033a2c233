SPECIFICATION Spec
CONSTANTS
    Ids <- MCIds
    Ipi = 62
    Timer = 30
    PayloadIds <- MCUserIds
    Prios <- MCPrios
INVARIANTS
    TypeOK
    NoIRQAtEL3
    NoStaleActive
    NestingBounded
    KillDeliverable
PROPERTIES
    UrgentServed

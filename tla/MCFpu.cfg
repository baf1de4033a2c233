SPECIFICATION Spec
CONSTANTS
    Frames = 3
    Prios <- MCPrios
    Values <- MCValues
INVARIANTS
    TypeOK
    FpPreserved
    SavesBelowEnd

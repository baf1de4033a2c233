SPECIFICATION ConsoleSpec
CONSTANTS
    Size = 3
    Writes <- MCWrites
    Newline = 1
    MaxLine = 2
INVARIANTS
    TypeOK
    OwnOutputOnly
    NothingSwallowed
PROPERTIES
    ImplementsFifo
    ConsoleDrains
    ConsoleStops
    ReturnsOnlyInterrupted

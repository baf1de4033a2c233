SPECIFICATION Spec
CONSTANTS
    Freq = 5
    Million = 3
    Word = 32
    Periods = {1, 2}
    Sleeps = {0, 1, 2, 6}
    MaxTime = 14
INVARIANTS
    NoDrift
    ReplacedWhenStopped
PROPERTIES
    SleepsFromTheTick
    CatchesUp

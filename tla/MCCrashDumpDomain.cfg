SPECIFICATION Spec
CONSTANTS
    Domains = {"cpu1", "cpu2"}
    PayloadSize <- MCPayloadSize
    MaxRuns = 1
INVARIANT
    DumpIsOfDomain

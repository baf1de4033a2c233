SPECIFICATION Spec
CONSTANTS
    Domains = {"cpu2"}
    PayloadSize <- MCPayloadSize
    MaxRuns = 4
INVARIANTS
    ShownIsOfCrash
    HeadersMatchFile
PROPERTIES
    ReportArrives

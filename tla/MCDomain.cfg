SPECIFICATION Spec
CONSTANTS
    SeqMod = 3
    StartPolls = 2
    AwaitPolls = 2
    Images <- MCImages
    Header <- MCHeader
    Loads <- MCLoads
INVARIANTS
    TypeOK
    OneOutstanding
    ReadyMeansIdle
    PayloadIntact
    KillHolds
PROPERTIES
    StartOkMeansConfirmed
    VerdictIsMine
    FollowsLifeCycle

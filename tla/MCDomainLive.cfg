SPECIFICATION FairSpec
CONSTANTS
    SeqMod = 2
    StartPolls = 2
    AwaitPolls = 2
    Images <- MCImages
    Header <- MCHeader
    Loads <- MCFewLoads
PROPERTIES
    KillTakesEffect
    CommandAnswered
    CallsReturn

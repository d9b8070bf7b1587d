SPECIFICATION FairSpec
CONSTANTS
    c1 = c1
    c2 = c2
    k1 = k1
    None = None
    Caller = {c1, c2}
    Key = {k1}
    Asks <- PairAsks
    NumProviders = 2
INVARIANTS
    TypeOK
    NeverLost
    PendingIsLatest
    CalledOnce
PROPERTIES
    OutcomeSticks
    NegativeIsEarned
    EveryoneIsAnswered
    SuccessIsTold
CHECK_DEADLOCK FALSE

SPECIFICATION FairSpec
CONSTANTS
    p = p
    i = i
    o1 = o1
    o2 = o2
    r1 = r1
    None = None
    Addr = {p, i}
    ImplOf <- Implementations
    Obj = {o1, o2}
    Arguments <- AllArguments
    Reader = {r1}
    ReadOf <- ReadsFirst
INVARIANTS
    TypeOK
    CacheIsSound
    ArgumentsAreObeyed
    ProxyIsOverlaid
    MissingIsEarned
PROPERTIES
    EveryReadEnds
CHECK_DEADLOCK TRUE

CONSTANTS
    t1 = t1
    t2 = t2
    c1 = c1
    c2 = c2
    strict = strict
    plain = plain
    alice = alice
    bob = bob
    token = token
    other = other
    NoChain = NoChain
    NoKey = NoKey
    NoCall = NoCall
    NoFee = NoFee
    NoTopic = NoTopic
    NoAbi = NoAbi
    NoReading = NoReading
    Refused = Refused
    AnySize = AnySize
    Type <- SomeTypes
    PyValue <- SomeValues
    Thread = {t1, t2}
    Worker = {t1}
    Chain = {c1, c2}
    Manager = {strict, plain}
    ChainOf <- Owner
    Strict = {strict}
    MaxDepth <- Depth
    Lag = 2
    Buffer = {0, 1, 2}
    MaxTip = 4
    Abi <- WithTuples
    Ask <- TupleAsks
    Manner = {"direct", "call", "estimate", "transact"}
    FeeArgs <- SomeFees
    Quotes <- SomeQuotes
    Increments <- SomeIncrements
    MaxReplacements = 2
    Address = {token, other}
    AbiAt <- Abis
    Receipt <- Receipts
SPECIFICATION Spec
INVARIANT
    SelectorIsCanonical

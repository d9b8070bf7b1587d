SPECIFICATION Spec
CONSTANTS
    m = m
    s = s
    a1 = a1
    t1 = t1
    t2 = t2
    None = None
    Chain = {m, s}
    Address = {a1}
    Thread = {t1, t2}
    Batch <- Batches
    Warm = {m}
    Uses <- UseBoth
    Configures <- FirstConfigures
    MaxConfigures = 1
INVARIANTS
    TypeOK
    AnswersInPlace
    CodeIsCurrent
    ClientIsCached
CHECK_DEADLOCK TRUE

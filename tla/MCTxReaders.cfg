SPECIFICATION ReaderSpec
CONSTANTS
    t1 = t1
    t2 = t2
    s1 = s1
    r1 = r1
    NoTx = NoTx
    Tx = {t1, t2}
    Slot = {s1}
    SlotOf <- RivalSlots
    Seeded = {t2}
    AllowUnseen = {}
    Kept = {t1, t2}
    MaxBatchSize = 4
    BatchCanFail = FALSE
    CallCanFail = FALSE
    Reader = {r1}
    ReadOf <- ReadFound
INVARIANTS
    AnswersAreTrue
PROPERTIES
    AnswersSettleOnce
CHECK_DEADLOCK TRUE

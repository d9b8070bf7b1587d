SPECIFICATION Spec
CONSTANTS
    t1 = t1
    t2 = t2
    s1 = s1
    NoTx = NoTx
    Tx = {t1, t2}
    Slot = {s1}
    SlotOf <- RivalSlots
    Seeded = {t2}
    AllowUnseen = {}
    Kept = {t1, t2}
    MaxBatchSize = 6
    BatchCanFail = FALSE
    CallCanFail = TRUE
PROPERTIES
    FinalizedIsStable
CHECK_DEADLOCK TRUE

SPECIFICATION Spec
CONSTANTS
    t1 = t1
    t2 = t2
    s1 = s1
    NoTx = NoTx
    Tx = {t1, t2}
    Slot = {s1}
    SlotOf <- RivalSlots
    Seeded = {t2}
    AllowUnseen = {}
    Kept = {}
    MaxBatchSize = 6
    BatchCanFail = TRUE
    CallCanFail = TRUE
INVARIANTS
    TypeOK
    Truthful
    NeverAbandoned
    NoLostWake
CHECK_DEADLOCK TRUE

SPECIFICATION FairSpec
CONSTANTS
    t1 = t1
    t2 = t2
    s1 = s1
    NoTx = NoTx
    Tx = {t1, t2}
    Slot = {s1}
    SlotOf <- RivalSlots
    Seeded = {t2}
    AllowUnseen = {}
    Kept = {t1, t2}
    MaxBatchSize = 4
    BatchCanFail = TRUE
    CallCanFail = FALSE
INVARIANTS
    BatchFits
    OutcomeBeforeFinal
PROPERTIES
    FinalizedIsStable
    RevertResolvedOnce
    ImplementsLifecycle
    PropertiesUnblock
    MinedIsFinalized
    SupersededIsFinalized
    RevertReasonArrives
CHECK_DEADLOCK TRUE

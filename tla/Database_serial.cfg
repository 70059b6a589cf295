SPECIFICATION Spec
CONSTANTS
    Transactions = {t1, t2}
    Singles = {s1, s2}
    Overlap = TRUE
    Faults = {"locked", "integrity", "cancel"}
INVARIANTS
    AckedWriteKept
    AllOrNothing
CHECK_DEADLOCK FALSE

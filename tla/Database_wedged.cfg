SPECIFICATION Spec
CONSTANTS
    Transactions = {t1, t2}
    Singles = {s1, s2}
    Overlap = FALSE
    Faults = {"integrity"}
INVARIANTS
    AutoCommitOutside
CHECK_DEADLOCK FALSE

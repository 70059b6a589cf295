SPECIFICATION LiveSpec
CONSTANTS
    Drivers = {d1, d2}
    Tickers = {}
    Calls = {c1}
    MaxRound = 1
    Nobody = Nobody
INVARIANTS
    SnapshotCurrent
    NoTornSession
PROPERTIES
    RoundsGrow
    CancelReturns
CHECK_DEADLOCK FALSE

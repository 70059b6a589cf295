SPECIFICATION Spec
CONSTANTS
    Drivers = {d1, d2}
    Tickers = {k1}
    Calls = {c1}
    MaxRound = 0
    Nobody = Nobody
INVARIANTS
    CancelSticks
CHECK_DEADLOCK FALSE

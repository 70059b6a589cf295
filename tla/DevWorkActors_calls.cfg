SPECIFICATION Spec
CONSTANTS
    Drivers = {d1, d2}
    Tickers = {k1}
    Calls = {c1, c2}
    MaxRound = 1
    Nobody = Nobody
SYMMETRY Symmetry
CONSTRAINT TickBound
INVARIANTS
    TypeOK
    OneDriver
PROPERTIES
    CompletedIsFinal
    TickYieldsToDriver
CHECK_DEADLOCK FALSE

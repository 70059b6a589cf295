SPECIFICATION LiveSpec
CONSTANTS
    HardMax = 2
    MaxRounds = 1
    MaxTicks = 7
    RoundCap = 0
PROPERTIES
    RunsSettle
CHECK_DEADLOCK FALSE

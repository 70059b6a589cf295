SPECIFICATION Spec
CONSTANTS
    Works = {w1, w2}
    Slugs = {s1}
    Mockups = {w1}
    Tasks = {t1, t2}
    Clients = {c1}
    MaxLoops = 1
    MaxEvents = 4
    MaxShared = 1
    None = None
SYMMETRY Symmetry
INVARIANTS
    TypeOK
    CompletedHasDoc
    OneDriver
    PublishedValidated
PROPERTIES
    StagesMoveForward
CHECK_DEADLOCK FALSE

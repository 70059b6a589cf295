CONSTANTS
    Sessions = {s1}
    Workers = {w1}
    Local = local
    Remote = remote
    ListLimit = 2
    MaxEvents = 2
SPECIFICATION Spec
INVARIANTS
    TypeOK
    EndedBeforeClose
    SuccessIsTheProcess
PROPERTIES
    OrphansEnd
CHECK_DEADLOCK FALSE

SPECIFICATION Spec
CONSTANTS
    HardMax = 2
    MaxRounds = 1
    MaxTicks = 20
    RoundCap = 1
INVARIANTS
    TypeOK
    BreakerUnused
    CompletedEarned
    EscalationKeepsResume
    SessionsClosed
    ColdReviewer
    NotesTrackRounds
    MaxResumeCurrent
PROPERTIES
    LifecycleSpec
CHECK_DEADLOCK FALSE

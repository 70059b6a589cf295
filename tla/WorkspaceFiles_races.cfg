CONSTANTS
    Md = md
    Files = {f}
    Hashes = {h1, h2}
    Clients = {c1, c2}
    Hosts = {k1}
    MaxEvents = 5
    NotSet = not_set
    None = none
SPECIFICATION Spec
SYMMETRY Symmetry
INVARIANTS
    TypeOK
    ForeignKeysHold
    AcpxSeesIndex
PROPERTIES
    RunReplacesItsStart
    LocalFilesKept
    ArchivedIsFinal
CHECK_DEADLOCK FALSE

CONSTANTS
    Rows = {r1, r2}
    Kinds = {"hosts", "repos"}
    Urls = {u1, u2}
    Listed = {r1}
    ListedUrl = u1
    Clients = {c1, c2}
    MaxEvents = 4
    None = none
SPECIFICATION Spec
INVARIANTS
    TypeOK
    NoDanglingRef
    PushedIsOnRemote
PROPERTIES
    PushedIsFinal
    StatusOfHosts
CHECK_DEADLOCK FALSE

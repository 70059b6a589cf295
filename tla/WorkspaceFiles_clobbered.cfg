CONSTANTS
    Md = md
    Files = {f}
    Hashes = {h1, h2}
    Clients = {c1}
    Hosts = {k1}
    MaxEvents = 4
    NotSet = not_set
    None = none
SPECIFICATION Spec
PROPERTIES
    RefusedWriteKeepsBytes
CHECK_DEADLOCK FALSE

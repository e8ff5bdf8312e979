SPECIFICATION FairSpec
CONSTANTS
    Clients = {n1, n2}
    Hashes = {h1, h2}
    Times = {1}
    BatchLimit = 2
    MaxRevision = 2
    MaxFaults = 1
    Syncs = {y1, y2}
    Agents = {a1}
    NoRow = NoRow
    NoHash = NoHash
    NoControl = NoControl
    NoRead = NoRead
INVARIANTS
    SyncedAuthority
PROPERTIES
    RevokedStaysRevoked
    ChangesAreApplied
CHECK_DEADLOCK FALSE

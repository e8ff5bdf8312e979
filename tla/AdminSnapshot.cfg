SPECIFICATION Spec
CONSTANTS
    Clients = {n1, n2}
    Readers = {g1}
    Backups = {{n1}}
    Orders = {o1}
    NoRow = NoRow
    NoList = NoList
    MaxTombstones = 1
    MaxAttempts = 2
    MaxRevision = 1
    MaxVersion = 4
INVARIANTS
    
    AnswerIsCurrent
CHECK_DEADLOCK FALSE

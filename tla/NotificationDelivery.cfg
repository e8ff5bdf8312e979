SPECIFICATION FairSpec
CONSTANTS
    Runs = {r1, r2}
    Tokens = {t1, t2, t3}
    NoToken = NoToken
    NoRow = NoRow
    NoEvent = NoEvent
    NoMark = NoMark
    Lease = 2
    Budget = 1
    FirstBackoff = 2
    LastBackoff = 3
    MaxAttempts = 2
    MaxOutages = 1
    MaxChanges = 1
    MaxFaults = 1
INVARIANTS
    OneSender
PROPERTIES
    MarksFollowDeliveries
    OwnerIsTold

SPECIFICATION Spec
CONSTANTS
    MaxReports = 2
    MaxQueue = 2
    MaxConnects = 1
    MaxChanges = 2
    MaxFaults = 1
    MaxStreak = 1
INVARIANTS
    RemovedStaysRemoved
    HiddenFromPublic
    OnlineMeansConnected
PROPERTIES
    NoFalseOffline

SPECIFICATION FairSpec
CONSTANTS
    PingTasks = {p1}
    WebsiteTasks = {w1}
    Configs = {c1, c2}
    NoTask = NoTask
    NoResult = NoResult
    NoProbe = NoProbe
    Cancelled = Cancelled
    PingLimit = 1
    WebsiteLimit = 1
    MaxResults = 2
    MaxBasicInfo = 1
    MaxFaults = 1
    MaxPolicies = 2
    MaxReportsPerEnvelope = 1
    MaxPending = 2
INVARIANTS
    LeasedResultsAreHeld
    ResultsAreCurrent
PROPERTIES
    NoResultLost
    ImplementsLifecycle
    ResultsAreDelivered

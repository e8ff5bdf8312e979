SPECIFICATION FairSpec
CONSTANTS
    PingTasks = {p1}
    WebsiteTasks = {w1}
    Configs = {c1, c2}
    Intervals = {1}
    NoTask = NoTask
    NoResult = NoResult
    NoProbe = NoProbe
    Cancelled = Cancelled
    Slots = {s1, s2}
    Idle = Idle
    MaxTime = 2
    MaxPolicies = 2
    MaxSignals = 1
INVARIANTS
    OneProbePerTask
    NoLostWakeup
PROPERTIES
    ImplementsLifecycle
    DueProbesRun
CHECK_DEADLOCK FALSE

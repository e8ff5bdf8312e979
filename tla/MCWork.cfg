SPECIFICATION Spec
CONSTANTS
  Nil = Nil
  Clients = {"c1", "c2"}
  Lead = "c1"
  Limits = {10}
  MaxUsage = 11
  Critical = 1
  Near = 2
  Far = 3
  MaxJobs = 1
  MaxTime = 2
  MaxRevision = 1
INVARIANTS
  LateResultsAreHarmless
PROPERTIES
  FuseHolds
  DeferredIsDone
  
CHECK_DEADLOCK FALSE

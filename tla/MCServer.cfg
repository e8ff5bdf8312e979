SPECIFICATION Spec
CONSTANTS
  Nil = Nil
  SetupRequests = {"q1", "q2"}
  MaxMigrations = 3
  Deployments = {1, 2}
  MaxLost = 1
  MaxSent = 2
  MaxPeriods = 2
  MaxBoots = 2
  MaxDays = 1
  MaxSaves = 3
  MaxStops = 1
  Places = {"p1", "p2"}
  EdgeTtl = 2
  IsolateTtl = 1
  MaxVersion = 2
  Tabs = {"t1", "t2"}
  Ttl = 1
  MaxTime = 1
  MaxMfaVersion = 2
  MaxSecret = 2
  MaxKey = 2
  MaxRequests = 3
  Tasks = {"t1", "t2"}
  Values = {0, 1, 9}
  LostPing = 0
  NumReports = 3
  HttpReports = {2}
  Spacing = 2
  Interval <- MCInterval
  Heartbeat = 6
  Change = 5
  MaxQueue = 2
  Addresses = {"a", "b"}
  NoAddress = "none"
  Missing = Nil
  Machines <- MCMachines
  MaxChanges = 1
  MaxJobs = 2
  MaxFailures = 1
  Users = {"u1"}
  Attempts = {"a1", "a2"}
  Threshold = 2
  Window = 1
  MaxLock = 2
  CleanupAge = 2
  MaxLoginTime = 4
  MaxLoginFailures = 3
INVARIANTS
  CredentialsEnd
  
  HistoryIsExact
  InterruptedIsWhole
PROPERTIES
  NoRequestOversteps
CHECK_DEADLOCK FALSE

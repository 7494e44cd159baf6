SPECIFICATION Spec
CHECK_DEADLOCK FALSE
CONSTANTS
  Pending = Pending
  RowListLimit = 2
  SessionsPage = 3
  FailureWindow = 1
  Off = 9
  Malformed = Malformed
  NoDate = NoDate
  WatchedTables = {t1, t2}
  NoId = NoId
  Blank = Blank
  Absent = Absent
  PluginPage = 2
  MismatchListLimit = 1
  Signals = {"availability", "jobs", "syslog", "mid_ecc", "flow", "sessions", "drift", "last_clone", "http_probe"}
  Availability = "availability"
  NonVoting = {"sessions", "last_clone"}
  PlatformProbes = {"http_probe"}
  Builds = {b1, b2}
  NoBuild = NoBuild
  SignalIds <- MCSignalIds
  Correlating = {"jobs", "syslog", "flow", "mid_ecc"}
  Trending = {"availability", "jobs", "syslog"}
  PlainCount = {"syslog", "flow", "actions"}
  Null = Null
  NoOne = NoOne
  Never = Never
  DrillInRowLimit = 2
  GapThreshold = 2
  CorrelationWindow = 2
  AnomalyAt = 2
  MinBaseline = 2
  WeekSecs = 4
  MinBuckets = 2
  StaleAfter = 3
  CriticalAfter = 9
  DayWindow = DayWindow
  b1 = b1
  b2 = b2
  NoValue = NoValue
  Empty = Empty
  NotANumber = NotANumber
  Nobody = Nobody
  LogRead = 3
  MostEvents = 3
  LongestDigest = 2
  NamesCap = 2
  MostSlots = 2
  CopiedFor = 1
  ExportedFor = 2
  FailedFor = 3
  LastSecond = 3
  U64Max = 9999
  Unset = Unset
  IdLimit = 3
  Threads = {d1, d2, c1}
  NoThread = NoThread
  d1 = d1
  d2 = d2
  c1 = c1
  t1 = t1
  t2 = t2
INVARIANT MeasuresAreHonest
INVARIANT SurfacesAreHonest
INVARIANT TrendsAreExact
INVARIANT EdgesHold
INVARIANT MigrationsRunOnce

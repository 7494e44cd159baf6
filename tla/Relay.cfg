SPECIFICATION Spec
CONSTANTS
  Backfill = 1
  Receiver = {"accepts", "refuses"}
  RequeueWhen = {"up", "down"}
  MaxTime = 2
  MaxPending = 1
  MaxCrashes = 1
  MaxErrors = 1
  MaxRequeues = 1
  Retention = 9
  MaxEvents = 2
INVARIANT TypeOK
INVARIANT SkipsHaveACause
INVARIANT RepeatsAreBounded
PROPERTY CursorNeverRewinds

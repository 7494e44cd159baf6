SPECIFICATION FairSpec
CONSTANTS
  Backfill = 0
  Receiver = {"accepts", "refuses"}
  RequeueWhen = {"down"}
  MaxTime = 2
  MaxPending = 1
  MaxCrashes = 1
  MaxErrors = 0
  MaxRequeues = 1
  Retention = 9
  MaxEvents = 2
PROPERTY EventuallySettled

SPECIFICATION FairSpec
CONSTANTS
  i1 = i1
  i2 = i2
  u1 = u1
  b1 = b1
  t1 = t1
  t2 = t2
  Ids = {i1, i2}
  Urls = {u1}
  BadUrl = BadUrl
  Blobs = {b1}
  None = None
  Missing = Missing
  Malformed = Malformed
  Threads = {t1, t2}
  Command = Command
  InitialLists <- MCInitialLists
  Stores = {"file", "keychain"}
  Settings = {"s1", "s2"}
  DefaultSettings = "s1"
  MaxOps = 2
  MaxFaults = 1
INVARIANT ServedIsStored
PROPERTY WritesTouchOneEntry
PROPERTY OrphansHaveAReason
PROPERTY SavedIsPolled

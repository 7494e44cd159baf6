SPECIFICATION Spec
CHECK_DEADLOCK FALSE
CONSTANTS
  Callers = {c1, c2, c3}
  Environments = {dev, test}
  MayCall <- MCMayCall
  HostOf <- MCHostOf
  AuthOf <- MCAuthOf
  Blobs = {old, new}
  Given = {}
  NoBlob = NoBlob
  GlobalLimit = 2
  HostLimit = 1
  MaxRetries = 1
  MaxCalls = 3
  MaxChanges = 1
  c1 = c1
  c2 = c2
  c3 = c3
  dev = dev
  test = test
  prod = prod
  old = old
  new = new
INVARIANT LoadIsBounded
PROPERTY RotationIsPickedUp
PROPERTY CallsEnd

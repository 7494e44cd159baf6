SPECIFICATION Spec
CHECK_DEADLOCK FALSE
CONSTANTS
  Callers = {c2}
  Environments = {dev, test}
  MayCall <- MCMayCall
  HostOf <- MCHostOf
  AuthOf <- MCAuthOf
  Blobs = {old, new}
  Given = {}
  NoBlob = NoBlob
  GlobalLimit = 2
  HostLimit = 1
  MaxRetries = 0
  MaxCalls = 3
  MaxChanges = 1
  c1 = c1
  c2 = c2
  c3 = c3
  dev = dev
  test = test
  prod = prod
  old = old
  new = new
PROPERTY OauthRotationIsPickedUp

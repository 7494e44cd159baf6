SPECIFICATION Spec
CONSTANTS
  dev = dev
  prod = prod
  Environments <- MCEnvironments
  Sources <- MCSources
  NoSource = NoSource
  GroupSignals <- MCGroupSignals
  SlowEvery = 2
  Window = 0
  Refresh = 1
  MaxFaults = 1
  MaxSamples = 2
  Nothing = Nothing
INVARIANT SlowRowsAreHonest
INVARIANT SleepersAreLeftAlone
INVARIANT OldRowsNeedAFault
INVARIANT FaultsCostLittle
PROPERTY RoundsAreDelivered

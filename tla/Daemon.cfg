SPECIFICATION Scenes
CONSTANTS
  CacheKeys <- MCKeys
  PublishOrder <- MCPublishOrder
  ReplayOrder <- MCReplayOrder
  Series <- MCSeries
  Pieces <- SmallPieces
  Bound = 5
  MaxIncomplete = 1
  MaxVersion = 2
  MaxDisconnects = 1
  MaxStalls = 1
  Keys = {k1, k2}
  Subscribers = {s1, s2}
  Requests = {r1, r2}
  MaxMessages = 2
  Listeners = {w1, w2}
  RestartsDaemon = TRUE
  MaxClients = 4
  MaxFailures = 2
INVARIANT ReceivesWhole
INVARIANT RegistriesAreSwept
INVARIANT NothingSlipsPast
INVARIANT OneDaemonForAll
PROPERTY FeedSpec
PROPERTY LossyReplayIsLearnt
PROPERTY WideConverges
PROPERTY ClientCallsReturn
PROPERTY WindowsReconnect

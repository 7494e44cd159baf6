SPECIFICATION Scenes
CONSTANTS
  Signals <- MCSignals
  Availability = "availability"
  NonVoting = {}
  PlatformProbes = {}
  Builds = {"b1", "b2"}
  NoBuild = "none"
  NoValue = "none"
  Observable <- MCObservable
  InitialRows <- EmptyDatabase
  Notes = {"text"}
  NoNote = "none"
  StopPoints <- Anywhere
  Retention = 3
  MaxEvents = 2
  MaxPerSecond = 2
  MaxPublishes = 5
  MaxStops = 1
  MaxErrors = 1
INVARIANT LogIsSound
PROPERTY EventIffConfirmedChange
PROPERTY NoteSurvives
INVARIANT LogIsExplained

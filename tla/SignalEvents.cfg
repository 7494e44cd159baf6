SPECIFICATION Spec
CONSTANTS
  Signals = {"jobs", "syslog"}
  NoValue = "none"
  StopPoints = {"idle", "walk", "record", "store", "prune"}
  Retention = 4
  MaxEvents = 2
  MaxPublishes = 5
  MaxStops = 1
  MaxErrors = 1
INVARIANT LogIsSound
PROPERTY SkipsAreInvisible

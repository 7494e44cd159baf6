SPECIFICATION Scenes
CONSTANTS
  MaxIds = 2
  Pinned = 2
  PublishLimit = 2
  SeenCap = 2
  Backlog = 2
  Able = {}
  MaxEvents = 3
  MaxClicks = 0
  MaxBoots = 0
  MaxCuts = 1
  MaxWeeks = 0
  None = None
INVARIANT WindowsStandFirm
PROPERTY AnnouncedOnce
PROPERTY DesktopSettles

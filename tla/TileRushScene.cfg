SPECIFICATION SceneSpec
CONSTANTS
  None = None
  Tiles <- MCTiles
  Slot <- MCSlot
  Faces <- MCFaces
  Deal <- MCDeal
  MaxAttempts = 2
  TrayMaxEasy = 4
  TrayMax = 3
  MatchesBeforeHardTray = 1
  ShufflesPerRun = 1
  RoundTime = 1
  MaxReloads = 1
INVARIANTS
  TilesAccounted
  TapTargets
  EndIsReported
CONSTRAINT NoStrays
CHECK_DEADLOCK FALSE

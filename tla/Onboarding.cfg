SPECIFICATION TabSpec
CONSTANTS
  None = None
  Asked = Asked
  c1 = c1
  c2 = c2
  Callbacks = {c1, c2}
  MaxStandings = 1
  Empty = {1}
  MaxUnderWay = 2
  MaxDrops = 1
  Fee = 1
  MaxCredits = 1
  MaxFails = 1
  MaxTurns = 2
PROPERTIES
  ChangesAreShown
  PushedViewsFollow
  PaidPlayersGetToPlay
CHECK_DEADLOCK FALSE

SPECIFICATION ArcadeSpec
CONSTANTS
  a1 = a1
  a2 = a2
  Accounts = {a1, a2}
  Amounts = {20, 60}
  Prices = {4}
  CreditScale = 2000
  Splits <- MCSplits
  Roots <- MCRoots
  MaxMinted = 3
  EntryFee = 1
  MaxPlayers = 2
  DeployBlock = 1
  MaxBlocks = 3
  MaxDays = 2
  MaxRestarts = 1
  p1 = p1
  p2 = p2
  Polls = {p1, p2}
  MaxOverlaps = 1
INVARIANTS
  CreditsAccounted
  HookBooksAgree
  MetricsFollowTheChain
CONSTRAINT Apart
SYMMETRY PollsAlike
CHECK_DEADLOCK FALSE

SPECIFICATION FairWalletSpec
CONSTANTS
  None = None
  modal = modal
  other = other
  w1 = w1
  w2 = w2
  Wallets = {w1, w2}
  Hooks = {modal, other}
  Modal = modal
  MaxCalls = 2
  MaxDisconnects = 1
  MaxNonces = 1
  MaxPosts = 2
  MaxReloads = 1
INVARIANTS
  DisconnectSticks
  NonceSpentByRacers
PROPERTIES SessionLasts LockIsPassedOn
CHECK_DEADLOCK FALSE

SPECIFICATION FairWalletSpec
CONSTANTS
  None = None
  modal = modal
  other = other
  w1 = w1
  w2 = w2
  Wallets = {w1, w2}
  Hooks = {modal, other}
  Modal = modal
  MaxCalls = 2
  MaxDisconnects = 0
  MaxNonces = 1
  MaxPosts = 1
  MaxReloads = 0
PROPERTY SwapsAreAnswered
CHECK_DEADLOCK FALSE

SPECIFICATION BridgeSpec
CONSTANTS
  None = None
  r1 = r1
  r2 = r2
  Accounts = {u1}
  Amounts = {10, 40}
  Prices = {4, 8}
  CreditScale = 2000
  Splits <- MCSplits
  Roots = {}
  MaxMinted = 2
  Requests = {r1, r2}
  Txs = {t1}
  Withdrawals = {2}
  Opening = 2
  VaultOpening = 20
  MaxPayouts = 2
  MaxRetries = 3
  MaxFailures = 1
INVARIANTS
  BalanceIsLedger
  RacesBounded
  PayoutsAccounted
  RefusedForAReason
CONSTRAINTS
  Apart
  PoolRests
SYMMETRY RequestSymmetry
CHECK_DEADLOCK FALSE

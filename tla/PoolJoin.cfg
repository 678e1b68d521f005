SPECIFICATION Spec
CONSTANTS
  u1 = u1
  u2 = u2
  u3 = u3
  r1 = r1
  r2 = r2
  d = d
  w = w
  x = x
  Users = {u1, u2}
  Pools = {d, w, x}
  Requests = {r1, r2}
  Kind <- MCKind
  Fee <- MCFee
  MaxPlayers <- MCMaxPlayers
  SeedPrize <- MCSeed
  SeedReward <- MCSeed
  OpeningBalance <- MCOpening
INVARIANTS
  OneChargePerSeat
  LedgerReplays
  PoolBooksMatchSeats
  OverfillBounded
  CreditsConserved
PROPERTIES
  ImplementsEntryGate
CHECK_DEADLOCK FALSE

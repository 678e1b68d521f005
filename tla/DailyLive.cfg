SPECIFICATION FairDailySpec
CONSTANTS
  u1 = u1
  u2 = u2
  r1 = r1
  r2 = r2
  p1 = p1
  p2 = p2
  s1 = s1
  s2 = s2
  Seats = 1
  Opening = 20
  Users = {u1}
  Pools = {p1, p2}
  Requests = {r1}
  Settlers = {s1}
  Scores = {}
  MaxFailures = 1
  MaxOvertaken = 0
  Kind <- MCKind
  Fee <- MCFee
  MaxPlayers <- MCMaxPlayers
  SeedPrize <- MCSeed
  SeedReward <- MCSeed
  OpeningBalance <- MCOpening
INVARIANT LedgersAgree
PROPERTIES
  ExpiredPoolsSettle
  DailyReturns
CHECK_DEADLOCK FALSE

SPECIFICATION DailySpec
CONSTANTS
  u1 = u1
  u2 = u2
  r1 = r1
  r2 = r2
  p1 = p1
  p2 = p2
  s1 = s1
  s2 = s2
  Seats = 2
  Opening = 20
  Users = {u1, u2}
  Pools = {p1}
  Requests = {r1}
  Settlers = {s1}
  Scores = {1}
  MaxFailures = 1
  MaxOvertaken = 1
  Kind <- MCKind
  Fee <- MCFee
  MaxPlayers <- MCMaxPlayers
  SeedPrize <- MCSeed
  SeedReward <- MCSeed
  OpeningBalance <- MCOpening
INVARIANTS
  PaidOncePerRun
  SettledExactly
  RewardsAreEarned
SYMMETRY PlayerSymmetry
CHECK_DEADLOCK FALSE

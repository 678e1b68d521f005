SPECIFICATION ScoreSpec
CONSTANTS
  p1 = p1
  p2 = p2
  n1 = n1
  n2 = n2
  n3 = n3
  n4 = n4
  s1 = s1
  s2 = s2
  Seats = {p1}
  Nonces = {n1, n2, n3}
  Slots = {s1, s2}
  Runs <- MCRuns
INVARIANTS
  TablesAgree
  FaithfulUnlessOvertaken
  ReplaysBounded
SYMMETRY ScoreSymmetry
CHECK_DEADLOCK FALSE

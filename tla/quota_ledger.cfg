SPECIFICATION Spec
CONSTANTS
  a1 = a1  a2 = a2  u1 = u1  u2 = u2  p1 = p1  p2 = p2
  t1 = t1  t2 = t2  t3 = t3  t4 = t4
  r1 = r1  r2 = r2
  Nobody = Nobody
  Anon <- DeviceOnly
  Users <- None
  Projects <- OneProject
  Turns <- FourTurns
  Requests <- OneRequest
  GrantSizes <- OneOrTwo
  AnonCap = 1
  CustomerCap = 1
  Bonus = 1
  Linkable <- None
  Idle <- DeviceOnly
SYMMETRY TurnSymmetry
CHECK_DEADLOCK FALSE
INVARIANTS UsedCountsTurns GrantsAreNotMultiplied NoOverspending FailedTurnIsGivenBack
PROPERTY ImplementsLedger

SPECIFICATION LockFairSpec
CONSTANTS
  Checks = {1, 2}
  CoolAt = 1
  WipeAt = 2
  Cooldown = 1
  MaxHandlers = 2
  MaxFailures = 3
INVARIANTS
  CountLostOnlyToOverlap
  LeftOpenOnlyLate
PROPERTIES
  ImplementsDoors
  OwnerGetsIn
CHECK_DEADLOCK FALSE

SPECIFICATION Spec
CONSTANTS
  admin1 = admin1
  admin2 = admin2
  Invocations = {admin1, admin2}
  MaxValue = 1
  Scale = 3
INVARIANT MarketUpdateKeepsTheRest
CHECK_DEADLOCK FALSE

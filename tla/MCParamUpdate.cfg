SPECIFICATION Spec
CONSTANTS
  admin1 = admin1
  admin2 = admin2
  Invocations = {admin1, admin2}
  MaxValue = 1
  Scale = 3
SYMMETRY Symmetry
INVARIANTS
  TypeOK
  VaultUpdateFits
PROPERTIES
  UpdateKeepsTheRest
CHECK_DEADLOCK FALSE

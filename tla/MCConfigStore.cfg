SPECIFICATION Spec
CONSTANTS
  setter1 = setter1
  setter2 = setter2
  user1 = user1
  Setters = {setter1, setter2}
  Users = {user1}
  Options <- MCOptions
SYMMETRY Symmetry
INVARIANTS
  TypeOK
  ReadableUnlessDisturbed
  EndpointFollowsLabel
  DrainPassedItsGuard
PROPERTIES
  OnlyProvidedOptionsChange

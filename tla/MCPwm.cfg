SPECIFICATION FairSpec
CONSTANTS
  Period = 6
  Mod = 16
  SetPoints = {0, 1, 2, 3, 4, 5, 6}
INVARIANTS
  PartsBounded
PROPERTIES
  KeepsPulsing

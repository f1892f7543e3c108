SPECIFICATION Spec
CONSTANTS
  MaxCount = 1
  CountMod = 16
  SetPoints = {7}
PROPERTIES
  ClockwiseAtRest

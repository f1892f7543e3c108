SPECIFICATION FairSpec
CONSTANTS
  MaxCount = 2
  CountMod = 6
  SetPoints = {0, 7}
PROPERTIES
  NoFlipWhileMeasuring
  ImplementsInterlock
  LowMeansStopped
  StopWaitEnds
  DirectionSettles

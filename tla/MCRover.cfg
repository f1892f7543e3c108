SPECIFICATION FairSpec
CONSTANTS
  Bytes = {0, 1, 4, 5, 6}
  PinCodes = {0, 2, 6}
  LitByte = 7
  FifoDepth = 2
  Controls = {"SW0", "BTNC"}
INVARIANTS
  NoAdcNeverDrives
  WheelsAligned
PROPERTIES
  AutoObeysSensor
  ImplementsInterlock
  StopIsObeyed
  ObstacleStops

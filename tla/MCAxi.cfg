SPECIFICATION FairSpec
CONSTANTS
  Registers = {0, 2}
  Writable = {2}
  OffMap = {7}
  Lanes = {0}
  Values = {0, 1}
PROPERTIES
  ImplementsRegisterFile
  AccessesEnd

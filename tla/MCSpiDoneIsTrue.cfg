SPECIFICATION Spec
CONSTANTS
    FifoDepth = 2
    MaxBytes = 2
    NumSlaveBits = 1
    RegisterBits = 2
    Selections = {{0}}
    OptionSets = {{"MASTER_MODE"}}
    Faults = {"MODE_FAULT"}
    AllFaults = TRUE
PROPERTIES DoneIsTrue
CHECK_DEADLOCK FALSE

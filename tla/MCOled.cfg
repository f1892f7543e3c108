SPECIFICATION OledFairSpec
CONSTANTS
    FifoDepth = 16
    MaxBytes = 40
    NumSlaveBits = 1
    RegisterBits = 2
    Selections = {{0}}
    OptionSets = {{"MASTER_MODE"}}
    Faults = {}
    AllFaults = FALSE
    OLEDRGB_WIDTH = 16
    OLEDRGB_HEIGHT = 16
    Windows <- MCWindows
    Positions <- MCPositions
    Strings <- MCStrings
INVARIANTS OledTypeOK DisplayAsAsked
PROPERTIES BytesReachDisplay CommandsAreCommands CallsReturn

SPECIFICATION FairSpec
CONSTANTS
    FifoDepth = 2
    MaxBytes = 5
    NumSlaveBits = 2
    RegisterBits = 3
    Selections = {{}, {0}, {1}, {0, 1}}
    OptionSets = {{"MASTER_MODE"}, {"MASTER_MODE", "LOOPBACK"}}
    Faults = {"MODE_FAULT", "SLAVE_MODE_FAULT", "CMD_ERR"}
    AllFaults = FALSE
INVARIANTS TypeOK BytesInPlace
PROPERTIES ReachesItsSlave ImplementsSpiBus TransferEnds

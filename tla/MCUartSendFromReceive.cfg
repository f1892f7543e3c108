SPECIFICATION FairSpec
CONSTANTS
    FifoDepth = 2
    MaxBytes = 2
    MaxRecv = 1
    MaxBreaks = 0
    Thresholds = {2}
    OptionSets = {{"FIFOS_ENABLE", "RX_DATA"}}
    Formats = {{}}
    BaudRates = {20, 22}
    InputClockHz = 950
    Word = 65536
    SendFromReceive = TRUE
PROPERTIES SendEnds

SPECIFICATION FairSpec
CONSTANTS
    FifoDepth = 2
    MaxBytes = 3
    MaxRecv = 2
    MaxBreaks = 1
    Thresholds = {2}
    OptionSets = {{"FIFOS_ENABLE"}, {"FIFOS_ENABLE", "RX_DATA", "RX_LINE", "MODEM"}}
    Formats = {{}}
    BaudRates = {20, 22}
    InputClockHz = 950
    Word = 65536
    SendFromReceive = FALSE
INVARIANTS TypeOK TransmitsInOrder ReceivesInOrder
PROPERTIES SentIsSent SendEnds

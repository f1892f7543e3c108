SPECIFICATION Spec
CONSTANTS
    Numbers = {0, 7, 1040, 100000000}
    Switches = {40300}
    Codes = {9, 29, 40}
    Duties = {0, 64}
    MaxCalls = 3
INVARIANTS TypeOK NumberShown EnablesKept
PROPERTIES OnlyWhatWasAsked

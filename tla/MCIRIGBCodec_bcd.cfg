CONSTANTS
    Times <- MCTimes
    CorruptWidths <- MCCorruptWidths
    TimerFreq = 100000
    TolPct = 10
SPECIFICATION Spec
INVARIANT
    NonBitValueSlotReadAsZero

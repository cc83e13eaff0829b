CONSTANTS
    TxTimes <- MCTxTimes
    FirstSlot = 95
    TimerFreq = 100000
    TolPct = 10
    MaxChunk = 2
    MaxFaults = 0
    FaultKinds = {}
    FaultSlots = {}
    AlterWidths <- MCAlterWidths
SPECIFICATION Spec
INVARIANT
    LatestSecondDecoded

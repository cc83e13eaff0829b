CONSTANTS
    TxTimes <- MCTxTimes
    FirstSlot = 95
    TimerFreq = 100000
    TolPct = 10
    MaxChunk = 1
    MaxFaults = 1
    FaultKinds = {"lose", "double", "alter"}
    FaultSlots <- MCFaultSlots
    AlterWidths <- MCAlterWidths
SPECIFICATION Spec
PROPERTIES
    ShowsSentTime

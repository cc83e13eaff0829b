CONSTANTS
    TxTimes <- MCTxTimes
    FirstSlot = 95
    TimerFreq = 100000
    TolPct = 10
    MaxChunk = 2
    MaxFaults = 2
    FaultKinds = {"double"}
    FaultSlots <- MCFaultSlots
    AlterWidths <- MCAlterWidths
SPECIFICATION Spec
INVARIANT
    ClockIsTransmitted

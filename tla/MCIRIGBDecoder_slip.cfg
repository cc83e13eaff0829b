CONSTANTS
    TxTimes <- MCTxTimes
    FirstSlot = 95
    TimerFreq = 100000
    TolPct = 10
    MaxChunk = 2
    MaxFaults = 1
    FaultKinds = {"lose", "double"}
    FaultSlots <- Slots
    AlterWidths <- MCAlterWidths
SPECIFICATION Spec
INVARIANTS
    TypeOK
    ClockIsTransmitted

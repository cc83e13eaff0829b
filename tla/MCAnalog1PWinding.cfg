CONSTANTS
    SamplesPerCycle = 8
    Inputs = {1, 2}
    NoInput = NoInput
    MaxUpdates = 12
SPECIFICATION Spec
INVARIANTS TypeOK  PhasorQuadrature

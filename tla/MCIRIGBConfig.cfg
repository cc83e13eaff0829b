CONSTANTS
    Freqs = {100, 1000, 100000}
    Tols <- MCTols
SPECIFICATION Spec
INVARIANT ThresholdsStrictlyIncreasing

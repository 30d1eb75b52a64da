\* Fans with a reported maximum of 100 %.
CONSTANTS
    Full = 5
    Ranges <- MCFullRanges
    Reduction = 2
    Step = 2
    Tolerance = 1
    Attempts = 2
    Temps = {1, 2, 3}
    QuietLimit = 2
    Targets = {1, 2}
    None = None
SPECIFICATION Spec
INVARIANTS
    IInv
    SuccessIsMeasured
    QuietRestoresSpeed
    ThermalRaises
PROPERTY
    OptimizeReturns

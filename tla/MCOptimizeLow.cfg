\* Fans with a reported maximum below 100 %: the loop of optimize_thermal.
CONSTANTS
    Full = 5
    Ranges <- MCLowRanges
    Reduction = 2
    Step = 2
    Tolerance = 1
    Attempts = 2
    Temps = {1, 2, 3}
    QuietLimit = 2
    Targets = {1, 2}
    None = None
SPECIFICATION Spec
PROPERTY OptimizeReturns

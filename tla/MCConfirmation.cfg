SPECIFICATION Spec
CONSTANTS
    Single = {"set_fan_percent"}
    Fan = "set_fan_percent"
    Other = {"optimize_quiet"}
    LowRisk = {"load_profile"}
    t1 = t1
    t2 = t2
    t3 = t3
    Tokens = {t1, t2, t3}
    Requests = {2, 6}
    Limits = {3, 5}
    Tolerance = 1
    PassthroughTimeout = 1
    TokenTTL = 2
    MaxClock = 3
    None = None
SYMMETRY Symmetry
INVARIANTS
    IInv
    InTimeReplyIsValid
PROPERTIES
    AppliedWithinLimitsRead
    AffirmsLastPrompt
    ImplementsConsent

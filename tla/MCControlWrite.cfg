\* Two controls, the fan among them; the hardware may refuse a core offset.
CONSTANTS
    core = core
    fan = fan
    Controls = {core, fan}
    Fan = fan
    HeaderBytes = 8
    EntryBytes = 12
    MaxEntries = 4
    CommandAt = 4
    FieldAt <- MCFieldAt
    FanFlagsAt = 8
    Gpu = 1
    Headers <- MCHeaders
    Values <- MCValues
    Asked <- MCAsked
    Field <- MCField
    Rejecting = {core}
    Tolerance = 1
    FlushTimeout = 2
    Cooldown = 1
    None = None
SPECIFICATION Spec
INVARIANTS
    IInv
    WritesOwnWords
PROPERTIES
    ReadBackIsInForce
    NoChangeIsOwed
    FanSetIsManual
    EveryCallReturns

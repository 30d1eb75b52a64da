\* The same instance against what the docstring of _raise_if_write_blocked_by_elevation says of timeouts.
CONSTANTS
    core = core
    fan = fan
    Controls = {core, fan}
    Fan = fan
    HeaderBytes = 8
    EntryBytes = 12
    MaxEntries = 4
    CommandAt = 4
    FieldAt <- MCFieldAt
    FanFlagsAt = 8
    Gpu = 1
    Headers <- MCHeaders
    Values <- MCValues
    Asked <- MCAsked
    Field <- MCField
    Rejecting = {core}
    Tolerance = 1
    FlushTimeout = 2
    Cooldown = 1
    None = None
SPECIFICATION Spec
PROPERTY SuccessIsConfirmed

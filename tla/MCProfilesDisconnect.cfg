\* The same instance against Requirement 13.5.
CONSTANTS
    power = power
    fan = fan
    g1 = g1
    g2 = g2
    Keys <- MCKeys
    Fan = fan
    Mode = Mode
    Fixed = Fixed
    Automatic = Automatic
    Ignored = Ignored
    Other = Other
    Slots = {1, 2}
    Startup = Startup
    Elsewhere = Elsewhere
    SettingKeys <- MCSettingKeys
    Format = Format
    Texts <- MCTexts
    Empty = Empty
    Cards = {g1, g2}
    Card = None
    Undecodable = Undecodable
    Values <- MCValues
    Limits = {2, 4}
    Disks <- MCDisks
    Saves = {1}
    Tolerance = 1
    MaxMoves = 2
    Garbage = Garbage
    None = None
SPECIFICATION OSpec
INVARIANT DisconnectPreserves

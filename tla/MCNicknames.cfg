\* Two slots, one other setting.
CONSTANTS
    quiet = quiet
    Quiet = Quiet
    profile2 = profile2
    reserved = reserved
    Slots = {1, 2}
    Names <- MCNames
    Fold <- MCFold
    Reads <- MCReads
    Reserved = {reserved}
    Others = {other}
    Files <- MCFiles
    Absent = Absent
    Broken = Broken
    None = None
SPECIFICATION Spec
INVARIANTS
    IInv
    AcknowledgedIsOnDisk
PROPERTY
    StaysUnique

\* Headers of every kind, two layouts, regions that hold them and that do not.
CONSTANTS
    temp = temp
    fan1 = fan1
    fan2 = fan2
    HeaderSize = 2
    EntrySize = 3
    GpuSize = 2
    MaxEntries = 2
    MaxGpus = 1
    Word = 8
    Headers <- MCHeaders
    Regions = {1, 7, 10}
    Tables <- MCTables
    Values = {1}
    Unavailable = Unavailable
    Fields <- MCFields
    Candidates <- MCCandidates
    None = None
SPECIFICATION Spec
INVARIANTS
    IInv
    ReadsWithinCopy
PROPERTY
    SampleIsPublished

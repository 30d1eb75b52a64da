\* Seconds: a TTL of 2 s, a poll distance of 1 s, stale after 5 s.
CONSTANTS
    Samples <- MCSamples
    TTL = 2
    MinPoll = 1
    Stale = 5
    MaxDelay = 2
    MaxSkew = 2
    None = None
SPECIFICATION SSpec
INVARIANTS
    IInv
    OldIsFlagged
    DiagnosisIsFresh
    CauseHasItsSignal
    ReadyServes
PROPERTY
    PollsAreSpaced

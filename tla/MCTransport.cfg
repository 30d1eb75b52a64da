\* Three frames of three cells.  The loop may end for good.
CONSTANTS
    MaxFrames = 3
    Size = 3
SPECIFICATION Spec
INVARIANTS
    IInv
    AnsweredInOrder
    ShutdownIsFinal
PROPERTY
    FramesAreAnswered
CHECK_DEADLOCK FALSE

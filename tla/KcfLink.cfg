SPECIFICATION FairSpec
CONSTANTS
    FRAME_NUM = 4
    SEQUENCES = 2
    Builds = {TRUE, FALSE}
    COLLISIONS = 2
INVARIANTS
    WaitedForThisTransfer
    NoUseAfterFree
    NothingCollides
    CleanHandover
PROPERTIES
    ImplementsSession
    EverySequenceEnds
CHECK_DEADLOCK FALSE

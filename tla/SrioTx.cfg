SPECIFICATION FairSpec
CONSTANTS
    B = 2
    Values <- MCValues
INVARIANTS PacketsInOrder DoorbellsRight ReadsMatchJob BusyMeansWork
PROPERTIES EveryStartEnds
CHECK_DEADLOCK FALSE

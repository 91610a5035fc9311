SPECIFICATION FairSpec
CONSTANTS
    Regs = {1, 2}
    Values = {0, 1}
    DEPTH = 3
    BURST = 2
    ACCESSES = 6
INVARIANTS WritesKeepTheirData ReadGetsItsOwnAnswer
PROPERTIES EveryAccessEnds

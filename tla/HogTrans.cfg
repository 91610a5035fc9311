SPECIFICATION FairSpec
CONSTANTS
    BEAT = 4
    BURST = 2
    Blocks <- MCBlocks
    OUT = 6
    FLUSH = 2
    READS = 2
    STARTS = 2
    BinA = 1
    BinB = 2
    BinC = 3
INVARIANTS BurstsMatchBeats BlockInPlace FeaturesInPlace
PROPERTIES EveryStartEnds

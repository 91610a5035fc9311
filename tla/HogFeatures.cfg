SPECIFICATION FairSpec
CONSTANTS
    CELL = 4
    N = 6
    H = 9
    LINE = 32
    SLINE = 4
    ROW2 = 30
    Pauses = {0, 2}
    ADDR = 256
    Bin <- MCBin
    Mod <- MCMod
    Hamming <- MCHamming
INVARIANTS HistogramsComplete FeaturesRight
PROPERTIES EveryImageEnds

SPECIFICATION FairSpec
CONSTANTS
    N = 3
    Detects = {1, 3}
    Updates = 2
    Runs = 2
INVARIANTS BuffersInOrder
PROPERTIES AllServed

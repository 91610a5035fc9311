SPECIFICATION Spec
CONSTANTS
    B = 2
    Values <- HeldValues
INVARIANTS HeldUntilDone
CHECK_DEADLOCK FALSE

SPECIFICATION PassesSpec
CONSTANTS
    Lens = {2, 4}
    COLS = 3
    ROWS = 2
    GRID = 2
    REQUESTS = 2
INVARIANTS TransformIsRight CopyIsRight NothingElseWritten

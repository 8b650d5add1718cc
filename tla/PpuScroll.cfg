SPECIFICATION Spec
CONSTANTS
    TileW = 4
    TileH = 2
    Cols = 2
    Rows = 2
    RowCodes = 4
    LowByte = 4
    PrefetchAt = 9
    Dots = 18
    Lines = 6
    ScrollBytes = {0, 3, 6}
    HighBytes = {0, 5}
    LowBytes = {1, 2}
    Increments = {1, 2}
    MaxWrites = 5
    Slots <- MCSlots
INVARIANTS
    TypeOK
PROPERTIES
    ColumnIsRight
    RowIsRight
    DataPortUndisturbed

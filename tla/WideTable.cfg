SPECIFICATION Spec
CONSTANTS
    Columns <- MCWide
    Row <- MCWideRow
    Condition = {}
    NoCondition = NoCondition
    Null = Null
    Projection <- MCProjection
    VectorSize = 2
    PageBytes = 4
    RowsPerByte = 2
    RowGroupSize = 4
    PoolFrames = 3
    MaxErrors = 0
    MaxRows = 5
INVARIANTS ScanReturnsInserted

SPECIFICATION Spec
CONSTANTS
    Columns <- MCNarrow
    Row <- MCNarrowRow
    Condition <- MCCondition
    NoCondition = NoCondition
    Null = Null
    Projection <- MCProjection
    VectorSize = 2
    PageBytes = 4
    RowsPerByte = 2
    RowGroupSize = 3
    PoolFrames = 3
    MaxErrors = 1
    MaxRows = 4
INVARIANTS TypeOK ScanReturnsInserted FetchesStayInRowGroup FramesSuffice
PROPERTIES ScanEnds

SPECIFICATION Spec
CONSTANTS
    Table = {"t", "u"}
    NoTable = NoTable
    Parsed <- MCParsed
    kRowGroupSize = 2
    Existing <- MCExisting
    Pieces <- MCPieces
    MaxPieces = 3
    TypeAhead = 1
    MaxSignals = 2
INVARIANTS TypeOK ExecutedAsTyped InterruptDropsText LateByOneLine RowsAsNamed
PROPERTIES SessionEnds
CHECK_DEADLOCK FALSE

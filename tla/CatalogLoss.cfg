SPECIFICATION Spec
CONSTANTS
    Table = {t1}
    NoTable = NoTable
    Shape <- MCShape
    PageUnits = 2
    MaxInserts = 3
    MaxSessions = 3
    MaxIoErrors = 1
    MaxCrashes = 0
PROPERTIES OpenShowsCommitted
CHECK_DEADLOCK FALSE

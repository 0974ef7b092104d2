SPECIFICATION Spec
CONSTANTS
    Table = {t1, t2}
    NoTable = NoTable
    Shape <- MCShape
    PageUnits = 2
    MaxInserts = 2
    MaxSessions = 3
    MaxIoErrors = 2
    MaxCrashes = 1
INVARIANTS TypeOK RowGroupsIntact MetadataSurvives SuccessIsSaved
PROPERTIES ImplementsCatalogStore
SYMMETRY MCSymmetry
CHECK_DEADLOCK FALSE

SPECIFICATION Spec
CONSTANTS
    Frame = {f1, f2, f3}
    MaxAccesses = 6
INVARIANTS TypeOK OrderIsRecency SizeIsExact
PROPERTIES EvictsOldest

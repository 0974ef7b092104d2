SPECIFICATION Spec
CONSTANTS
    Input <- MCInput
    KeyColumns = 2
    Char = {"a"}
    VectorSize = 2
    Limit = 4
    Null = Null
INVARIANTS TypeOK OutputIsGroupBy
PROPERTIES AggregationEnds
CHECK_DEADLOCK FALSE

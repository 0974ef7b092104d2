SPECIFICATION Spec
CONSTANTS
    IntBits = 4
    FloatBits = 2
    FloatExponents = 5
    Schema <- MCSchema
    Where <- MCWhere
    Item <- MCItem
    NoWhere = NoWhere
    Contents <- MCContents
INVARIANTS TypeOK AnswersWhere PrintsPrefix TypeErrorsAreKnown DeathsAreKnown
CHECK_DEADLOCK FALSE

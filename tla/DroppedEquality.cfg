SPECIFICATION Spec
CONSTANTS
    Query <- TwiceConnected
    Database <- MCDatabase
    NoPlan = NoPlan
    NoSkip = NoSkip
INVARIANTS PlanMeansQuery
CHECK_DEADLOCK FALSE

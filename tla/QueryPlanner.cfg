SPECIFICATION Spec
CONSTANTS
    Query <- MCQuery
    Database <- MCDatabase
    NoPlan = NoPlan
    NoSkip = NoSkip
INVARIANTS TypeOK PlanMeansQuery  FiltersAreDeep
CHECK_DEADLOCK FALSE

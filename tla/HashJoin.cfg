SPECIFICATION Spec
CONSTANTS
    BuildInput <- MCBuildInput
    ProbeInput <- MCProbeInput
    KeyColumns = 2
    Char = {"a"}
    VectorSize = 2
    Null = Null
INVARIANTS TypeOK OutputIsJoin
PROPERTIES JoinEnds
CHECK_DEADLOCK FALSE

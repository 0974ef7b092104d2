SPECIFICATION Spec
CONSTANTS
    PoolSize = 2
    Page <- MCPage
    Value = {v1, v2}
    Unwritten = Unwritten
    NoPage = NoPage
    NoFrame = NoFrame
    MaxPins = 2
    MaxReadErrors = 2
    MaxWriteErrors = 1
INVARIANTS PoolInv PointerValid LostFramesBounded
PROPERTIES PinnedBytesStable ImplementsPageStore
SYMMETRY MCSymmetry

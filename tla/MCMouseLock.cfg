SPECIFICATION FairSpec
CONSTANTS
    Width = 300
    Radius = 100
    MergeLimit = 48
    Starts <- MCStarts
    Steps <- MCSteps
    Targets <- MCTargets
    MaxMoves = 3
    MaxCalls = 3
    None = None
INVARIANTS
    TypeOK
    CameraFollowsHand
    PointerReturns
PROPERTIES
    WarpAnswered
CHECK_DEADLOCK FALSE

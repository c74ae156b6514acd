SPECIFICATION Spec
CONSTANTS
    Width = 300
    Radius = 100
    MergeLimit = 48
    Starts <- MCStarts
    Steps <- MCSteps
    Targets = {}
    MaxMoves = 3
    MaxCalls = 1
    None = None
INVARIANTS
    WarpsSeenAlone
CHECK_DEADLOCK FALSE

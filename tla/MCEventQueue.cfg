SPECIFICATION InputFairSpec
CONSTANTS
    Main = main
    Others = {render}
    Keys = {left, right}
    Paired = {left, right}
    Masks <- MCMasks
    Limit = 2
    MaxPosts = 3
    MaxCalls = 1
    None = None
    Blocks = {b1, b2, b3}
    Places = 2
    Traffic <- MCTraffic
INVARIANTS
    InputTypeOK
    EventsKept
    InOrder
    KeysTrue
    MonitorsHear
PROPERTIES
    DiscardSpares
    QueueDrains
CHECK_DEADLOCK FALSE

SPECIFICATION FairSpec
CONSTANTS
    RingFrames = 4
    RenderFrames = 2
    Requests <- MCRequests
    MaxSamples = 6
INVARIANTS
    TypeOK
    UnreadIntact
    NoDataRace
PROPERTIES
    ImplementsStream
    RenderedIsPlayed
    StopReturns

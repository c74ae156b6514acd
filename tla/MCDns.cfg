SPECIFICATION FairSpec
CONSTANTS
    t1 = t1
    t2 = t2
    w1 = w1
    w2 = w2
    p1 = p1
    p2 = p2
    Ports = {p1, p2}
    Ids = {1, 2}
    Threads = {t1, t2}
    Workers = {w1, w2}
    Addresses = {a1, a2}
    Slots = 1
    None = None
    Names = {n1}
    Requests <- MCRequests
    Upstream <- MCUpstream
    MinLife = 1
    MaxLife = 2
    Sizes <- MCSizes
INVARIANTS
    TypeOK
    RightAllocator
    AnswerFresh
    AnswersTheQuestion
PROPERTIES
    LookupEnds
CHECK_DEADLOCK FALSE

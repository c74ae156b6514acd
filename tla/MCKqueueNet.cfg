SPECIFICATION FairSpec
CONSTANTS
    UdpFds = {f1, f2}
    OtherFds = {f1}
    Slots = 1
    Capacity = 1
    Buffer = 1
    MaxRegs = 2
    MaxArrivals = 2
    None = None
INVARIANTS
    TypeOK
    DeletedIsSilent
PROPERTIES
    DataIsRead
CHECK_DEADLOCK FALSE

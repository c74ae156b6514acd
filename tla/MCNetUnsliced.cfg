SPECIFICATION FairSpec
CONSTANTS
    UdpFds = {f1}
    OtherFds = {}
    Slots = 1
    Capacity = 1
    Buffer = 1
    MaxRegs = 2
    MaxArrivals = 2
    None = None
PROPERTIES
    AllDataRead
CHECK_DEADLOCK FALSE

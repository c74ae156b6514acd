SPECIFICATION FairSpec
CONSTANTS
    Reader = R
    Updater = U
    Threads = {R, U}
    passed = passed
    other = other
    Passed = passed
    Conds = {passed, other}
    None = None
    Tries = 1
    Slice = 1
    SliceMax = 3
    MaxLost = 1
    Uses <- MCPollingUse
    Buffer = 1
    PollSlice = 3
    Timeouts = {0, 4}
    Young = 1
    Old = 2
    Never = 4
PROPERTIES
    EveryStallEnds

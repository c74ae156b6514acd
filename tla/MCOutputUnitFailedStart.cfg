SPECIFICATION Spec
CONSTANTS
    Threads = {t1, t2}
    Procs = {p1, p2}
    Devices = {d1, d2}
    None = None
    PipeSize = 1
INVARIANTS
    SingleRenderThread
CHECK_DEADLOCK FALSE

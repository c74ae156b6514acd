SPECIFICATION Spec
CONSTANTS
    screen = screen
    glx = glx
    other = other
    f1 = f1
    f2 = f2
    f3 = f3
    c1 = c1
    c2 = c2
    Screen = screen
    Visuals = {screen, glx, other}
    Machines <- MCMachines
    Threads = {t1, t2}
    Formats = {f1, f2, f3}
    Contexts = {c1, c2}
    None = None
    Slots = 2
    Configured = 1
INVARIANTS
    TypeOK
    ProfileAsAsked
    DarlingsCompatible
    SurfaceWhereOneFits
    NotedAreSet

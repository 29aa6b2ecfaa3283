SPECIFICATION Spec
CONSTANTS
    p1 = p1
    p2 = p2
    t1 = t1
    t2 = t2
    a = a
    b = b
    Processes = {p1}
    Threads = {t1, t2}
    Nodes = {a, b}
    Links <- Chain
    Creator = p1
    Gone = Gone
    MaxCalls = 4
INVARIANTS TypeOK VersionChecked UpdatesKept  DownstreamFlagged
PROPERTIES RemovedStays
SYMMETRY Symmetry
CHECK_DEADLOCK FALSE

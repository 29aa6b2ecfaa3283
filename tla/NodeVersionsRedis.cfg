SPECIFICATION Spec
CONSTANTS
    p1 = p1
    p2 = p2
    t1 = t1
    t2 = t2
    a = a
    b = b
    Processes = {p1, p2}
    Threads = {t1}
    Nodes = {a, b}
    Links <- Chain
    Creator = p1
    Gone = Gone
    MaxCalls = 2
INVARIANTS VersionChecked
CHECK_DEADLOCK FALSE

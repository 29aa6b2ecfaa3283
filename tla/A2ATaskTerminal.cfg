\* A send and a cancellation of one task, nothing else going wrong.
CONSTANTS
    Servers = {p1, p2}
    Tasks = {t1}
    NoTask = NoTask
    MaxCrashes = 0
    MaxRaises = 0
SPECIFICATION Spec
PROPERTY TerminalStays
CHECK_DEADLOCK FALSE

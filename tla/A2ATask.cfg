\* Three server processes and one task: its send and cancellations
\* overlap, with one crash and one raising statement.
CONSTANTS
    Servers = {p1, p2, p3}
    Tasks = {t1}
    NoTask = NoTask
    MaxCrashes = 1
    MaxRaises = 1
SPECIFICATION Spec
INVARIANTS TypeOK CompletedHasResult HistoryKept
PROPERTIES ImplementsLifecycle 
CHECK_DEADLOCK FALSE

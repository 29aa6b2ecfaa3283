SPECIFICATION Spec
CONSTANTS
    Processes = {s1, s2}
    Schedulers = {s1}
    NoProcess = NoProcess
    Pipelines = {p1}
    Triggers = {"scheduled", "one_time"}
    Absent = Absent
    PoolSize = 1
    MaxActivities = 3
    MaxFaults = 1
CHECK_DEADLOCK FALSE
INVARIANTS
    TypeOK
    PauseHolds
    SettingsKept
    RunsCounted
    HistorySound
    StoreConsistent

    

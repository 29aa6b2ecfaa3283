\* A claim that read the task before it was completed by another agent.
CONSTANTS
    Agents = {a1, a2}
    Tasks = {t1, t2}
    NoAgent = NoAgent
    NoTask = NoTask
    MaxCalls = 4
    MaxAborts = 0
SPECIFICATION Spec

PROPERTY CompletedNotClaimed
CHECK_DEADLOCK FALSE

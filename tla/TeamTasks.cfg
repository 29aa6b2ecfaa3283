\* Two agents and two tasks; four calls interleave freely and one of them may
\* break off half way.
CONSTANTS
    Agents = {a1, a2}
    Tasks = {t1, t2}
    NoAgent = NoAgent
    NoTask = NoTask
    MaxCalls = 4
    MaxAborts = 1
SPECIFICATION Spec
INVARIANTS TypeOK ClaimExclusive NoLeakedLock OpenAnnounced
 
CHECK_DEADLOCK FALSE
